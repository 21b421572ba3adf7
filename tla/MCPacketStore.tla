---------------------------- MODULE MCPacketStore ----------------------------
(***************************************************************************)
(* Three calls over two payloads and two tenants: a repeated request, a    *)
(* transaction waiting behind it, and calls of either kind.  Payloads      *)
(* and tenants are interchangeable, so the first call has p1 and t1; a     *)
(* symmetry set would not be sound for the temporal property.              *)
(***************************************************************************)
EXTENDS PacketStore

CONSTANTS p1, t1

FirstIsFixed ==
    (\A c \in Calls : payload[c] = None) =>
        \A c \in Calls : payload'[c] \in {p1, None} /\ tenant'[c] \in {t1, None}

MCSpec == Init /\ [][Next /\ FirstIsFixed]_vars /\ Fairness
=============================================================================
