------------------------- MODULE ProvisioningContract -------------------------
(***************************************************************************)
(* What ensure_database (engine/graph/driver.py:204-218) promises about    *)
(* administrative commands: for each database at most one CREATE is in     *)
(* flight, none is issued for a database already known to exist, and a     *)
(* failed one leaves nothing ensured so that a later call may retry it.    *)
(***************************************************************************)
EXTENDS Naturals

CONSTANT Databases

VARIABLES
  known,    \* databases this process knows to exist
  inflight  \* number of CREATE commands in flight per database

contractVars == <<known, inflight>>

Init ==
  /\ known = {}
  /\ inflight = [d \in Databases |-> 0]

Begin(d) ==
  /\ d \notin known
  /\ inflight[d] = 0
  /\ inflight' = [inflight EXCEPT ![d] = 1]
  /\ UNCHANGED known

Commit(d) ==
  /\ inflight[d] = 1
  /\ inflight' = [inflight EXCEPT ![d] = 0]
  /\ known' = known \cup {d}

Abort(d) ==
  /\ inflight[d] = 1
  /\ inflight' = [inflight EXCEPT ![d] = 0]
  /\ UNCHANGED known

Next == \E d \in Databases : Begin(d) \/ Commit(d) \/ Abort(d)

Spec == Init /\ [][Next]_contractVars
=============================================================================
