---------------------------- MODULE Capabilities ----------------------------
(***************************************************************************)
(* Capability tokens of engine/auth/capabilities.py and the two admin      *)
(* subactions of engine/handlers.py that issue and revoke them.  Tokens    *)
(* are numbered in the order in which they enter CapabilityValidator's     *)
(* registry (a dict, so iteration follows that order): cap is that         *)
(* registry as a sequence, and cap[c].parent is granted_by, 0 standing     *)
(* for "ROOT".  The handlers run without an await between reading the      *)
(* registry and changing it, so each is one step.  Proof hashes always     *)
(* match (the one override of tenant_id recomputes the hash) and are left  *)
(* out.  A chain of tokens is shorter than the nesting of calls that Python*)
(* allows, so the recursion of revoke_capability ends.                     *)
(***************************************************************************)
EXTENDS Integers, Sequences

CONSTANTS
    Tenants,
    Domains,        \* domain ids a request may name
    Packs,          \* those that have a domain pack to load
    AnyDomain,      \* "*"
    Actions,        \* capability action strings
    Requestable,    \* sets of actions a request may name
    Lifetimes,      \* values of expires_in_seconds, 0 for none
    MaxCaps,        \* bound on tokens issued
    MaxTime         \* bound on the clock

ASSUME CapsAssumption ==
    /\ MaxCaps \in Nat
    /\ MaxTime \in Nat \ {0}
    /\ Requestable \subseteq SUBSET Actions
    /\ Lifetimes \subseteq Nat
    /\ Packs \subseteq Domains
    /\ AnyDomain \notin Domains

VARIABLES
    cap,        \* the registry: one record per token issued
    reported,   \* tokens some answer has named to a caller
    now         \* time.time()

vars == <<cap, reported, now>>

Scopes == Domains \cup {AnyDomain}

CapabilityRecord ==
    [tenant : Tenants, domain : Scopes, actions : SUBSET Actions,
     parent : Nat, expires : Nat, revoked : BOOLEAN]

Issued == 1..Len(cap)

IsExpired(c) == cap[c].expires # 0 /\ now > cap[c].expires

IsActive(c) == ~cap[c].revoked /\ ~IsExpired(c)

\* Active tokens of a tenant that allow every requested action.
Holding(src, acts) ==
    {c \in Issued : cap[c].tenant = src /\ IsActive(c) /\ acts \subseteq cap[c].actions}

\* The domain half of the monotonicity check.
Covers(scope, dom) == scope \in {AnyDomain, dom}

\* Mutant: a child derived without a lifetime of its own never expires.
MutUncappedExpiry(parentExpires, ttl) == IF ttl > 0 THEN now + ttl ELSE 0

\* A child never outlives its parent; 0 means no expiry.
ChildExpiry(parentExpires, ttl) ==
    LET asked == IF ttl > 0 THEN now + ttl ELSE 0
    IN  IF parentExpires > 0 /\ (asked = 0 \/ asked > parentExpires)
        THEN parentExpires
        ELSE asked

NewRoot(src, acts) ==
    [tenant |-> src, domain |-> AnyDomain, actions |-> acts,
     parent |-> 0, expires |-> 0, revoked |-> FALSE]

Init ==
    /\ cap = <<>>
    /\ reported = {}
    /\ now = 1

Child(p, parentExpires, tgt, dom, acts, ttl) ==
    [tenant |-> tgt, domain |-> dom, actions |-> acts,
     parent |-> p, expires |-> ChildExpiry(parentExpires, ttl), revoked |-> FALSE]

\* The refusals of derive_capability.
MayDerive(p, dom, acts) ==
    /\ IsActive(p)
    /\ Covers(cap[p].domain, dom)
    /\ acts \subseteq cap[p].actions

\* Mutant: only the new token is named in the answer.
MutAnswered(dom, toks) ==
    reported' = IF dom \in Packs \cup {AnyDomain}
                THEN reported \cup {c \in toks : \A d \in toks : d <= c} ELSE reported

\* The audit record needs the domain's pack: without one load_domain raises
\* after the token has been registered, and the answer never names it.
Answered(dom, toks) ==
    reported' = IF dom \in Packs \cup {AnyDomain} THEN reported \cup toks ELSE reported

\* delegate_capability when the source tenant holds a covering token: the first
\* one in registry order is the parent, and when that one may not derive the
\* request PermissionError leaves everything as it was (no step).
Delegate(src, tgt, dom, acts, ttl) ==
    /\ Len(cap) + 1 <= MaxCaps
    /\ \E p \in Holding(src, acts) :
          /\ \A c \in Holding(src, acts) : p <= c
          /\ MayDerive(p, dom, acts)
          /\ cap' = Append(cap, Child(p, cap[p].expires, tgt, dom, acts, ttl))
          /\ Answered(dom, {p, Len(cap) + 1})
    /\ UNCHANGED now

\* delegate_capability when it holds none: the handler first issues the source
\* tenant a root token for exactly the requested actions.
DelegateFromNewRoot(src, tgt, dom, acts, ttl) ==
    /\ Len(cap) + 2 <= MaxCaps
    /\ Holding(src, acts) = {}
    /\ LET root == Len(cap) + 1
       IN  /\ cap' = Append(Append(cap, NewRoot(src, acts)),
                            Child(root, 0, tgt, dom, acts, ttl))
           /\ Answered(dom, {root, root + 1})
    /\ UNCHANGED now

\* The derivation engine refuses the lifetime: expires_in_seconds is null or a
\* string, which nothing checks before it is compared with zero.  The handler has
\* registered the root by then, and its answer is an error.
DeriveRaises(src, acts) ==
    /\ Len(cap) + 1 <= MaxCaps
    /\ Holding(src, acts) = {}
    /\ cap' = Append(cap, NewRoot(src, acts))
    /\ UNCHANGED <<reported, now>>

\* A token and all that was derived from it, however indirectly: the least set
\* that holds c and, with a token, every token derived from it.
Descendants(c) ==
    {d \in Issued : \A S \in SUBSET Issued :
        (c \in S /\ \A x \in Issued : cap[x].parent \in S => x \in S) => d \in S}

\* Mutant: only the token and its direct children are revoked.
MutShallow(c) == {d \in Issued : d = c \/ cap[d].parent = c}

\* revoke_capability calls itself for every token derived from its own.
RevokedBy(c) ==
    LET visited[d \in Issued] ==
            {d} \cup UNION {visited[k] : k \in {k \in Issued : cap[k].parent = d}}
    IN  visited[c]

\* revoke_capability; an unknown id is a ValidationError (no step).
Revoke(c) ==
    /\ cap' = [d \in Issued |->
                  IF d \in RevokedBy(c) THEN [cap[d] EXCEPT !.revoked = TRUE] ELSE cap[d]]
    /\ UNCHANGED <<reported, now>>

Tick ==
    /\ now < MaxTime
    /\ now' = now + 1
    /\ UNCHANGED <<cap, reported>>

Next ==
    \/ \E src, tgt \in Tenants, dom \in Scopes, acts \in Requestable, ttl \in Lifetimes :
          \/ Delegate(src, tgt, dom, acts, ttl)
          \/ DelegateFromNewRoot(src, tgt, dom, acts, ttl)
    \/ \E src \in Tenants, acts \in Requestable : DeriveRaises(src, acts)
    \/ \E c \in Issued : Revoke(c)
    \/ Tick

Spec == Init /\ [][Next]_vars

-----------------------------------------------------------------------------
TypeOK ==
    /\ cap \in Seq(CapabilityRecord)
    /\ Len(cap) <= MaxCaps
    /\ reported \subseteq Issued
    /\ now \in 1..MaxTime

\* Monotonicity along the whole chain, not only from parent to child: however
\* many delegations lie between two tokens, the later one has no action, no
\* domain and no lifetime that the earlier one lacks (derive_capability).
AuthorityShrinks ==
    \A c \in Issued : \A d \in Descendants(c) :
        /\ cap[d].actions \subseteq cap[c].actions
        /\ Covers(cap[c].domain, cap[d].domain)
        /\ cap[c].expires # 0 => cap[d].expires # 0 /\ cap[d].expires <= cap[c].expires

\* A token authorises nothing unless every token it was derived from still
\* does: neither revocation nor expiry of an ancestor, at any depth and in any
\* order with later delegations, leaves an active descendant behind.
ActiveOnlyUnderActive ==
    \A c \in Issued : \A d \in Descendants(c) : IsActive(d) => IsActive(c)

\* A token nobody was told of (so nobody can revoke it by its id) is left behind
\* by a delegation that failed half-way: its domain has no pack, or it is a root
\* issued for such a token, or a root from which nothing could be derived.
UnreportedOnlyAfterError ==
    \A c \in Issued : c \notin reported =>
        \/ \E d \in Descendants(c) : cap[d].domain \in Domains \ Packs
        \/ cap[c].parent = 0 /\ \A d \in Issued : cap[d].parent # c

Revoked == {c \in Issued : cap[c].revoked}

\* Revocation is final and precise: a token once revoked stays so, and a step
\* that revokes anything revokes one token and exactly its descendants, those
\* that were revoked or have expired before included.
RevocationIsExact ==
    [][/\ Revoked \subseteq Revoked'
       /\ Revoked # Revoked' =>
             \E c \in Issued : Revoked' = Revoked \cup Descendants(c)]_vars
=============================================================================
