--------------------------- MODULE Handlers_proofs ---------------------------
(***************************************************************************)
(* What the action handlers and the nightly scans keep, for any tenants,   *)
(* packs, tokens, entities, requests, calls, gates and scans.              *)
(*                                                                         *)
(* The first part is about the token registry of admin capabilities.  The  *)
(* next says that a step of MCHandlers is one handler's.  After that,     *)
(* each part takes one handler: the feedback loop of outcomes, the scans,  *)
(* the entity graph of resolve, and the clause of a match, with an         *)
(* inductive invariant of its own.  The last two reason by induction over  *)
(* sets of entities and over nested calls of compile; the lemmas for that  *)
(* come before them.                                                       *)
(***************************************************************************)
EXTENDS MCHandlers, FiniteSetTheorems, TLAPS

\* One link of the derivation tree: the parent was issued before the child,
\* has every right of the child, and is not revoked while the child is not.
Link(c) ==
    LET p == cap[c].parent
    IN  p # 0 =>
        /\ p \in 1..(c - 1)
        /\ cap[c].actions \subseteq cap[p].actions
        /\ Covers(cap[p].domain, cap[c].domain)
        /\ cap[p].expires # 0 => cap[c].expires # 0 /\ cap[c].expires <= cap[p].expires
        /\ cap[p].revoked => cap[c].revoked

Links == \A c \in Issued : Link(c)

AuthorityInv == TypeOK /\ Links

\* What the type invariant says of a single token.
LEMMA TypedTokens ==
    ASSUME TypeOK, CapsAssumption
    PROVE  /\ Len(cap) \in Nat /\ now \in Nat
           /\ \A c \in Issued : /\ c \in Nat
                                /\ cap[c] \in CapabilityRecord
                                /\ cap[c].expires \in Nat
<1>1. cap \in Seq(CapabilityRecord) /\ Len(cap) \in Nat
  BY DEF TypeOK
<1>2. now \in Nat
  BY DEF TypeOK, CapsAssumption
<1>3. ASSUME NEW c \in Issued PROVE c \in Nat /\ cap[c] \in CapabilityRecord
  BY <1>1 DEF Issued
<1>4. \A r \in CapabilityRecord : r.expires \in Nat
  BY DEF CapabilityRecord
<1> QED
  BY <1>1, <1>2, <1>3, <1>4

\* Every issued token is its own descendant.
LEMMA SelfDescends ==
    ASSUME NEW c \in Issued
    PROVE  c \in Descendants(c)
  BY DEF Descendants

\* Descendants is closed under derivation.
LEMMA ChildDescends ==
    ASSUME NEW c, NEW x \in Issued, cap[x].parent \in Descendants(c)
    PROVE  x \in Descendants(c)
  BY DEF Descendants

\* Descendants is the least closed set: a closed set of tokens that holds c
\* holds all of them.
LEMMA DescendantsLeast ==
    ASSUME NEW c, NEW S \in SUBSET Issued, c \in S,
           \A x \in Issued : cap[x].parent \in S => x \in S
    PROVE  Descendants(c) \subseteq S
  BY DEF Descendants

\* Numbers of which there are any have a least one.
LEMMA LeastNumber ==
    ASSUME NEW S \in SUBSET Nat, S # {}
    PROVE  \E m \in S : \A k \in S : m <= k
<1>1. PICK m \in S : \A k \in S : <<k, m>> \notin OpToRel(<, Nat)
  BY NatLessThanWellFounded, WFMin
<1>2. \A k \in S : ~(k < m)
  BY <1>1 DEF OpToRel
<1> QED
  BY <1>2

\* A token's descendants are itself and those of the tokens derived from it.
LEMMA DescendantsUnfold ==
    ASSUME NEW c \in Issued
    PROVE  Descendants(c) =
             {c} \cup UNION {Descendants(k) : k \in {k \in Issued : cap[k].parent = c}}
<1> DEFINE Derived == {k \in Issued : cap[k].parent = c}
           S == {c} \cup UNION {Descendants(k) : k \in Derived}
<1>1. \A k \in Issued : k \in Descendants(k) /\ Descendants(k) \subseteq Issued
  BY SelfDescends DEF Descendants
<1>2. S \subseteq Descendants(c)
  <2>1. ASSUME NEW k \in Derived PROVE Descendants(k) \subseteq Descendants(c)
    <3>1. k \in Descendants(c)
      BY <1>1, ChildDescends
    <3>2. \A x \in Issued : cap[x].parent \in Descendants(c) => x \in Descendants(c)
      BY ChildDescends
    <3> QED
      BY <1>1, <3>1, <3>2, DescendantsLeast
  <2> QED
    BY <1>1, <2>1
<1>3. Descendants(c) \subseteq S
  <2>1. ASSUME NEW x \in Issued, cap[x].parent \in S PROVE x \in S
    <3>1. CASE cap[x].parent = c
      BY <1>1, <3>1
    <3>2. CASE cap[x].parent # c
      <4>1. PICK k \in Derived : cap[x].parent \in Descendants(k)
        BY <2>1, <3>2
      <4> QED
        BY <4>1, ChildDescends
    <3> QED
      BY <3>1, <3>2
  <2>2. c \in S /\ S \in SUBSET Issued
    BY <1>1
  <2> HIDE DEF S
  <2> QED
    BY <2>1, <2>2, DescendantsLeast
<1> QED
  BY <1>2, <1>3

\* The recursion of revoke_capability visits the descendants and nothing else:
\* a token is registered after the one it was derived from, so it ends.
LEMMA RecursionVisits ==
    ASSUME AuthorityInv, NEW c \in Issued
    PROVE  RevokedBy(c) = Descendants(c)
<1> DEFINE Derived(d) == {k \in Issued : cap[k].parent = d}
           Visits(f) == f = [d \in Issued |-> {d} \cup UNION {f[k] : k \in Derived(d)}]
           all == [d \in Issued |-> Descendants(d)]
           visited == CHOOSE f : Visits(f)
<1>1. Visits(all)
  <2>1. \A d \in Issued : UNION {all[k] : k \in Derived(d)} = UNION {Descendants(k) : k \in Derived(d)}
    OBVIOUS
  <2>2. \A d \in Issued : Descendants(d) = {d} \cup UNION {all[k] : k \in Derived(d)}
    BY <2>1, DescendantsUnfold
  <2> QED
    BY <2>2
<1>2. Visits(visited)
  <2> HIDE DEF Visits, all
  <2> QED
    BY <1>1
<1>3. \A d \in Issued : visited[d] = {d} \cup UNION {visited[k] : k \in Derived(d)}
  <2> HIDE DEF visited
  <2> QED
    BY <1>2
<1> HIDE DEF visited, Visits, all
<1>4. \A d \in Issued : visited[d] = Descendants(d)
  <2> DEFINE Wrong == {n \in Nat : \E d \in Issued : n = Len(cap) - d /\ visited[d] # Descendants(d)}
  <2>1. cap \in Seq(CapabilityRecord) /\ Len(cap) \in Nat
    BY DEF AuthorityInv, TypeOK
  <2>2. \A d \in Issued : Len(cap) - d \in Nat
    BY <2>1 DEF Issued
  <2> SUFFICES ASSUME Wrong # {} PROVE FALSE
    BY <2>2
  <2>3. PICK m \in Wrong : \A n \in Wrong : m <= n
    <3>1. Wrong \in SUBSET Nat
      OBVIOUS
    <3> HIDE DEF Wrong
    <3> QED
      BY <3>1, LeastNumber
  <2>4. PICK d \in Issued : m = Len(cap) - d /\ visited[d] # Descendants(d)
    OBVIOUS
  <2>5. ASSUME NEW k \in Derived(d) PROVE visited[k] = Descendants(k)
    <3>1. k \in Issued /\ cap[k].parent = d /\ Link(k)
      BY DEF AuthorityInv, Links
    <3>2. /\ k \in Nat /\ k <= Len(cap)
          /\ d \in Nat \ {0}
      BY <2>1, <3>1 DEF Issued
    <3>3. d < k
      BY <3>1, <3>2 DEF Link
    <3>4. Len(cap) - k \in Nat /\ ~(m <= Len(cap) - k)
      <4>1. \A l, e, f \in Nat : f <= l /\ e < f => l - f \in Nat /\ ~(l - e <= l - f)
        OBVIOUS
      <4> HIDE DEF Wrong
      <4> QED
        BY <2>1, <2>4, <3>2, <3>3, <4>1
    <3>5. ASSUME visited[k] # Descendants(k) PROVE Len(cap) - k \in Wrong
      <4>1. \E e \in Issued : Len(cap) - k = Len(cap) - e /\ visited[e] # Descendants(e)
        BY <3>1, <3>5
      <4> QED
        BY <3>4, <4>1
    <3> HIDE DEF Wrong
    <3> QED
      BY <2>3, <3>4, <3>5
  <2>6. visited[d] = Descendants(d)
    <3>1. UNION {visited[k] : k \in Derived(d)} = UNION {Descendants(k) : k \in Derived(d)}
      BY <2>5
    <3> QED
      BY <1>3, <3>1, DescendantsUnfold
  <2> QED
    BY <2>4, <2>6
<1>5. RevokedBy(c) = visited[c]
  BY DEF RevokedBy, visited, Visits
<1> QED
  BY <1>4, <1>5

\* Links add up along a chain: a descendant has no more rights than its
\* ancestor and is revoked with it (derive_capability, revoke_capability).
LEMMA LinksCompose ==
    ASSUME AuthorityInv, NEW c \in Issued, NEW d \in Descendants(c)
    PROVE  /\ cap[d].actions \subseteq cap[c].actions
           /\ Covers(cap[c].domain, cap[d].domain)
           /\ cap[c].expires # 0 => cap[d].expires # 0 /\ cap[d].expires <= cap[c].expires
           /\ cap[c].revoked => cap[d].revoked
<1> DEFINE Below(e) ==
        /\ cap[e].actions \subseteq cap[c].actions
        /\ Covers(cap[c].domain, cap[e].domain)
        /\ cap[c].expires # 0 => cap[e].expires # 0 /\ cap[e].expires <= cap[c].expires
        /\ cap[c].revoked => cap[e].revoked
<1> DEFINE S == {e \in Issued : Below(e)}
<1>1. \A e \in Issued : cap[e] \in CapabilityRecord
  BY DEF AuthorityInv, TypeOK, Issued
<1>2. c \in S
  BY <1>1 DEF Covers, CapabilityRecord
<1>3. ASSUME NEW x \in Issued, cap[x].parent \in S
      PROVE  x \in S
  <2> DEFINE p == cap[x].parent
  <2>1. p \in Issued /\ Below(p) /\ p # 0
    BY <1>3 DEF Issued
  <2>2. /\ cap[x].actions \subseteq cap[p].actions
        /\ Covers(cap[p].domain, cap[x].domain)
        /\ cap[p].expires # 0 => cap[x].expires # 0 /\ cap[x].expires <= cap[p].expires
        /\ cap[p].revoked => cap[x].revoked
    BY <2>1 DEF AuthorityInv, Links, Link
  <2>3. cap[c].expires \in Nat /\ cap[p].expires \in Nat /\ cap[x].expires \in Nat
    BY <1>1, <2>1 DEF CapabilityRecord
  <2>4. Covers(cap[c].domain, cap[x].domain)
    BY <2>1, <2>2 DEF Covers
  <2>5. cap[c].expires # 0 => cap[x].expires # 0 /\ cap[x].expires <= cap[c].expires
    BY <2>1, <2>2, <2>3
  <2> QED
    BY <2>1, <2>2, <2>4, <2>5
<1>4. Descendants(c) \subseteq S
  <2> HIDE DEF S
  <2>1. S \in SUBSET Issued
    BY DEF S
  <2> QED
    BY <1>2, <1>3, <2>1, DescendantsLeast
<1> QED
  BY <1>4

\* A record made by derive_capability is well-typed and linked to its parent.
LEMMA DerivedChild ==
    ASSUME TypeOK, CapsAssumption, NEW pexp \in Nat, pexp = 0 \/ now <= pexp,
           NEW p \in Nat, NEW tgt \in Tenants, NEW dom \in Scopes,
           NEW acts \in Requestable, NEW ttl \in Lifetimes
    PROVE  /\ Child(p, pexp, tgt, dom, acts, ttl) \in CapabilityRecord
           /\ pexp # 0 => /\ ChildExpiry(pexp, ttl) # 0
                          /\ ChildExpiry(pexp, ttl) <= pexp
<1>1. now \in Nat /\ now >= 1 /\ ttl \in Nat
  BY DEF TypeOK, CapsAssumption
<1>2. ChildExpiry(pexp, ttl) \in Nat
  BY <1>1 DEF ChildExpiry
<1>3. pexp # 0 => ChildExpiry(pexp, ttl) # 0 /\ ChildExpiry(pexp, ttl) <= pexp
  BY <1>1 DEF ChildExpiry
<1>4. acts \in SUBSET Actions
  BY DEF CapsAssumption
<1> QED
  BY <1>2, <1>3, <1>4 DEF Child, CapabilityRecord

\* Registering one more record that is well-typed and linked to an earlier token
\* keeps the invariant (CapabilityValidator.register, derive_capability).
LEMMA AppendKeeps ==
    ASSUME AuthorityInv, NEW r \in CapabilityRecord, Len(cap) + 1 <= MaxCaps,
           cap' = Append(cap, r), reported' \subseteq 1..(Len(cap) + 1), now' = now,
           r.parent # 0 =>
             /\ r.parent \in Issued
             /\ r.actions \subseteq cap[r.parent].actions
             /\ Covers(cap[r.parent].domain, r.domain)
             /\ cap[r.parent].expires # 0 =>
                   r.expires # 0 /\ r.expires <= cap[r.parent].expires
             /\ cap[r.parent].revoked => r.revoked
    PROVE  AuthorityInv'
<1> DEFINE n == Len(cap) + 1
<1>1. cap \in Seq(CapabilityRecord) /\ Len(cap) \in Nat
  BY DEF AuthorityInv, TypeOK
<1>2. /\ cap' \in Seq(CapabilityRecord)
      /\ Len(cap') = n
      /\ \A c \in 1..Len(cap) : cap'[c] = cap[c]
      /\ cap'[n] = r
  BY <1>1
<1>3. TypeOK'
  BY <1>2 DEF AuthorityInv, TypeOK, Issued
<1>4. ASSUME NEW c \in 1..n PROVE Link(c)'
  <2>1. CASE c \in Issued
    <3>1. Link(c)
      BY <2>1 DEF AuthorityInv, Links
    <3>2. cap'[c] = cap[c]
      BY <1>2, <2>1 DEF Issued
    <3>3. cap[c].parent \in 1..(c - 1) => cap'[cap[c].parent] = cap[cap[c].parent]
      BY <1>1, <1>2, <2>1 DEF Issued
    <3> QED
      BY <3>1, <3>2, <3>3 DEF Link, Covers
  <2>2. CASE c = n
    <3>1. cap'[c] = r
      BY <1>2, <2>2
    <3>2. r.parent # 0 => r.parent \in 1..(c - 1) /\ cap'[r.parent] = cap[r.parent]
      BY <1>1, <1>2, <2>2 DEF Issued
    <3> QED
      BY <3>1, <3>2 DEF Link, Covers
  <2> QED
    BY <1>1, <2>1, <2>2 DEF Issued
<1>5. Links'
  BY <1>2, <1>4 DEF Links, Issued
<1> QED
  BY <1>3, <1>5 DEF AuthorityInv

\* delegate_capability from a token the source tenant holds keeps the invariant.
LEMMA DelegateKeeps ==
    ASSUME CapsAssumption, AuthorityInv, NEW src \in Tenants, NEW tgt \in Tenants,
           NEW dom \in Scopes, NEW acts \in Requestable, NEW ttl \in Lifetimes,
           Delegate(src, tgt, dom, acts, ttl)
    PROVE  AuthorityInv'
<1>1. PICK p \in Holding(src, acts) :
          /\ MayDerive(p, dom, acts)
          /\ cap' = Append(cap, Child(p, cap[p].expires, tgt, dom, acts, ttl))
          /\ Answered(dom, {p, Len(cap) + 1})
  BY DEF Delegate
<1> DEFINE r == Child(p, cap[p].expires, tgt, dom, acts, ttl)
<1>2. /\ p \in Issued /\ p \in Nat /\ Len(cap) \in Nat
      /\ cap[p] \in CapabilityRecord
      /\ cap[p].expires \in Nat /\ now \in Nat
  BY TypedTokens DEF Holding, AuthorityInv
<1>3. cap[p].expires = 0 \/ now <= cap[p].expires
  BY <1>1, <1>2 DEF MayDerive, IsActive, IsExpired
<1>4. /\ r \in CapabilityRecord
      /\ cap[p].expires # 0 => r.expires # 0 /\ r.expires <= cap[p].expires
  <2>1. TypeOK
    BY DEF AuthorityInv
  <2>2. /\ r \in CapabilityRecord
        /\ cap[p].expires # 0 => /\ ChildExpiry(cap[p].expires, ttl) # 0
                                 /\ ChildExpiry(cap[p].expires, ttl) <= cap[p].expires
    BY <1>2, <1>3, <2>1, DerivedChild
  <2> QED
    BY <2>2 DEF Child
<1>5. /\ r.parent = p /\ r.actions = acts /\ r.domain = dom /\ r.revoked = FALSE
      /\ ~cap[p].revoked
      /\ Covers(cap[p].domain, dom) /\ acts \subseteq cap[p].actions
  BY <1>1 DEF Child, MayDerive, IsActive
<1>6. reported' \subseteq 1..(Len(cap) + 1)
  <2>1. reported \subseteq Issued
    BY DEF AuthorityInv, TypeOK
  <2>2. reported' \subseteq Issued \cup {Len(cap) + 1}
    BY <1>1, <1>2, <2>1 DEF Answered
  <2>3. Issued \cup {Len(cap) + 1} \subseteq 1..(Len(cap) + 1)
    BY <1>2 DEF Issued
  <2> QED
    BY <2>2, <2>3
<1>7. Len(cap) + 1 <= MaxCaps /\ now' = now
  BY DEF Delegate
<1> HIDE DEF r
<1> QED
  BY <1>1, <1>2, <1>4, <1>5, <1>6, <1>7, AppendKeeps DEF r

\* delegate_capability that has to issue a root first keeps the invariant.
LEMMA NewRootKeeps ==
    ASSUME CapsAssumption, AuthorityInv, NEW src \in Tenants, NEW tgt \in Tenants,
           NEW dom \in Scopes, NEW acts \in Requestable, NEW ttl \in Lifetimes,
           DelegateFromNewRoot(src, tgt, dom, acts, ttl)
    PROVE  AuthorityInv'
<1> DEFINE a == Len(cap) + 1
           n == Len(cap) + 2
           rootRec == NewRoot(src, acts)
           r == Child(a, 0, tgt, dom, acts, ttl)
<1>1. /\ cap \in Seq(CapabilityRecord) /\ Len(cap) \in Nat /\ a \in Nat
      /\ TypeOK /\ now' = now /\ n <= MaxCaps
      /\ cap' = Append(Append(cap, rootRec), r)
      /\ Answered(dom, {a, a + 1})
  BY DEF AuthorityInv, TypeOK, DelegateFromNewRoot
<1>2. rootRec \in CapabilityRecord
  <2>1. acts \in SUBSET Actions
    BY DEF CapsAssumption
  <2> QED
    BY <2>1 DEF NewRoot, CapabilityRecord, Scopes
<1>3. r \in CapabilityRecord
  BY <1>1, DerivedChild
<1>4. /\ rootRec.parent = 0 /\ rootRec.actions = acts
      /\ rootRec.domain = AnyDomain /\ rootRec.expires = 0
      /\ rootRec.revoked = FALSE
      /\ r.parent = a /\ r.actions = acts
  BY DEF NewRoot, Child
<1> HIDE DEF rootRec, r
<1>5. /\ cap' \in Seq(CapabilityRecord)
      /\ Len(cap') = n
      /\ \A c \in 1..Len(cap) : cap'[c] = cap[c]
      /\ cap'[a] = rootRec /\ cap'[n] = r
  BY <1>1, <1>2, <1>3
<1>6. reported' \subseteq 1..n
  <2>1. reported' \subseteq Issued \cup {a, a + 1}
    BY <1>1 DEF Answered, TypeOK
  <2>2. Issued \cup {a, a + 1} \subseteq 1..n
    BY <1>1 DEF Issued
  <2> QED
    BY <2>1, <2>2
<1>7. TypeOK'
  BY <1>1, <1>5, <1>6 DEF TypeOK, Issued
<1>8. ASSUME NEW c \in 1..n PROVE Link(c)'
  <2>1. CASE c \in Issued
    <3>1. Link(c)
      BY <2>1 DEF AuthorityInv, Links
    <3>2. cap'[c] = cap[c]
      BY <1>5, <2>1 DEF Issued
    <3>3. cap[c].parent \in 1..(c - 1) => cap'[cap[c].parent] = cap[cap[c].parent]
      BY <1>1, <1>5, <2>1 DEF Issued
    <3> QED
      BY <3>1, <3>2, <3>3 DEF Link, Covers
  <2>2. CASE c = a
    BY <1>4, <1>5, <2>2 DEF Link
  <2>3. CASE c = n
    <3>1. a \in 1..(n - 1)
      BY <1>1
    <3> QED
      BY <1>4, <1>5, <2>3, <3>1 DEF Link, Covers
  <2> QED
    BY <1>1, <2>1, <2>2, <2>3 DEF Issued
<1>9. Links'
  BY <1>5, <1>8 DEF Links, Issued
<1> QED
  BY <1>7, <1>9 DEF AuthorityInv

\* So does the root that a derivation which raises leaves behind.
LEMMA LoneRootKeeps ==
    ASSUME CapsAssumption, AuthorityInv, NEW src \in Tenants, NEW acts \in Requestable,
           DeriveRaises(src, acts)
    PROVE  AuthorityInv'
<1> DEFINE r == NewRoot(src, acts)
<1>1. acts \in SUBSET Actions
  BY DEF CapsAssumption
<1>2. r \in CapabilityRecord /\ r.parent = 0
  BY <1>1 DEF NewRoot, CapabilityRecord, Scopes
<1>3. reported' \subseteq 1..(Len(cap) + 1)
  <2>1. reported \subseteq 1..Len(cap) /\ Len(cap) \in Nat
    BY DEF AuthorityInv, TypeOK, Issued
  <2> QED
    BY <2>1 DEF DeriveRaises
<1> HIDE DEF r
<1> QED
  BY <1>2, <1>3, AppendKeeps DEF DeriveRaises, r

\* revoke_capability keeps the invariant: what it revokes is closed under
\* derivation, so no active child is left under a revoked parent.
LEMMA RevokeKeeps ==
    ASSUME AuthorityInv, NEW c \in Issued, Revoke(c)
    PROVE  AuthorityInv'
<1> DEFINE gone == Descendants(c)
<1>1. cap \in Seq(CapabilityRecord) /\ Len(cap) \in Nat
  BY DEF AuthorityInv, TypeOK
<1>2. cap' = [d \in 1..Len(cap) |->
                 IF d \in gone THEN [cap[d] EXCEPT !.revoked = TRUE] ELSE cap[d]]
  BY RecursionVisits DEF Revoke, Issued
<1> HIDE DEF gone
<1>3. ASSUME NEW d \in 1..Len(cap)
      PROVE  /\ cap'[d] \in CapabilityRecord
             /\ cap'[d].tenant = cap[d].tenant /\ cap'[d].domain = cap[d].domain
             /\ cap'[d].actions = cap[d].actions /\ cap'[d].parent = cap[d].parent
             /\ cap'[d].expires = cap[d].expires
             /\ d \in gone => cap'[d].revoked
             /\ d \notin gone => cap'[d] = cap[d]
  <2>1. cap[d] \in CapabilityRecord
    BY <1>1
  <2>2. cap'[d] = IF d \in gone THEN [cap[d] EXCEPT !.revoked = TRUE] ELSE cap[d]
    BY <1>2
  <2> QED
    BY <2>1, <2>2 DEF CapabilityRecord
<1>4. Len(cap') = Len(cap) /\ cap' \in Seq(CapabilityRecord)
  BY <1>1, <1>2, <1>3
<1>5. TypeOK'
  BY <1>4 DEF AuthorityInv, TypeOK, Issued, Revoke
<1>6. ASSUME NEW d \in Issued PROVE Link(d)'
  <2>1. Link(d) /\ d \in 1..Len(cap)
    BY DEF AuthorityInv, Links, Issued
  <2> DEFINE p == cap[d].parent
  <2>2. CASE p = 0
    BY <1>3, <2>1, <2>2 DEF Link
  <2>3. CASE p # 0
    <3>1. p \in 1..Len(cap)
      BY <1>1, <2>1, <2>3 DEF Link
    <3>2. cap'[p].revoked => cap'[d].revoked
      <4>1. CASE p \in gone
        <5>1. d \in gone
          BY <4>1, ChildDescends DEF gone
        <5> QED
          BY <1>3, <2>1, <5>1
      <4>2. CASE p \notin gone
        BY <1>3, <2>1, <2>3, <3>1, <4>2 DEF Link
      <4> QED
        BY <4>1, <4>2
    <3> QED
      BY <1>3, <2>1, <2>3, <3>1, <3>2 DEF Link, Covers
  <2> QED
    BY <2>2, <2>3
<1>7. Links'
  BY <1>4, <1>6 DEF Links, Issued
<1> QED
  BY <1>5, <1>7 DEF AuthorityInv

\* The invariant holds throughout.
THEOREM AuthorityInvariance == Spec => []AuthorityInv
<1> SUFFICES ASSUME CapsAssumption PROVE Spec => []AuthorityInv
  BY CapsAssumption
<1>1. Init => AuthorityInv
  BY DEF CapsAssumption, Init, AuthorityInv, TypeOK, Links, Issued
<1>2. AuthorityInv /\ [Next]_vars => AuthorityInv'
  <2> SUFFICES ASSUME AuthorityInv, [Next]_vars PROVE AuthorityInv'
    OBVIOUS
  <2>1. CASE UNCHANGED vars
    BY <2>1 DEF vars, AuthorityInv, TypeOK, Links, Link, Issued, Covers
  <2>2. CASE Tick
    <3>1. TypeOK'
      BY <2>2 DEF Tick, AuthorityInv, TypeOK, Issued, CapsAssumption
    <3>2. Links'
      BY <2>2 DEF Tick, AuthorityInv, Links, Link, Issued, Covers
    <3> QED
      BY <3>1, <3>2 DEF AuthorityInv
  <2>3. ASSUME NEW src \in Tenants, NEW tgt \in Tenants, NEW dom \in Scopes,
               NEW acts \in Requestable, NEW ttl \in Lifetimes,
               Delegate(src, tgt, dom, acts, ttl)
        PROVE  AuthorityInv'
    BY <2>3, DelegateKeeps
  <2>4. ASSUME NEW src \in Tenants, NEW tgt \in Tenants, NEW dom \in Scopes,
               NEW acts \in Requestable, NEW ttl \in Lifetimes,
               DelegateFromNewRoot(src, tgt, dom, acts, ttl)
        PROVE  AuthorityInv'
    BY <2>4, NewRootKeeps
  <2>5. ASSUME NEW c \in Issued, Revoke(c) PROVE AuthorityInv'
    BY <2>5, RevokeKeeps
  <2>6. ASSUME NEW src \in Tenants, NEW acts \in Requestable, DeriveRaises(src, acts)
        PROVE  AuthorityInv'
    BY <2>6, LoneRootKeeps
  <2> QED
    BY <2>1, <2>2, <2>3, <2>4, <2>5, <2>6 DEF Next
<1> QED
  BY <1>1, <1>2, PTL DEF Spec

\* Every token record is well-typed and the answers name only issued tokens.
THEOREM TypeCorrect == Spec => []TypeOK
<1>1. AuthorityInv => TypeOK
  BY DEF AuthorityInv
<1> QED
  BY <1>1, AuthorityInvariance, PTL

\* No chain of delegations, however long, widens actions, domain or lifetime.
THEOREM AuthorityNeverGrows == Spec => []AuthorityShrinks
<1>1. AuthorityInv => AuthorityShrinks
  BY LinksCompose DEF AuthorityShrinks
<1> QED
  BY <1>1, AuthorityInvariance, PTL

\* No token is active under a revoked or expired ancestor.
THEOREM NoActiveOrphans == Spec => []ActiveOnlyUnderActive
<1> SUFFICES ASSUME CapsAssumption PROVE Spec => []ActiveOnlyUnderActive
  BY CapsAssumption
<1>1. AuthorityInv => ActiveOnlyUnderActive
  <2> SUFFICES ASSUME AuthorityInv, NEW c \in Issued, NEW d \in Descendants(c), IsActive(d)
               PROVE  IsActive(c)
    BY DEF ActiveOnlyUnderActive
  <2>1. d \in Issued
    BY DEF Descendants
  <2>2. now \in Nat /\ cap[c].expires \in Nat /\ cap[d].expires \in Nat
    BY <2>1, TypedTokens DEF AuthorityInv
  <2>3. /\ cap[c].expires # 0 => cap[d].expires # 0 /\ cap[d].expires <= cap[c].expires
        /\ cap[c].revoked => cap[d].revoked
    BY LinksCompose
  <2>4. ~cap[c].revoked
    BY <2>3 DEF IsActive
  <2>5. ~IsExpired(c)
    BY <2>2, <2>3 DEF IsActive, IsExpired
  <2> QED
    BY <2>4, <2>5 DEF IsActive
<1> QED
  BY <1>1, AuthorityInvariance, PTL

-----------------------------------------------------------------------------

\* No step loses a derivation: registry entries are appended and their
\* granted_by is never assigned again.
LEMMA DescendantsStay ==
    ASSUME TypeOK, CapsAssumption,
           Len(cap) <= Len(cap'), Len(cap') \in Nat,
           \A x \in Issued : cap'[x].parent = cap[x].parent,
           NEW c \in Issued
    PROVE  Descendants(c) \subseteq Descendants(c)'
<1>1. Issued \subseteq Issued'
  BY TypedTokens DEF Issued
<1> SUFFICES ASSUME NEW d \in Descendants(c), NEW S \in SUBSET Issued', c \in S,
                    \A x \in Issued' : cap'[x].parent \in S => x \in S
             PROVE  d \in S
  BY <1>1 DEF Descendants
<1> DEFINE old == S \cap Issued
<1>2. \A x \in Issued : cap[x].parent \in old => x \in old
  BY <1>1
<1>3. c \in old /\ old \in SUBSET Issued
  OBVIOUS
<1> HIDE DEF old
<1>4. Descendants(c) \subseteq old
  BY <1>2, <1>3, DescendantsLeast
<1> QED
  BY <1>4 DEF old

\* What every step does to the registry, whichever handler takes it.
LEMMA StepsExtend ==
    ASSUME CapsAssumption, AuthorityInv, [Next]_vars
    PROVE  /\ Len(cap) <= Len(cap') /\ Len(cap') \in Nat
           /\ \A x \in Issued : /\ cap'[x].parent = cap[x].parent
                                /\ cap'[x].domain = cap[x].domain
           /\ reported \subseteq reported'
<1>1. cap \in Seq(CapabilityRecord) /\ TypeOK /\ Len(cap) \in Nat
  BY DEF AuthorityInv, TypeOK
<1>2. CASE UNCHANGED cap /\ UNCHANGED reported
  BY <1>1, <1>2
<1>3. ASSUME NEW src \in Tenants, NEW tgt \in Tenants, NEW dom \in Scopes,
             NEW acts \in Requestable, NEW ttl \in Lifetimes,
             \/ Delegate(src, tgt, dom, acts, ttl)
             \/ DelegateFromNewRoot(src, tgt, dom, acts, ttl)
      PROVE  /\ Len(cap) <= Len(cap') /\ Len(cap') \in Nat
             /\ \A x \in Issued : cap'[x] = cap[x]
             /\ reported \subseteq reported'
  <2>1. reported \subseteq reported'
    BY <1>3 DEF Delegate, DelegateFromNewRoot, Answered
  <2>2. CASE Delegate(src, tgt, dom, acts, ttl)
    <3>1. PICK r : cap' = Append(cap, r)
      BY <2>2 DEF Delegate
    <3>2. Len(cap') = Len(cap) + 1 /\ \A x \in 1..Len(cap) : cap'[x] = cap[x]
      BY <1>1, <3>1
    <3> QED
      BY <1>1, <2>1, <3>2 DEF Issued
  <2>3. CASE DelegateFromNewRoot(src, tgt, dom, acts, ttl)
    <3>1. PICK r, s : cap' = Append(Append(cap, r), s)
      BY <2>3 DEF DelegateFromNewRoot
    <3>2. Len(cap') = Len(cap) + 2 /\ \A x \in 1..Len(cap) : cap'[x] = cap[x]
      BY <1>1, <3>1
    <3> QED
      BY <1>1, <2>1, <3>2 DEF Issued
  <2> QED
    BY <1>3, <2>2, <2>3
<1>4. ASSUME NEW c \in Issued, Revoke(c)
      PROVE  /\ Len(cap') = Len(cap)
             /\ \A x \in Issued : /\ cap'[x].parent = cap[x].parent
                                  /\ cap'[x].domain = cap[x].domain
             /\ reported' = reported
  <2>1. cap' = [d \in Issued |->
                  IF d \in RevokedBy(c) THEN [cap[d] EXCEPT !.revoked = TRUE] ELSE cap[d]]
    BY <1>4 DEF Revoke
  <2>2. Len(cap') = Len(cap)
    BY <1>1, <2>1 DEF Issued
  <2>3. ASSUME NEW x \in Issued
        PROVE  cap'[x].parent = cap[x].parent /\ cap'[x].domain = cap[x].domain
    <3>1. cap[x] \in CapabilityRecord
      BY <1>1, TypedTokens
    <3>2. cap'[x] = cap[x] \/ cap'[x] = [cap[x] EXCEPT !.revoked = TRUE]
      BY <2>1
    <3> QED
      BY <3>1, <3>2 DEF CapabilityRecord
  <2> QED
    BY <1>4, <2>2, <2>3 DEF Revoke
<1>5. ASSUME NEW src \in Tenants, NEW acts \in Requestable, DeriveRaises(src, acts)
      PROVE  /\ Len(cap) <= Len(cap') /\ Len(cap') \in Nat
             /\ \A x \in Issued : cap'[x] = cap[x]
             /\ reported \subseteq reported'
  <2>1. PICK r : cap' = Append(cap, r)
    BY <1>5 DEF DeriveRaises
  <2>2. Len(cap') = Len(cap) + 1 /\ \A x \in 1..Len(cap) : cap'[x] = cap[x]
    BY <1>1, <2>1
  <2> QED
    BY <1>1, <1>5, <2>2 DEF DeriveRaises, Issued
<1> QED
  BY <1>1, <1>2, <1>3, <1>4, <1>5 DEF Next, vars, Tick

\* The ways in which a token is left unreported.
Packless(c) == \E d \in Descendants(c) : cap[d].domain \in Domains \ Packs
Childless(c) == cap[c].parent = 0 /\ \A d \in Issued : cap[d].parent # c

\* A step that derives nothing from a token leaves it childless.
LEMMA StaysUnreported ==
    ASSUME CapsAssumption, AuthorityInv, [Next]_vars, NEW c \in Issued, c \notin reported',
           Packless(c) \/ Childless(c)
    PROVE  Packless(c)' \/ Childless(c)'
<1>0. TypeOK /\ cap \in Seq(CapabilityRecord) /\ Len(cap) \in Nat
  BY DEF AuthorityInv, TypeOK
<1>1. CASE Packless(c)
  <2>1. PICK d \in Descendants(c) : cap[d].domain \in Domains \ Packs
    BY <1>1 DEF Packless
  <2>2. Descendants(c) \subseteq Descendants(c)'
    BY <1>0, StepsExtend, DescendantsStay
  <2>3. d \in Issued
    BY <2>1 DEF Descendants
  <2> QED
    BY <2>1, <2>2, <2>3, StepsExtend DEF Packless
<1>2. CASE Childless(c) /\ \A x \in Issued' \ Issued : cap'[x].parent # c
  <2>1. \A x \in Issued : cap'[x].parent = cap[x].parent
    BY StepsExtend
  <2> QED
    BY <1>2, <2>1 DEF Childless
<1>3. CASE \E x \in Issued' \ Issued : cap'[x].parent = c
  <2>1. PICK x \in Issued' \ Issued : cap'[x].parent = c
    BY <1>3
  <2>2. c \in 1..Len(cap)
    BY DEF Issued
  <2>3. PICK src \in Tenants, tgt \in Tenants, dom \in Scopes,
             acts \in Requestable, ttl \in Lifetimes : Delegate(src, tgt, dom, acts, ttl)
    <3>1. cap' # cap
      BY <2>1 DEF Issued
    <3>2. ASSUME NEW y \in Issued, Revoke(y) PROVE Issued' = Issued
      BY <1>0, <3>2 DEF Revoke, Issued
    <3>3. ASSUME NEW src \in Tenants, NEW acts \in Requestable, DeriveRaises(src, acts)
          PROVE  FALSE
      <4> DEFINE r == NewRoot(src, acts)
      <4>1. cap' = Append(cap, r) /\ r.parent = 0
        BY <3>3 DEF DeriveRaises, NewRoot
      <4> HIDE DEF r
      <4>2. x = Len(cap) + 1 /\ cap'[x] = r
        BY <1>0, <2>1, <4>1 DEF Issued
      <4> QED
        BY <2>1, <2>2, <4>1, <4>2
    <3>4. ASSUME NEW src \in Tenants, NEW tgt \in Tenants, NEW dom \in Scopes,
                 NEW acts \in Requestable, NEW ttl \in Lifetimes,
                 DelegateFromNewRoot(src, tgt, dom, acts, ttl)
          PROVE  FALSE
      <4> DEFINE a == Len(cap) + 1
                 r == NewRoot(src, acts)
                 k == Child(a, 0, tgt, dom, acts, ttl)
      <4>1. cap' = Append(Append(cap, r), k) /\ r.parent = 0 /\ k.parent = a
        BY <3>4 DEF DelegateFromNewRoot, NewRoot, Child
      <4> HIDE DEF r, k
      <4>2. x \in {a, a + 1} /\ cap'[a] = r /\ cap'[a + 1] = k
        BY <1>0, <2>1, <4>1 DEF Issued
      <4>3. c # 0 /\ c # a
        BY <1>0, <2>2
      <4>4. cap'[x].parent \in {0, a}
        BY <4>1, <4>2
      <4> HIDE DEF a
      <4> QED
        BY <2>1, <4>3, <4>4
    <3> QED
      BY <2>1, <3>1, <3>2, <3>3, <3>4 DEF Next, vars, Tick
  <2>4. PICK p \in Holding(src, acts) :
          /\ cap' = Append(cap, Child(p, cap[p].expires, tgt, dom, acts, ttl))
          /\ Answered(dom, {p, Len(cap) + 1})
    BY <2>3 DEF Delegate
  <2> DEFINE k == Child(p, cap[p].expires, tgt, dom, acts, ttl)
  <2>5. k.parent = p /\ k.domain = dom
    BY DEF Child
  <2> HIDE DEF k
  <2>6. x = Len(cap) + 1 /\ cap'[x] = k
    BY <1>0, <2>1, <2>4 DEF Issued, k
  <2>7. p = c
    BY <2>1, <2>5, <2>6
  <2>8. dom \in Domains \ Packs
    BY <2>4, <2>7 DEF Answered, Scopes
  <2>9. c \in Issued' /\ x \in Issued'
    BY <1>0, <2>1, StepsExtend DEF Issued
  <2>10. x \in Descendants(c)'
    BY <2>1, <2>9 DEF Descendants
  <2> QED
    BY <2>5, <2>6, <2>8, <2>10 DEF Packless
<1> QED
  BY <1>1, <1>2, <1>3

\* A token no answer named was left behind by a delegation that failed after it
\* had registered it: its audit found no pack, or the derivation raised.
THEOREM UnreportedAfterError == Spec => []UnreportedOnlyAfterError
<1> SUFFICES ASSUME CapsAssumption PROVE Spec => []UnreportedOnlyAfterError
  BY CapsAssumption
<1> DEFINE P == UnreportedOnlyAfterError
<1>1. Init => P
  BY DEF Init, UnreportedOnlyAfterError, Issued
<1>2. AuthorityInv /\ AuthorityInv' /\ P /\ [Next]_vars => P'
  <2> SUFFICES ASSUME AuthorityInv, AuthorityInv', P, [Next]_vars,
                      NEW c \in Issued', c \notin reported'
               PROVE  Packless(c)' \/ Childless(c)'
    BY DEF UnreportedOnlyAfterError, Packless, Childless
  <2>1. cap \in Seq(CapabilityRecord) /\ Len(cap) \in Nat /\ TypeOK
    BY DEF AuthorityInv, TypeOK
  <2>2. CASE c \in Issued
    <3>1. c \notin reported
      BY StepsExtend
    <3>2. Packless(c) \/ Childless(c)
      BY <2>2, <3>1 DEF UnreportedOnlyAfterError, Packless, Childless
    <3> QED
      BY <2>2, <3>2, StaysUnreported
  <2>3. CASE c \notin Issued
    <3>1. \/ \E src \in Tenants, acts \in Requestable : DeriveRaises(src, acts)
          \/ \E src, tgt \in Tenants, dom \in Scopes, acts \in Requestable, ttl \in Lifetimes :
                Delegate(src, tgt, dom, acts, ttl) \/ DelegateFromNewRoot(src, tgt, dom, acts, ttl)
      <4>1. cap' # cap
        BY <2>3 DEF Issued
      <4>2. ASSUME NEW x \in Issued, Revoke(x) PROVE Issued' = Issued
        BY <2>1, <4>2 DEF Revoke, Issued
      <4> QED
        BY <2>3, <4>1, <4>2 DEF Next, vars, Tick
    <3>2. ASSUME NEW src \in Tenants, NEW acts \in Requestable, DeriveRaises(src, acts)
          PROVE  Childless(c)'
      <4> DEFINE r == NewRoot(src, acts)
      <4>1. cap' = Append(cap, r) /\ r.parent = 0
        BY <3>2 DEF DeriveRaises, NewRoot
      <4> HIDE DEF r
      <4>2. c = Len(cap) + 1 /\ cap'[c] = r /\ \A x \in Issued : cap'[x] = cap[x]
        BY <2>1, <2>3, <4>1 DEF Issued
      <4>3. \A x \in Issued : cap[x].parent # c
        <5>1. ASSUME NEW x \in Issued PROVE cap[x].parent = 0 \/ cap[x].parent \in 1..(x - 1)
          BY DEF AuthorityInv, Links, Link
        <5> QED
          BY <2>1, <4>2, <5>1 DEF Issued
      <4>4. Issued' = Issued \cup {c}
        BY <2>1, <4>1, <4>2 DEF Issued
      <4>5. c # 0
        BY <2>1, <4>2
      <4> QED
        BY <4>1, <4>2, <4>3, <4>4, <4>5 DEF Childless
    <3>3. ASSUME NEW src \in Tenants, NEW tgt \in Tenants, NEW dom \in Scopes,
                 NEW acts \in Requestable, NEW ttl \in Lifetimes,
                 Delegate(src, tgt, dom, acts, ttl)
          PROVE  Packless(c)'
      <4>1. PICK p \in Holding(src, acts) :
              /\ cap' = Append(cap, Child(p, cap[p].expires, tgt, dom, acts, ttl))
              /\ Answered(dom, {p, Len(cap) + 1})
        BY <3>3 DEF Delegate
      <4>2. c = Len(cap) + 1 /\ cap'[c].domain = dom
        BY <2>1, <2>3, <4>1 DEF Issued, Child
      <4>3. dom \in Domains \ Packs
        BY <4>1, <4>2 DEF Answered, Scopes
      <4>4. c \in Descendants(c)'
        BY SelfDescends DEF Descendants
      <4> QED
        BY <4>2, <4>3, <4>4 DEF Packless
    <3>4. ASSUME NEW src \in Tenants, NEW tgt \in Tenants, NEW dom \in Scopes,
                 NEW acts \in Requestable, NEW ttl \in Lifetimes,
                 DelegateFromNewRoot(src, tgt, dom, acts, ttl)
          PROVE  Packless(c)'
      <4> DEFINE a == Len(cap) + 1
                 r == NewRoot(src, acts)
                 k == Child(a, 0, tgt, dom, acts, ttl)
      <4>1. cap' = Append(Append(cap, r), k) /\ Answered(dom, {a, a + 1})
        BY <3>4 DEF DelegateFromNewRoot
      <4>2. k.domain = dom /\ k.parent = a
        BY DEF Child
      <4> HIDE DEF r, k
      <4>3. /\ Issued' = 1..(Len(cap) + 2)
            /\ c \in {a, a + 1} /\ a + 1 \in Issued' /\ cap'[a + 1] = k
        BY <2>1, <2>3, <4>1 DEF Issued
      <4>4. dom \in Domains \ Packs
        BY <4>1, <4>3 DEF Answered, Scopes
      <4>5. a + 1 \in Descendants(c)'
        BY <4>2, <4>3 DEF Descendants
      <4> QED
        BY <4>2, <4>3, <4>4, <4>5 DEF Packless
    <3> QED
      BY <3>1, <3>2, <3>3, <3>4
  <2> QED
    BY <2>2, <2>3
<1> QED
  BY <1>1, <1>2, AuthorityInvariance, PTL DEF Spec

\* A revocation takes the token and exactly what was derived from it, and
\* nothing else ever revokes or restores a token.
THEOREM RevocationExact == Spec => RevocationIsExact
<1> SUFFICES ASSUME CapsAssumption PROVE Spec => RevocationIsExact
  BY CapsAssumption
<1> DEFINE A == /\ Revoked \subseteq Revoked'
                /\ Revoked # Revoked' =>
                      \E c \in Issued : Revoked' = Revoked \cup Descendants(c)
<1>1. AuthorityInv /\ [Next]_vars => A
  <2> SUFFICES ASSUME AuthorityInv, [Next]_vars PROVE A
    OBVIOUS
  <2>1. cap \in Seq(CapabilityRecord) /\ Len(cap) \in Nat /\ TypeOK
    BY DEF AuthorityInv, TypeOK
  <2>2. CASE UNCHANGED cap
    BY <2>2 DEF Revoked, Issued
  <2>3. ASSUME NEW src \in Tenants, NEW tgt \in Tenants, NEW dom \in Scopes,
               NEW acts \in Requestable, NEW ttl \in Lifetimes,
               Delegate(src, tgt, dom, acts, ttl)
        PROVE  Revoked' = Revoked
    <3>1. PICK r : cap' = Append(cap, r) /\ r.revoked = FALSE
      BY <2>3 DEF Delegate, Child
    <3>2. /\ Len(cap') = Len(cap) + 1 /\ cap'[Len(cap) + 1] = r
          /\ \A x \in 1..Len(cap) : cap'[x] = cap[x]
      BY <2>1, <3>1
    <3> QED
      BY <2>1, <3>1, <3>2 DEF Revoked, Issued
  <2>4. ASSUME NEW src \in Tenants, NEW tgt \in Tenants, NEW dom \in Scopes,
               NEW acts \in Requestable, NEW ttl \in Lifetimes,
               DelegateFromNewRoot(src, tgt, dom, acts, ttl)
        PROVE  Revoked' = Revoked
    <3>1. PICK r, s : /\ cap' = Append(Append(cap, r), s)
                      /\ r.revoked = FALSE /\ s.revoked = FALSE
      BY <2>4 DEF DelegateFromNewRoot, Child, NewRoot
    <3>2. /\ Len(cap') = Len(cap) + 2
          /\ cap'[Len(cap) + 1] = r /\ cap'[Len(cap) + 2] = s
          /\ \A x \in 1..Len(cap) : cap'[x] = cap[x]
      BY <2>1, <3>1
    <3> QED
      BY <2>1, <3>1, <3>2 DEF Revoked, Issued
  <2>5. ASSUME NEW c \in Issued, Revoke(c)
        PROVE  Revoked' = Revoked \cup Descendants(c)
    <3>1. cap' = [d \in 1..Len(cap) |->
                    IF d \in Descendants(c)
                    THEN [cap[d] EXCEPT !.revoked = TRUE] ELSE cap[d]]
      BY <2>5, RecursionVisits DEF Revoke, Issued
    <3>2. Len(cap') = Len(cap)
      BY <2>1, <3>1
    <3>3. ASSUME NEW d \in 1..Len(cap)
          PROVE  /\ d \in Descendants(c) => cap'[d].revoked = TRUE
                 /\ d \notin Descendants(c) => cap'[d] = cap[d]
      <4>1. cap[d] \in CapabilityRecord
        BY <2>1
      <4> QED
        BY <3>1, <4>1 DEF CapabilityRecord
    <3>4. Descendants(c) \subseteq 1..Len(cap)
      BY DEF Descendants, Issued
    <3> QED
      BY <3>2, <3>3, <3>4 DEF Revoked, Issued
  <2>6. ASSUME NEW src \in Tenants, NEW acts \in Requestable, DeriveRaises(src, acts)
        PROVE  Revoked' = Revoked
    <3>1. PICK r : cap' = Append(cap, r) /\ r.revoked = FALSE
      BY <2>6 DEF DeriveRaises, NewRoot
    <3>2. /\ Len(cap') = Len(cap) + 1 /\ cap'[Len(cap) + 1] = r
          /\ \A x \in 1..Len(cap) : cap'[x] = cap[x]
      BY <2>1, <3>1
    <3> QED
      BY <2>1, <3>1, <3>2 DEF Revoked, Issued
  <2> QED
    BY <2>2, <2>3, <2>4, <2>5, <2>6 DEF Next, vars, Tick
<1> QED
  BY <1>1, AuthorityInvariance, PTL DEF Spec, RevocationIsExact
-----------------------------------------------------------------------------
\* A step of the composition is a step of the one handler that runs.
LEMMA OneHandler ==
    ASSUME [HandlersNext]_allVars
    PROVE  /\ handler' = handler
           /\ [Next]_vars
           /\ handler = "resolve" => [Resolution!Next]_(Resolution!vars)
           /\ handler = "outcomes" => [Feedback!Next]_(Feedback!vars)
           /\ handler = "match" => [Match!Next]_(Match!vars)
           /\ handler = "scan" => [Nightly!Next]_(Nightly!vars)
  BY DEF HandlersNext, allVars, resolutionVars, feedbackVars, matchVars, scanVars,
       Resolution!vars, Resolution!graph, Feedback!vars, Feedback!request, Feedback!graph,
       Match!vars, Nightly!vars

\* The composition changes the token registry by the registry's own actions only
\* (its other handlers are composed to leave it alone), so that what is proved of it
\* above carries over.
LEMMA RegistryIsIndependent == HandlersSpec => Spec
<1>1. HandlersInit => Init
  BY DEF HandlersInit
<1>2. [HandlersNext]_allVars => [Next]_vars
  BY OneHandler
<1> QED
  BY <1>1, <1>2, PTL DEF HandlersSpec, Spec
-----------------------------------------------------------------------------
\* Outcome feedback: a recalculation is neither missed nor does it forget.
USE FeedbackAssumption

\* The instance counts as this module does.
LEMMA SameCardinality == \A S : Feedback!Cardinality(S) = Cardinality(S)
  BY DEF Feedback!Cardinality, Cardinality

\* Where a call is determines how far it has stored.
Positions ==
    \A c \in Calls :
        /\ pc[c] \in {"new", "propagate", "check", "totals"} => next[c] = 1
        /\ pc[c] = "store" => next[c] \in Feedback!Dims

\* A recalculation that is storing has read every outcome that was not
\* recorded during one.
ReadAll == \A r \in Calls : pc[r] = "store" => outcomes \ late \subseteq sample[r]

\* And so has whatever stored the dimensions it has passed, itself or another.
PassedAll ==
    \A r \in Calls, d \in Feedback!Dims :
        pc[r] = "store" /\ d < next[r] =>
            by[d] # None /\ outcomes \ late \subseteq sample[by[d]]

FeedbackInv ==
    /\ Feedback!TypeOK
    /\ Positions
    /\ ReadAll
    /\ PassedAll
    /\ Feedback!TriggerNotMissed
    /\ Feedback!ForgottenOnlyWhenLate

\* The counts are numbers: only finitely many calls are ever recorded.
LEMMA FiniteCounts ==
    ASSUME NEW S \in SUBSET Calls
    PROVE  IsFiniteSet(S) /\ Cardinality(S) \in Nat
  BY FS_Subset, FS_CardinalityType DEF FeedbackAssumption

\* Initially nothing is recorded.
LEMMA FeedbackInit == Feedback!Init => FeedbackInv
<1> SUFFICES ASSUME Feedback!Init PROVE FeedbackInv
  OBVIOUS
<1>1. Feedback!TypeOK
  BY DEF Feedback!Init, Feedback!TypeOK, FeedbackAssumption, Feedback!Kinds, Feedback!Dims
<1>2. Positions /\ ReadAll /\ PassedAll /\ Feedback!ForgottenOnlyWhenLate
  BY DEF Feedback!Init, Positions, ReadAll, PassedAll, Feedback!ForgottenOnlyWhenLate
<1>3. Feedback!TriggerNotMissed
  BY SameCardinality, FS_EmptySet
  DEF Feedback!Init, Feedback!TriggerNotMissed, FeedbackAssumption
<1> QED
  BY <1>1, <1>2, <1>3 DEF FeedbackInv

\* Recording an outcome keeps the invariant: it is fresh, and late if it falls
\* into a recalculation.
LEMMA RecordKeeps ==
    ASSUME FeedbackInv, NEW c \in Calls, pc[c] = "new", Feedback!Record(c),
           NEW step \in {"propagate", "check", "refused"}, pc' = [pc EXCEPT ![c] = step],
           kind' \in [Calls -> Feedback!Kinds], UNCHANGED <<candidate, sample, next>>
    PROVE  FeedbackInv'
<1> USE DEF Feedback!Record
<1>1. Feedback!TypeOK'
  BY DEF FeedbackInv, Feedback!TypeOK
<1>2. \A r \in Calls : r # c => pc'[r] = pc[r]
  BY DEF FeedbackInv, Feedback!TypeOK
<1>3. pc'[c] \in {"propagate", "check", "refused"} /\ pc[c] = "new"
  BY DEF FeedbackInv, Feedback!TypeOK
<1>4. Positions'
  BY <1>2, <1>3 DEF FeedbackInv, Positions
<1>5. ASSUME NEW r \in Calls, pc'[r] = "store"
      PROVE  pc[r] = "store" /\ outcomes' \ late' \subseteq outcomes \ late
  BY <1>2, <1>3, <1>5 DEF Feedback!Recalculating
<1>6. ReadAll'
  BY <1>5 DEF FeedbackInv, ReadAll
<1>7. PassedAll'
  BY <1>5 DEF FeedbackInv, PassedAll
<1>8. Feedback!TriggerNotMissed'
  BY <1>3 DEF Feedback!TriggerNotMissed, Feedback!Pending
<1>9. Feedback!ForgottenOnlyWhenLate'
  <2>1. outcomes' \ (fresh' \cup late') \subseteq outcomes \ (fresh \cup late)
    OBVIOUS
  <2>2. \A r \in Calls, d \in Feedback!Dims :
           Feedback!HalfStored(r, d) => Feedback!HalfStored(r, d)'
    BY <1>2, <1>3 DEF Feedback!HalfStored
  <2> QED
    BY <2>1, <2>2 DEF FeedbackInv, Feedback!ForgottenOnlyWhenLate
<1> QED
  BY <1>1, <1>4, <1>6, <1>7, <1>8, <1>9 DEF FeedbackInv

\* So does a write that is answered, and one that is not but took effect.
LEMMA CreateKeeps ==
    ASSUME FeedbackInv, NEW c \in Calls, NEW k \in Feedback!Kinds,
           Feedback!CreateOutcome(c, k)
    PROVE  FeedbackInv'
<1>1. kind' \in [Calls -> Feedback!Kinds]
  BY DEF FeedbackInv, Feedback!TypeOK, Feedback!CreateOutcome
<1> QED
  BY <1>1, RecordKeeps DEF Feedback!CreateOutcome, Feedback!Goto

\* Storing one weight, by a call that goes on or fails on it, keeps the
\* invariant: it empties fresh, and whatever is neither late nor in the
\* weight belongs to a later dimension.
LEMMA StoreKeeps ==
    ASSUME FeedbackInv, NEW c \in Calls, Feedback!Store(c),
           NEW step, pc' = [pc EXCEPT ![c] = step],
           step = "failed" \/ step = IF next[c] = NumDims THEN "drift" ELSE "store",
           UNCHANGED <<kind, candidate, sample, late>>
    PROVE  FeedbackInv'
<1> USE DEF Feedback!Store
<1> DEFINE n == next[c]
<1>1. /\ n \in Feedback!Dims /\ n \in Nat /\ NumDims \in Nat /\ pc[c] = "store"
      /\ next'[c] = n + 1
      /\ pc'[c] = "failed" \/ pc'[c] = IF n = NumDims THEN "drift" ELSE "store"
      /\ by'[n] = c /\ by' \in [Feedback!Dims -> Calls \cup {None}]
      /\ \A d \in Feedback!Dims : d # n => by'[d] = by[d]
      /\ \A r \in Calls : r # c => pc'[r] = pc[r] /\ next'[r] = next[r]
      /\ fresh' = {} /\ outcomes' = outcomes /\ late' = late /\ sample' = sample
  BY DEF FeedbackInv, Feedback!TypeOK, Positions, Feedback!Dims, FeedbackAssumption
<1>2. Feedback!TypeOK'
  BY <1>1 DEF FeedbackInv, Feedback!TypeOK, Feedback!Dims
<1>3. Positions'
  BY <1>1 DEF FeedbackInv, Positions, Feedback!Dims
<1>4. ReadAll'
  BY <1>1 DEF FeedbackInv, ReadAll
<1>5. c # None /\ outcomes \ late \subseteq sample[c]
  BY <1>1 DEF FeedbackInv, ReadAll, FeedbackAssumption
<1>6. ASSUME NEW r \in Calls, NEW d \in Feedback!Dims, pc'[r] = "store", d < next'[r]
      PROVE  by'[d] # None /\ outcomes \ late \subseteq sample[by'[d]]
  <2>1. CASE d = n
    BY <1>1, <1>5, <2>1
  <2>2. CASE d # n
    <3>1. pc[r] = "store" /\ d < next[r]
      BY <1>1, <1>6, <2>2 DEF Feedback!Dims
    <3> QED
      BY <1>1, <2>2, <3>1 DEF FeedbackInv, PassedAll
  <2> QED
    BY <2>1, <2>2
<1>7. PassedAll'
  BY <1>1, <1>6 DEF PassedAll
<1>8. Feedback!TriggerNotMissed'
  BY <1>1, SameCardinality, FS_EmptySet DEF Feedback!TriggerNotMissed, FeedbackAssumption
<1>9. ASSUME NEW o \in outcomes \ late, NEW d \in Feedback!Dims
      PROVE  \/ by'[d] # None /\ o \in sample'[by'[d]]
             \/ \E r \in Calls : Feedback!HalfStored(r, d)'
  <2>1. CASE d = n
    BY <1>1, <1>5, <2>1
  <2>2. CASE d < n
    BY <1>1, <2>2 DEF FeedbackInv, PassedAll, Feedback!Dims
  <2>3. CASE d > n
    <3>1. n # NumDims /\ n + 1 <= d /\ 1 < n + 1
      BY <1>1, <2>3 DEF Feedback!Dims
    <3> QED
      BY <1>1, <3>1 DEF Feedback!HalfStored
  <2> QED
    BY <1>1, <2>1, <2>2, <2>3 DEF Feedback!Dims
<1>10. Feedback!ForgottenOnlyWhenLate'
  BY <1>1, <1>9 DEF Feedback!ForgottenOnlyWhenLate
<1> QED
  BY <1>2, <1>3, <1>4, <1>7, <1>8, <1>10 DEF FeedbackInv

\* Reading the totals keeps the invariant: the sample only grows.
LEMMA TotalsKeeps ==
    ASSUME FeedbackInv, NEW c \in Calls, Feedback!ReadTotals(c)
    PROVE  FeedbackInv'
<1> USE DEF Feedback!ReadTotals, Feedback!Goto, Feedback!Totals, Feedback!graph,
            Feedback!request
<1>1. /\ pc[c] = "totals" /\ pc'[c] \in {"store", "drift"}
      /\ pc'[c] = "drift" => outcomes = {}
      /\ \A r \in Calls : r # c => pc'[r] = pc[r] /\ sample'[r] = sample[r]
      /\ sample'[c] = outcomes /\ sample[c] \subseteq outcomes
  BY DEF FeedbackInv, Feedback!TypeOK
<1>2. Feedback!TypeOK'
  BY DEF FeedbackInv, Feedback!TypeOK
<1>3. Positions'
  BY <1>1 DEF FeedbackInv, Positions, Feedback!Dims, FeedbackAssumption
<1>4. \A r \in Calls : sample[r] \subseteq sample'[r]
  BY <1>1
<1>5. ReadAll'
  BY <1>1 DEF FeedbackInv, ReadAll
<1>6. \A d \in Feedback!Dims : by[d] # None => sample[by[d]] \subseteq sample'[by[d]]
  BY <1>4 DEF FeedbackInv, Feedback!TypeOK
<1>7. PassedAll'
  <2>1. next[c] = 1
    BY <1>1 DEF FeedbackInv, Positions
  <2> QED
    BY <1>1, <1>6, <2>1 DEF FeedbackInv, PassedAll, Feedback!Dims
<1>8. Feedback!TriggerNotMissed'
  <2>1. fresh \subseteq outcomes /\ fresh \subseteq Calls
    BY DEF FeedbackInv, Feedback!TypeOK
  <2> QED
    BY <1>1, <2>1 DEF FeedbackInv, Feedback!TriggerNotMissed, Feedback!Pending
<1>9. Feedback!ForgottenOnlyWhenLate'
  BY <1>1, <1>6 DEF FeedbackInv, Feedback!ForgottenOnlyWhenLate, Feedback!HalfStored
<1> QED
  BY <1>2, <1>3, <1>5, <1>7, <1>8, <1>9 DEF FeedbackInv

\* The steps that write no outcome and no weight: only pc and boost change.
LEMMA OthersKeep ==
    ASSUME FeedbackInv, NEW c \in Calls,
           \/ Feedback!CreateFails(c) /\ UNCHANGED <<Feedback!graph, late>>
           \/ Feedback!StartJob(c) \/ Feedback!Propagate(c) \/ Feedback!Check(c)
           \/ Feedback!Answer(c)
           \/ Feedback!LoopFails(c) /\ (Feedback!Boost(c) \/ UNCHANGED <<Feedback!graph, next>>)
    PROVE  FeedbackInv'
<1> USE DEF Feedback!CreateFails, Feedback!StartJob, Feedback!Propagate, Feedback!Check,
            Feedback!Answer, Feedback!LoopFails, Feedback!Goto
<1>1. UNCHANGED <<outcomes, fresh, by, late, sample, next>>
  BY DEF Feedback!graph, Feedback!request, Feedback!Boost
<1>2. \A r \in Calls : r # c => pc'[r] = pc[r]
  BY DEF FeedbackInv, Feedback!TypeOK
<1>3. /\ pc[c] # "store" => pc'[c] # "store"
      /\ pc[c] = "store" => pc'[c] = "failed"
      /\ pc'[c] \in {"propagate", "check", "totals"} =>
            pc[c] \in {"new", "propagate", "check"}
      /\ pc'[c] # "new" /\ pc'[c] # "store"
  BY DEF FeedbackInv, Feedback!TypeOK, Feedback!Boost
<1>4. Feedback!TypeOK'
  <2>1. boost' \in [Feedback!Dims -> Int]
    <3>1. Cardinality({o \in outcomes : candidate[o] = candidate[c]}) \in Nat
      BY FiniteCounts DEF FeedbackInv, Feedback!TypeOK
    <3> QED
      BY <3>1, SameCardinality
      DEF FeedbackInv, Feedback!TypeOK, Feedback!graph, Feedback!Boost
  <2>2. pc' \in [Calls -> {"new", "refused", "propagate", "check", "totals", "store",
                           "drift", "answered", "failed"}]
    BY DEF FeedbackInv, Feedback!TypeOK
  <2> QED
    BY <1>1, <2>1, <2>2 DEF FeedbackInv, Feedback!TypeOK, Feedback!request
<1>5. Positions'
  BY <1>1, <1>2, <1>3 DEF FeedbackInv, Positions
<1>6. ReadAll' /\ PassedAll'
  BY <1>1, <1>2, <1>3 DEF FeedbackInv, ReadAll, PassedAll
<1>7. Feedback!TriggerNotMissed'
  <2> SUFFICES ASSUME Cardinality(fresh) >= MinOutcomes
               PROVE  \E w \in fresh : \/ (w \in Feedback!Pending)'
                                       \/ pc'[w] \in {"refused", "failed"}
    BY <1>1, SameCardinality DEF Feedback!TriggerNotMissed
  <2>1. PICK w \in fresh : w \in Feedback!Pending \/ pc[w] \in {"refused", "failed"}
    BY SameCardinality DEF FeedbackInv, Feedback!TriggerNotMissed
  <2>2. w \in Calls
    BY DEF FeedbackInv, Feedback!TypeOK
  <2>3. CASE w # c
    BY <1>2, <2>1, <2>2, <2>3 DEF Feedback!Pending
  <2>4. CASE w = c
    <3>1. pc[c] \in {"propagate", "check", "totals", "store", "refused", "failed"}
      BY <2>1, <2>4 DEF Feedback!Pending
    <3>2. Feedback!Due
      BY SameCardinality DEF Feedback!Due
    <3>3. pc'[c] \in {"check", "totals", "failed"}
      BY <3>1, <3>2 DEF FeedbackInv, Feedback!TypeOK
    <3> QED
      BY <2>4, <3>3 DEF Feedback!Pending
  <2> QED
    BY <2>3, <2>4
<1>8. Feedback!ForgottenOnlyWhenLate'
  <2>1. \A r \in Calls, d \in Feedback!Dims :
           Feedback!HalfStored(r, d) => Feedback!HalfStored(r, d)'
    BY <1>1, <1>2, <1>3 DEF Feedback!HalfStored, FeedbackInv, Feedback!TypeOK
  <2> QED
    BY <1>1, <2>1 DEF FeedbackInv, Feedback!ForgottenOnlyWhenLate
<1> QED
  BY <1>4, <1>5, <1>6, <1>7, <1>8 DEF FeedbackInv

\* Every step of a call keeps the invariant, and so does a step of another handler.
LEMMA FeedbackNext == FeedbackInv /\ [Feedback!Next]_(Feedback!vars) => FeedbackInv'
<1> SUFFICES ASSUME FeedbackInv, [Feedback!Next]_(Feedback!vars) PROVE FeedbackInv'
  OBVIOUS
<1>1. CASE UNCHANGED Feedback!vars
  BY <1>1 DEF Feedback!vars, Feedback!request, Feedback!graph, FeedbackInv,
     Feedback!TypeOK, Positions, ReadAll, PassedAll, Feedback!TriggerNotMissed,
     Feedback!Pending, Feedback!ForgottenOnlyWhenLate, Feedback!HalfStored
<1>2. CASE Feedback!Next
  <2> SUFFICES ASSUME NEW c \in Calls,
                      \/ \E k \in Feedback!Kinds : Feedback!CreateOutcome(c, k)
                      \/ Feedback!CreateFails(c) \/ Feedback!StartJob(c)
                      \/ Feedback!Propagate(c) \/ Feedback!Check(c)
                      \/ Feedback!ReadTotals(c) \/ Feedback!StoreWeight(c)
                      \/ Feedback!Answer(c) \/ Feedback!LoopFails(c)
               PROVE  FeedbackInv'
    BY <1>2 DEF Feedback!Next
  <2>1. CASE \E k \in Feedback!Kinds : Feedback!CreateOutcome(c, k)
    BY <2>1, CreateKeeps
  <2>2. CASE Feedback!CreateFails(c) /\ Feedback!Record(c)
    <3>1. kind' \in [Calls -> Feedback!Kinds]
      BY <2>2 DEF FeedbackInv, Feedback!TypeOK, Feedback!CreateFails, Feedback!request
    <3> QED
      BY <2>2, <3>1, RecordKeeps DEF Feedback!CreateFails, Feedback!Goto, Feedback!request
  <2>3. CASE Feedback!StoreWeight(c)
    BY <2>3, StoreKeeps DEF Feedback!StoreWeight, Feedback!Goto, Feedback!request
  <2>4. CASE Feedback!LoopFails(c) /\ Feedback!Store(c)
    BY <2>4, StoreKeeps DEF Feedback!LoopFails, Feedback!Goto, Feedback!request
  <2>5. CASE Feedback!ReadTotals(c)
    BY <2>5, TotalsKeeps
  <2>6. CASE \/ Feedback!CreateFails(c) /\ ~Feedback!Record(c)
             \/ Feedback!StartJob(c) \/ Feedback!Propagate(c) \/ Feedback!Check(c)
             \/ Feedback!Answer(c)
             \/ Feedback!LoopFails(c) /\ ~Feedback!Store(c)
    BY <2>6, OthersKeep DEF Feedback!CreateFails, Feedback!LoopFails
  <2> QED
    BY <2>1, <2>2, <2>3, <2>4, <2>5, <2>6
<1> QED
  BY <1>1, <1>2

\* A behaviour of the outcomes handler satisfies the invariant of the loop.
OutcomesInv == handler = "outcomes" => FeedbackInv

\* The invariant of the feedback loop holds for any calls and candidates.
THEOREM OutcomesInvariance == HandlersSpec => []OutcomesInv
<1>1. HandlersInit => OutcomesInv
  BY FeedbackInit
  DEF HandlersInit, AdminStarts, ResolutionStarts, FeedbackStarts, MatchStarts, ScanStarts,
      OutcomesInv
<1>2. OutcomesInv /\ [HandlersNext]_allVars => OutcomesInv'
  BY OneHandler, FeedbackNext DEF OutcomesInv
<1> QED
  BY <1>1, <1>2, PTL DEF HandlersSpec

\* No interleaving of outcomes calls and jobs leaves enough outcomes recorded with
\* no call that is going to recalculate the weights or has failed.
THEOREM TriggerHolds == HandlersSpec => []TriggerNotMissed
<1>1. OutcomesInv => TriggerNotMissed
  BY DEF OutcomesInv, FeedbackInv, TriggerNotMissed
<1> QED
  BY <1>1, OutcomesInvariance, PTL

\* recalculate_weights leaves an outcome that no longer counts out of a weight only
\* if it was recorded while a recalculation ran, or one is or was half stored.
THEOREM ForgottenWhenLate == HandlersSpec => []ForgottenOnlyWhenLate
<1>1. OutcomesInv => ForgottenOnlyWhenLate
  BY DEF OutcomesInv, FeedbackInv, ForgottenOnlyWhenLate
<1> QED
  BY <1>1, OutcomesInvariance, PTL

-----------------------------------------------------------------------------
\* Nightly scans: what a scan leaves out was taken by scans of other domains.

\* What a scan that is waiting for its loader is going to skip, others took
\* while it was waiting.
SkipsOnlyOthers ==
    \A s \in Scans : at[s] = "loading" => given[s] \cap scanned \subseteq others[s]

ScanTypes ==
    /\ at \in [Scans -> {"new", "loading", "failed", "done"}]
    /\ scanned \in SUBSET Ids
    /\ given \in [Scans -> SUBSET Ids]
    /\ broken \in [Scans -> SUBSET Ids]
    /\ assessed \in [Scans -> SUBSET Ids]
    /\ others \in [Scans -> SUBSET Ids]

ScanInv == ScanTypes /\ SkipsOnlyOthers /\ Nightly!MissesOnlySharedIds

\* No scan has begun.
LEMMA ScanInitHolds == Nightly!Init => ScanInv
  BY DEF Nightly!Init, ScanInv, ScanTypes, SkipsOnlyOthers, Nightly!MissesOnlySharedIds

\* A scan that starts clears the set, for itself and for those that wait.
LEMMA StartKeeps ==
    ASSUME ScanInv, NEW s \in Scans, Nightly!Start(s) \/ Nightly!LoaderFails(s)
    PROVE  ScanInv'
  BY DEF Nightly!Start, Nightly!LoaderFails, ScanInv, ScanTypes, SkipsOnlyOthers,
         Nightly!MissesOnlySharedIds

\* A scan that runs adds its ids to the set, which is noted for those that wait.
LEMMA ScanKeeps ==
    ASSUME ScanInv, NEW s \in Scans, Nightly!Scan(s)
    PROVE  ScanInv'
  BY DEF Nightly!Scan, ScanInv, ScanTypes, SkipsOnlyOthers, Nightly!MissesOnlySharedIds

\* A behaviour of the scans satisfies their invariant.
HealthInv == handler = "scan" => ScanInv

\* run_nightly_health_scan misses nothing because of earlier runs, however many
\* scans of other domains interleave with it.
THEOREM ScansMissOnlySharedIds == HandlersSpec => []MissesOnlySharedIds
<1>1. HandlersInit => HealthInv
  BY ScanInitHolds
  DEF HandlersInit, AdminStarts, ResolutionStarts, FeedbackStarts, MatchStarts, ScanStarts,
      HealthInv
<1>2. ASSUME ScanInv, UNCHANGED Nightly!vars
      PROVE  ScanInv'
  BY <1>2 DEF Nightly!vars, ScanInv, ScanTypes, SkipsOnlyOthers,
              Nightly!MissesOnlySharedIds
<1>3. HealthInv /\ [HandlersNext]_allVars => HealthInv'
  BY <1>2, OneHandler, StartKeeps, ScanKeeps DEF HealthInv, Nightly!Next
<1>4. HealthInv => MissesOnlySharedIds
  BY DEF HealthInv, ScanInv, MissesOnlySharedIds
<1> QED
  BY <1>1, <1>3, <1>4, PTL DEF HandlersSpec

-----------------------------------------------------------------------------
\* Induction over numbers and over finite sets, as facts about the set of those
\* for which something holds.

\* A set that has 0 and the successor of each of its numbers has all numbers.
LEMMA NaturalsByInduction ==
    ASSUME NEW S \in SUBSET Nat, 0 \in S, \A n \in S : n + 1 \in S
    PROVE  S = Nat
<1> SUFFICES ASSUME Nat \ S # {} PROVE FALSE
  OBVIOUS
<1>1. PICK m \in Nat \ S : \A k \in Nat \ S : m <= k
  BY LeastNumber
<1>2. m - 1 \in S
  BY <1>1
<1> QED
  BY <1>2

\* A set of subsets of a finite set that has the empty one, and each of which it
\* has those with one element less, has all subsets.
LEMMA SubsetsByInduction ==
    ASSUME NEW S, IsFiniteSet(S), NEW T \in SUBSET (SUBSET S), {} \in T,
           \A s \in SUBSET S : (\A x \in s : s \ {x} \in T) => s \in T
    PROVE  T = SUBSET S
<1> SUFFICES ASSUME (SUBSET S) \ T # {} PROVE FALSE
  OBVIOUS
<1>1. (SUBSET S) \ T \subseteq FiniteSubsetsOf(S)
  BY FS_Subset DEF FiniteSubsetsOf
<1>2. PICK m \in (SUBSET S) \ T :
         \A k \in (SUBSET S) \ T : <<k, m>> \notin StrictSubsetOrdering(S)
  BY <1>1, FS_StrictSubsetOrderingWellFounded, WFMin
<1>3. \A x \in m : <<m \ {x}, m>> \in StrictSubsetOrdering(S)
   BY DEF StrictSubsetOrdering
<1>4. \A x \in m : m \ {x} \in T
  BY <1>2, <1>3
<1> QED
  BY <1>4

\* What holds of 0, and of every number up to n when of the one before, holds
\* of all numbers up to n.
LEMMA UptoByInduction ==
    ASSUME NEW n \in Nat, NEW S, 0 \in S, \A d \in 1..n : d - 1 \in S => d \in S
    PROVE  0..n \subseteq S
<1> DEFINE T == {d \in Nat : d <= n => d \in S}
<1>1. 0 \in T
  OBVIOUS
<1>2. ASSUME NEW d \in T PROVE d + 1 \in T
  <2>1. SUFFICES ASSUME d + 1 <= n PROVE d + 1 \in S
    OBVIOUS
  <2>2. d \in S /\ d + 1 \in 1..n /\ (d + 1) - 1 = d
    BY <2>1
  <2> QED
    BY <2>2
<1>3. T = Nat
  <2> HIDE DEF T
  <2>1. T \in SUBSET Nat
    BY DEF T
  <2> QED
    BY <1>1, <1>2, <2>1, NaturalsByInduction
<1> QED
  BY <1>3

\* The first n results of applying F to b again and again.
Iterates(f, b, F, n) == f[0] = b /\ \A d \in 1..n : f[d] = F[f[d - 1]]

\* A function may be applied to its own results any number of times.
LEMMA IterationExists ==
    ASSUME NEW V, NEW b \in V, NEW F \in [V -> V], NEW n \in Nat
    PROVE  \E f \in [0..n -> V] : Iterates(f, b, F, n)
<1> DEFINE S == {m \in Nat : \E f \in [0..m -> V] : Iterates(f, b, F, m)}
<1>1. 0 \in S
  <2> DEFINE f == [d \in 0..0 |-> b]
  <2>1. f \in [0..0 -> V] /\ Iterates(f, b, F, 0)
    BY DEF Iterates
  <2> QED
    BY <2>1
<1>2. ASSUME NEW m \in S PROVE m + 1 \in S
  <2>1. PICK f \in [0..m -> V] : Iterates(f, b, F, m)
    OBVIOUS
  <2> DEFINE h == [d \in 0..(m + 1) |-> IF d = m + 1 THEN F[f[m]] ELSE f[d]]
  <2>2. h \in [0..(m + 1) -> V]
    <3>1. m \in 0..m /\ \A d \in 0..(m + 1) : d # m + 1 => d \in 0..m
      OBVIOUS
    <3> QED
      BY <2>1, <3>1
  <2>3. Iterates(h, b, F, m + 1)
    <3>1. h[0] = b
      BY <2>1 DEF Iterates
    <3>2. ASSUME NEW d \in 1..(m + 1) PROVE h[d] = F[h[d - 1]]
      <4>1. d - 1 \in 0..(m + 1) /\ d - 1 # m + 1 /\ h[d - 1] = f[d - 1]
        OBVIOUS
      <4>2. CASE d = m + 1
        BY <4>1, <4>2
      <4>3. CASE d # m + 1
        <5>1. d \in 1..m
          BY <4>3
        <5>2. h[d] = f[d]
          BY <4>3
        <5> HIDE DEF h
        <5> QED
          BY <2>1, <4>1, <5>1, <5>2 DEF Iterates
      <4> QED
        BY <4>2, <4>3
    <3> QED
      BY <3>1, <3>2 DEF Iterates
  <2> HIDE DEF h
  <2> QED
    BY <2>2, <2>3
<1>3. S = Nat
  <2> HIDE DEF S
  <2>1. S \in SUBSET Nat
    BY DEF S
  <2> QED
    BY <1>1, <1>2, <2>1, NaturalsByInduction
<1> QED
  BY <1>3

-----------------------------------------------------------------------------
\* Entity resolution: a hub stays canonical, and a batch merges whole groups.
USE HandlersAssumption

\* How often each entity has been merged into each.
EdgeType == edge \in [Entities \X Entities -> Nat]

\* The edges between two entities, in either direction.
Between(e, x) == edge[<<e, x>>] + edge[<<x, e>>]

\* g adds up the edges between e and the entities of each set in S, one after another.
Sums(g, e, S) ==
    \A s \in S : g[s] = IF s = {} THEN 0
                        ELSE Between(e, CHOOSE x \in s : TRUE)
                               + g[s \ {CHOOSE x \in s : TRUE}]

\* Sets of at most n entities.
Upto(n) == {s \in SUBSET Entities : Cardinality(s) <= n}

\* A set has fewer entities without one of them.
LEMMA UptoRemove ==
    ASSUME NEW n \in Nat, NEW s \in Upto(n + 1), NEW x \in s
    PROVE  s \ {x} \in Upto(n)
<1>1. IsFiniteSet(s)
  BY FS_Subset DEF Upto
<1>2. Cardinality(s) \in Nat /\ Cardinality(s \ {x}) = Cardinality(s) - 1
  BY <1>1, FS_RemoveElement, FS_CardinalityType
<1>3. Cardinality(s) <= n + 1
  BY DEF Upto
<1>4. Cardinality(s \ {x}) <= n
  BY <1>2, <1>3
<1> QED
  BY <1>4 DEF Upto

\* There is such a sum: the recursion over the entities of a set ends.
LEMMA SumsExist ==
    ASSUME EdgeType, NEW e \in Entities
    PROVE  \E g \in [SUBSET Entities -> Nat] : Sums(g, e, SUBSET Entities)
<1> DEFINE
      T == {n \in Nat : \E g \in [Upto(n) -> Nat] : Sums(g, e, Upto(n))}
<1>1. 0 \in T
  <2>1. Upto(0) = {{}}
    <3>1. \A s \in SUBSET Entities : IsFiniteSet(s) /\ Cardinality(s) \in Nat
      BY FS_Subset, FS_CardinalityType
    <3>2. \A s \in SUBSET Entities : Cardinality(s) <= 0 <=> s = {}
      BY <3>1, FS_EmptySet, SMTT(30)
    <3> QED
      BY <3>2 DEF Upto
  <2>2. [s \in Upto(0) |-> 0] \in [Upto(0) -> Nat]
    OBVIOUS
  <2>3. Sums([s \in Upto(0) |-> 0], e, Upto(0))
    BY <2>1 DEF Sums
  <2> DEFINE z == [s \in Upto(0) |-> 0]
  <2> HIDE DEF z
  <2> QED
    BY <2>2, <2>3 DEF z
<1>2. ASSUME NEW n \in T PROVE n + 1 \in T
  <2>1. n \in Nat
    OBVIOUS
  <2>2. PICK g \in [Upto(n) -> Nat] : Sums(g, e, Upto(n))
    OBVIOUS
  <2> DEFINE p(s) == CHOOSE x \in s : TRUE
             h == [s \in Upto(n + 1) |->
                     IF s = {} THEN 0 ELSE Between(e, p(s)) + g[s \ {p(s)}]]
  <2>3. \A s \in Upto(n + 1) : s # {} => p(s) \in s /\ p(s) \in Entities
    BY DEF Upto
  <2>4. \A x \in Entities : Between(e, x) \in Nat
    BY DEF EdgeType, Between
  <2>5. \A s \in Upto(n + 1) : s # {} => s \ {p(s)} \in Upto(n)
    BY <2>1, <2>3, UptoRemove
  <2> HIDE DEF p
  <2>6. h \in [Upto(n + 1) -> Nat]
    BY <2>3, <2>4, <2>5
  <2>7. Upto(n) \subseteq Upto(n + 1)
    <3>1. \A s \in SUBSET Entities : Cardinality(s) \in Nat
      BY FS_Subset, FS_CardinalityType
    <3> QED
      BY <2>1, <3>1 DEF Upto
  <2>8. \A s \in Upto(n) : h[s] = g[s]
    BY <2>2, <2>7 DEF Sums, p
  <2>9. \A s \in Upto(n + 1) : h[s] = IF s = {} THEN 0 ELSE Between(e, p(s)) + h[s \ {p(s)}]
    BY <2>5, <2>8
  <2>10. Sums(h, e, Upto(n + 1))
    BY <2>9 DEF Sums, p
  <2> HIDE DEF h
  <2> QED
    BY <2>1, <2>6, <2>10
<1>3. Cardinality(Entities) \in T
  <2>1. T = Nat
    <3> HIDE DEF T
    <3> QED
      BY <1>1, <1>2, NaturalsByInduction DEF T
  <2> QED
    BY <2>1, FS_CardinalityType
<1>4. Upto(Cardinality(Entities)) = SUBSET Entities
  BY FS_Subset DEF Upto
<1> QED
  BY <1>3, <1>4

\* The degree of an entity that _find_canonical compares is such a sum.
LEMMA DegreeSums ==
    ASSUME EdgeType, NEW e \in Entities
    PROVE  \E g \in [SUBSET Entities -> Nat] :
              /\ Sums(g, e, SUBSET Entities)
              /\ Resolution!Degree(e) = base[e] + g[Entities]
<1> DEFINE Rec(g) == g = [s \in SUBSET Entities |->
                            IF s = {} THEN 0
                            ELSE (edge[<<e, CHOOSE x \in s : TRUE>>]
                                    + edge[<<CHOOSE x \in s : TRUE, e>>])
                                 + g[s \ {CHOOSE x \in s : TRUE}]]
           it == CHOOSE g : Rec(g)
<1>1. PICK g \in [SUBSET Entities -> Nat] : Sums(g, e, SUBSET Entities)
  BY SumsExist
<1>2. Rec(g)
  BY <1>1 DEF Sums, Between
<1>3. Resolution!Degree(e) = base[e] + it[Entities]
  BY DEF Resolution!Degree, Resolution!MapThenSumSet, Resolution!MapThenFoldSet
<1> HIDE DEF Rec
<1>4. Rec(it)
  BY <1>2
<1> HIDE DEF it
<1>5. Sums(it, e, SUBSET Entities)
  BY <1>4 DEF Rec, Sums, Between
<1>6. it \in [SUBSET Entities -> Nat]
  <2>1. it = [s \in SUBSET Entities |-> it[s]]
    BY <1>4 DEF Rec
  <2> DEFINE T == {s \in SUBSET Entities : it[s] \in Nat}
  <2>2. {} \in T
    <3>1. it[{}] = 0
      BY <1>5 DEF Sums
    <3> QED
      BY <3>1
  <2>3. ASSUME NEW s \in SUBSET Entities, \A x \in s : s \ {x} \in T
        PROVE  s \in T
    <3> DEFINE p == CHOOSE x \in s : TRUE
    <3>1. CASE s = {}
      BY <2>2, <3>1
    <3>2. CASE s # {}
      <4>1. p \in s
        BY <3>2
      <4>2. it[s \ {p}] \in Nat
        BY <2>3, <4>1
      <4>3. Between(e, p) \in Nat
        BY <4>1 DEF Between, EdgeType
      <4>4. it[s] = Between(e, p) + it[s \ {p}]
        BY <1>5, <3>2 DEF Sums
      <4> HIDE DEF p
      <4> QED
        BY <4>2, <4>3, <4>4
    <3> QED
      BY <3>1, <3>2
  <2>4. T = SUBSET Entities
    <3>1. T \in SUBSET (SUBSET Entities)
      OBVIOUS
    <3> HIDE DEF T
    <3> QED
      BY <2>2, <2>3, <3>1, SubsetsByInduction
  <2> QED
    BY <2>1, <2>4
<1> QED
  BY <1>3, <1>5, <1>6

\* A sum is at least any of its terms.
LEMMA SumAtLeast ==
    ASSUME EdgeType, NEW e \in Entities, NEW g \in [SUBSET Entities -> Nat],
           Sums(g, e, SUBSET Entities), NEW y \in Entities
    PROVE  g[Entities] >= Between(e, y)
<1> DEFINE T == {s \in SUBSET Entities : y \in s => g[s] >= Between(e, y)}
<1>1. {} \in T
  OBVIOUS
<1>2. ASSUME NEW s \in SUBSET Entities, \A x \in s : s \ {x} \in T
      PROVE  s \in T
  <2>1. SUFFICES ASSUME y \in s PROVE g[s] >= Between(e, y)
    OBVIOUS
  <2> DEFINE p == CHOOSE x \in s : TRUE
  <2>2. p \in s /\ p \in Entities
    BY <2>1
  <2>3. g[s] = Between(e, p) + g[s \ {p}]
    BY <2>1 DEF Sums
  <2>4. g[s \ {p}] \in Nat /\ Between(e, p) \in Nat
    BY <2>2 DEF Between, EdgeType
  <2>5. y # p => g[s \ {p}] >= Between(e, y)
    BY <1>2, <2>1, <2>2
  <2>6. Between(e, y) \in Nat
    BY DEF Between, EdgeType
  <2> HIDE DEF p
  <2> QED
    BY <2>3, <2>4, <2>5, <2>6
<1>3. T = SUBSET Entities
  <2>1. T \in SUBSET (SUBSET Entities)
    OBVIOUS
  <2> HIDE DEF T
  <2> QED
    BY <1>1, <1>2, <2>1, SubsetsByInduction
<1> QED
  BY <1>3

\* A sum with one term other than zero is that term.
LEMMA SumOfOne ==
    ASSUME EdgeType, NEW e \in Entities, NEW g \in [SUBSET Entities -> Nat],
           Sums(g, e, SUBSET Entities), NEW y \in Entities,
           \A x \in Entities \ {y} : Between(e, x) = 0
    PROVE  g[Entities] = Between(e, y)
<1> DEFINE T == {s \in SUBSET Entities : g[s] = IF y \in s THEN Between(e, y) ELSE 0}
<1>1. {} \in T
  BY DEF Sums
<1>2. ASSUME NEW s \in SUBSET Entities, \A x \in s : s \ {x} \in T
      PROVE  s \in T
  <2>1. CASE s = {}
    BY <1>1, <2>1
  <2>2. CASE s # {}
    <3> DEFINE p == CHOOSE x \in s : TRUE
    <3>1. p \in s /\ p \in Entities
      BY <2>2
    <3>2. g[s] = Between(e, p) + g[s \ {p}]
      BY <2>2 DEF Sums
    <3>3. g[s \ {p}] = IF y \in s \ {p} THEN Between(e, y) ELSE 0
      BY <1>2, <3>1
    <3>4. Between(e, y) \in Nat
      BY DEF Between, EdgeType
    <3>5. p # y => Between(e, p) = 0
      BY <3>1
    <3> HIDE DEF p
    <3>6. g[s] = IF y \in s THEN Between(e, y) ELSE 0
      BY <3>1, <3>2, <3>3, <3>4, <3>5
    <3> QED
      BY <3>6
  <2> QED
    BY <2>1, <2>2
<1>3. T = SUBSET Entities
  <2>1. T \in SUBSET (SUBSET Entities)
    OBVIOUS
  <2> HIDE DEF T
  <2> QED
    BY <1>1, <1>2, <2>1, SubsetsByInduction
<1> QED
  BY <1>3

\* The edges in and around a hub's group all lead from another member to the hub.
HubEdges ==
    \A h \in Entities : Resolution!Hub(h) =>
        \A x, t \in Entities :
            edge[<<x, t>>] > 0 /\ (x \in Resolution!Sure(h) \/ t \in Resolution!Sure(h)) =>
                x # h /\ t = h

\* And so do those a request is still about to create.
HubMerges ==
    \A h \in Entities : Resolution!Hub(h) =>
        \A r \in Runs : \A m \in merging[r] :
            m \in Resolution!Sure(h) \/ canonical[r] \in Resolution!Sure(h) =>
                m # h /\ canonical[r] = h

\* Only a request that merges has a group, and one that is done has nothing to do.
Phases ==
    \A r \in Runs :
        /\ IF pc[r] = "merge" THEN canonical[r] \in Entities ELSE merging[r] = {}
        /\ pc[r] = "done" => todo[r] = {}
        /\ pc[r] = "new" => mode[r] = "single"

\* Mutually similar entities that max_candidates does not cut.
Closed(G) == G # {} /\ \A x \in G : Resolution!Sure(x) = G /\ Resolution!WithinLimit(x)

\* A batch that has not come to a group yet has all its unmerged members to do;
\* after the first it comes to, all but one are merged or about to be.
BatchProgress ==
    \A r \in Runs : mode[r] = "batch" /\ pc[r] \in {"pick", "merge", "done"} =>
        \A G \in SUBSET Entities : Closed(G) =>
            \/ \A x \in G : Resolution!Merged(x) \/ x \in todo[r]
            \/ \E c \in Entities : \A x \in G \ {c} :
                  Resolution!Merged(x) \/ x \in merging[r]

\* Edges and pending merges agree with the hubs, and batches lose no member.
ResolutionInv ==
    /\ Resolution!TypeOK
    /\ base \in [Entities -> Nat]
    /\ Phases
    /\ HubEdges
    /\ HubMerges
    /\ BatchProgress

\* Without a cut the candidates are at least the similar entities; they are always
\* at most the possible ones.
LEMMA GroupBounds ==
    ASSUME NEW e, NEW group \in Resolution!Groups(e)
    PROVE  /\ e \in group /\ group \subseteq Resolution!Possible(e)
           /\ Resolution!WithinLimit(e) => Resolution!Sure(e) \subseteq group
<1>1. /\ e \in group /\ group \subseteq Resolution!Possible(e)
      /\ \E S \in Resolution!Scored(e) : Resolution!Sure(e) \cap S \subseteq group
  BY DEF Resolution!Groups
<1>2. ASSUME Resolution!WithinLimit(e) PROVE Resolution!Sure(e) \subseteq group
  <2>1. Resolution!Scored(e) = {Resolution!Peers(e)}
    BY <1>2 DEF Resolution!Scored
  <2>2. Resolution!Sure(e) \cap Resolution!Peers(e) \subseteq group
    BY <1>1, <2>1
  <2> QED
    BY <1>1, <2>2 DEF Resolution!Sure
<1> QED
  BY <1>1, <1>2

\* A group of candidates that meets a hub's group lies within it and has the hub.
LEMMA GroupOfHub ==
    ASSUME NEW h \in Entities, Resolution!Hub(h), NEW e \in Entities,
           NEW group \in Resolution!Groups(e), NEW z \in group, z \in Resolution!Sure(h)
    PROVE  group \subseteq Resolution!Sure(h) /\ h \in group
<1>1. /\ e \in group /\ group \subseteq Resolution!Possible(e)
      /\ Resolution!WithinLimit(e) => Resolution!Sure(e) \subseteq group
  BY GroupBounds
<1> USE DEF Resolution!Sure, Resolution!Possible, Resolution!Peers
<1>2. \A x, y : {x, y} = {y, x}
  OBVIOUS
<1>3. \A x \in Resolution!Possible(h) \ {h} :
         /\ h \in Resolution!Sure(x) /\ Resolution!WithinLimit(x)
         /\ Resolution!Possible(x) \subseteq Resolution!Sure(h)
  BY DEF Resolution!Hub
<1>4. \A x \in Entities, y \in Entities :
         /\ y \in Resolution!Sure(x) <=> x \in Resolution!Sure(y)
         /\ y \in Resolution!Possible(x) <=> x \in Resolution!Possible(y)
  BY <1>2
<1>5. z \in Entities /\ z \in Resolution!Possible(e) /\ z \in Resolution!Possible(h)
  BY <1>1
<1>6. Resolution!Possible(h) \subseteq Resolution!Sure(h)
  BY <1>3, <1>4
<1>7. e \in Resolution!Sure(h)
  <2>1. e \in Resolution!Possible(z)
    BY <1>4, <1>5
  <2>2. CASE z = h
    BY <1>6, <2>1, <2>2
  <2>3. CASE z # h
    BY <1>3, <1>5, <2>1, <2>3
  <2> QED
    BY <2>2, <2>3
<1>8. CASE e = h
  BY <1>1, <1>6, <1>8
<1>9. CASE e # h
  <2>1. e \in Resolution!Possible(h) \ {h}
    BY <1>7, <1>9
  <2> QED
    BY <1>1, <1>3, <2>1
<1> QED
  BY <1>8, <1>9

\* Whatever has been merged, a hub has more edges than any other member of its group:
\* it had, and each merge gives it as many as the other.
LEMMA HubDegree ==
    ASSUME EdgeType, base \in [Entities -> Nat], HubEdges,
           NEW h \in Entities, Resolution!Hub(h), NEW x \in Resolution!Sure(h), x # h
    PROVE  ~(Resolution!Degree(h) <= Resolution!Degree(x))
<1>1. x \in Entities /\ base[x] < base[h]
  BY DEF Resolution!Hub, Resolution!Sure, Resolution!Possible, Resolution!Peers
<1>2. \A y \in Entities \ {h} : Between(x, y) = 0
  <2> SUFFICES ASSUME NEW y \in Entities \ {h} PROVE Between(x, y) = 0
    OBVIOUS
  <2>1. ~(edge[<<x, y>>] > 0) /\ ~(edge[<<y, x>>] > 0)
    BY <1>1 DEF HubEdges
  <2>2. edge[<<x, y>>] \in Nat /\ edge[<<y, x>>] \in Nat
    BY <1>1 DEF EdgeType
  <2> QED
    BY <2>1, <2>2 DEF Between
<1>3. PICK gx \in [SUBSET Entities -> Nat] :
         /\ Sums(gx, x, SUBSET Entities)
         /\ Resolution!Degree(x) = base[x] + gx[Entities]
  BY <1>1, DegreeSums
<1>4. PICK gh \in [SUBSET Entities -> Nat] :
         /\ Sums(gh, h, SUBSET Entities)
         /\ Resolution!Degree(h) = base[h] + gh[Entities]
  BY DegreeSums
<1>5. gx[Entities] = Between(x, h)
  BY <1>1, <1>2, <1>3, SumOfOne
<1>6. gh[Entities] >= Between(h, x)
  BY <1>1, <1>4, SumAtLeast
<1>7. Between(h, x) = Between(x, h) /\ Between(x, h) \in Nat
  BY <1>1 DEF Between, EdgeType
<1>8. base[x] \in Nat /\ base[h] \in Nat /\ gh[Entities] \in Nat
  BY <1>1, <1>4
<1> QED
  BY <1>1, <1>3, <1>4, <1>5, <1>6, <1>7, <1>8

\* So _find_canonical chooses the hub.
LEMMA HubIsCanonical ==
    ASSUME EdgeType, base \in [Entities -> Nat], HubEdges,
           NEW h \in Entities, Resolution!Hub(h), NEW e \in Entities,
           NEW group \in Resolution!Groups(e), NEW z \in group, z \in Resolution!Sure(h),
           NEW c \in Resolution!MostConnected(group)
    PROVE  c = h
<1>1. group \subseteq Resolution!Sure(h) /\ h \in group
  BY GroupOfHub
<1>2. c \in group /\ Resolution!Degree(h) <= Resolution!Degree(c)
  BY <1>1 DEF Resolution!MostConnected
<1> QED
  BY <1>1, <1>2, HubDegree

\* Which entities are alike never changes.
LEMMA GraphStays ==
    ASSUME UNCHANGED Resolution!graph
    PROVE  /\ base' = base
           /\ \A h : Resolution!Sure(h)' = Resolution!Sure(h)
           /\ \A h : Resolution!Hub(h)' = Resolution!Hub(h)
           /\ \A G : Closed(G)' = Closed(G)
  BY DEF Resolution!graph, Resolution!Sure, Resolution!Hub, Resolution!Possible,
         Resolution!Peers, Resolution!WithinLimit, Closed

\* Nothing has been merged.
LEMMA ResolutionInit == Resolution!Init => ResolutionInv
<1> SUFFICES ASSUME Resolution!Init PROVE ResolutionInv
  OBVIOUS
<1>1. Resolution!TypeOK
  BY DEF Resolution!Init, Resolution!TypeOK
<1>2. base \in [Entities -> Nat]
  BY DEF Resolution!Init
<1>3. Phases /\ HubMerges /\ BatchProgress
  BY DEF Resolution!Init, Phases, HubMerges, BatchProgress
<1>4. HubEdges
  BY DEF Resolution!Init, HubEdges
<1> QED
  BY <1>1, <1>2, <1>3, <1>4 DEF ResolutionInv

\* Picking a group chooses its hub, if it has one, and keeps every member of a batch.
LEMMA PickKeeps ==
    ASSUME ResolutionInv, NEW r \in Runs, Resolution!Pick(r)
    PROVE  ResolutionInv'
<1>1. PICK e \in todo[r] :
         /\ todo' = [todo EXCEPT ![r] = @ \ {e}]
         /\ \E group \in Resolution!Groups(e) : \E c \in Resolution!MostConnected(group) :
               /\ canonical' = [canonical EXCEPT ![r] = c]
               /\ merging' = [merging EXCEPT ![r] = group \ {c}]
  BY DEF Resolution!Pick, Resolution!ToMerge
<1>2. PICK group \in Resolution!Groups(e) : \E c \in Resolution!MostConnected(group) :
         /\ canonical' = [canonical EXCEPT ![r] = c]
         /\ merging' = [merging EXCEPT ![r] = group \ {c}]
  BY <1>1
<1>3. PICK c \in Resolution!MostConnected(group) :
         /\ canonical' = [canonical EXCEPT ![r] = c]
         /\ merging' = [merging EXCEPT ![r] = group \ {c}]
  BY <1>2
<1>4. /\ pc[r] = "pick" /\ pc' = [pc EXCEPT ![r] = "merge"]
      /\ UNCHANGED <<edge, mode>>
      /\ UNCHANGED Resolution!graph
  BY DEF Resolution!Pick
<1>5. e \in Entities
  BY DEF ResolutionInv, Resolution!TypeOK
<1>6. /\ group \subseteq Entities /\ c \in group
      /\ Resolution!WithinLimit(e) => Resolution!Sure(e) \subseteq group
  <2>1. /\ group \subseteq Resolution!Possible(e)
        /\ Resolution!WithinLimit(e) => Resolution!Sure(e) \subseteq group
    BY GroupBounds
  <2>2. Resolution!Possible(e) \subseteq Entities
    BY <1>5 DEF Resolution!Possible, Resolution!Sure, Resolution!Peers
  <2>3. c \in group
    BY DEF Resolution!MostConnected
  <2> QED
    BY <2>1, <2>2, <2>3
<1>7. Resolution!TypeOK'
  BY <1>1, <1>3, <1>4, <1>5, <1>6 DEF ResolutionInv, Resolution!TypeOK
<1>8. /\ \A q \in Runs \ {r} : /\ pc'[q] = pc[q] /\ todo'[q] = todo[q]
                               /\ canonical'[q] = canonical[q] /\ merging'[q] = merging[q]
      /\ pc'[r] = "merge" /\ todo'[r] = todo[r] \ {e}
      /\ canonical'[r] = c /\ merging'[r] = group \ {c}
  BY <1>1, <1>3, <1>4 DEF ResolutionInv, Resolution!TypeOK
<1>9. Phases'
  BY <1>4, <1>6, <1>8 DEF ResolutionInv, Phases
<1>10. HubEdges'
  BY <1>4, GraphStays DEF ResolutionInv, HubEdges
<1>11. HubMerges'
  <2> SUFFICES ASSUME NEW h \in Entities, Resolution!Hub(h), NEW q \in Runs,
                      NEW m \in merging'[q],
                      m \in Resolution!Sure(h) \/ canonical'[q] \in Resolution!Sure(h)
               PROVE  m # h /\ canonical'[q] = h
    BY <1>4, GraphStays DEF HubMerges
  <2>1. CASE q # r
    BY <1>8, <2>1 DEF ResolutionInv, HubMerges
  <2>2. CASE q = r
    <3>1. \E z \in group : z \in Resolution!Sure(h)
      BY <1>6, <1>8, <2>2
    <3>2. c = h
      BY <1>5, <3>1, HubIsCanonical DEF ResolutionInv, Resolution!TypeOK, EdgeType
    <3> QED
      BY <1>8, <2>2, <3>2
  <2> QED
    BY <2>1, <2>2
<1>12. BatchProgress'
  <2> SUFFICES ASSUME NEW q \in Runs, mode[q] = "batch",
                      pc'[q] \in {"pick", "merge", "done"},
                      NEW G \in SUBSET Entities, Closed(G)
               PROVE  \/ \A x \in G : Resolution!Merged(x) \/ x \in todo'[q]
                      \/ \E d \in Entities : \A x \in G \ {d} :
                            Resolution!Merged(x) \/ x \in merging'[q]
    BY <1>4, GraphStays DEF BatchProgress, Resolution!Merged
  <2>1. CASE q # r
    BY <1>8, <2>1 DEF ResolutionInv, BatchProgress
  <2>2. CASE q = r /\ e \in G
    <3>1. G \subseteq group
      BY <1>6, <2>2 DEF Closed
    <3> QED
      BY <1>6, <1>8, <2>2, <3>1
  <2>3. CASE q = r /\ e \notin G
    <3>1. merging[r] = {}
      BY <1>4 DEF ResolutionInv, Phases
    <3>2. \/ \A x \in G : Resolution!Merged(x) \/ x \in todo[r]
          \/ \E d \in Entities : \A x \in G \ {d} : Resolution!Merged(x) \/ x \in merging[r]
      BY <1>4, <2>3 DEF ResolutionInv, BatchProgress
    <3> QED
      BY <1>8, <2>3, <3>1, <3>2
  <2> QED
    BY <2>1, <2>2, <2>3
<1> QED
  BY <1>4, <1>7, <1>9, <1>10, <1>11, <1>12, GraphStays DEF ResolutionInv

\* A new edge of a pending merge agrees with the hubs.
LEMMA EdgeKeepsHubs ==
    ASSUME ResolutionInv, UNCHANGED Resolution!graph,
           NEW r \in Runs, pc[r] = "merge", NEW m \in merging[r],
           edge' = [edge EXCEPT ![<<m, canonical[r]>>] = @ + 1]
    PROVE  /\ edge' \in [Entities \X Entities -> Nat]
           /\ HubEdges'
           /\ \A x \in Entities : Resolution!Merged(x) => Resolution!Merged(x)'
           /\ m \in Entities /\ Resolution!Merged(m)'
<1>1. m \in Entities /\ canonical[r] \in Entities
  BY DEF ResolutionInv, Resolution!TypeOK, Phases
<1>2. edge' \in [Entities \X Entities -> Nat]
  BY <1>1 DEF ResolutionInv, Resolution!TypeOK
<1>3. \A x, t \in Entities :
         edge'[<<x, t>>] = IF x = m /\ t = canonical[r] THEN edge[<<x, t>>] + 1
                           ELSE edge[<<x, t>>]
  BY <1>1 DEF ResolutionInv, Resolution!TypeOK
<1>4. HubEdges'
  <2> SUFFICES ASSUME NEW h \in Entities, Resolution!Hub(h), NEW x \in Entities,
                      NEW t \in Entities, edge'[<<x, t>>] > 0,
                      x \in Resolution!Sure(h) \/ t \in Resolution!Sure(h)
               PROVE  x # h /\ t = h
    BY GraphStays DEF HubEdges
  <2>1. CASE x = m /\ t = canonical[r]
    BY <2>1 DEF ResolutionInv, HubMerges
  <2>2. CASE ~(x = m /\ t = canonical[r])
    BY <1>3, <2>2 DEF ResolutionInv, HubEdges
  <2> QED
    BY <2>1, <2>2
<1>5. /\ \A x \in Entities : Resolution!Merged(x) => Resolution!Merged(x)'
      /\ Resolution!Merged(m)'
  <2>1. \A x, t \in Entities : edge[<<x, t>>] \in Nat
    BY DEF ResolutionInv, Resolution!TypeOK
  <2> QED
    BY <1>1, <1>3, <2>1 DEF Resolution!Merged
<1> QED
  BY <1>1, <1>2, <1>4, <1>5

\* A merge adds one edge into the chosen entity.
LEMMA CreateResolutionKeeps ==
    ASSUME ResolutionInv, NEW r \in Runs, Resolution!CreateResolution(r)
    PROVE  ResolutionInv'
<1>1. PICK m \in merging[r] :
         /\ edge' = [edge EXCEPT ![<<m, canonical[r]>>] = @ + 1]
         /\ merging' = [merging EXCEPT ![r] = @ \ {m}]
  BY DEF Resolution!CreateResolution
<1>2. /\ pc[r] = "merge" /\ UNCHANGED <<pc, mode, todo, canonical>>
      /\ UNCHANGED Resolution!graph
  BY DEF Resolution!CreateResolution
<1>3. /\ edge' \in [Entities \X Entities -> Nat]
      /\ HubEdges'
      /\ \A x \in Entities : Resolution!Merged(x) => Resolution!Merged(x)'
      /\ m \in Entities /\ Resolution!Merged(m)'
  BY <1>1, <1>2, EdgeKeepsHubs
<1>4. Resolution!TypeOK'
  BY <1>1, <1>2, <1>3 DEF ResolutionInv, Resolution!TypeOK
<1>5. /\ \A q \in Runs \ {r} : merging'[q] = merging[q]
      /\ merging'[r] = merging[r] \ {m}
  BY <1>1 DEF ResolutionInv, Resolution!TypeOK
<1>6. Phases'
  BY <1>2, <1>5 DEF ResolutionInv, Phases
<1>7. HubMerges'
  BY <1>2, <1>5, GraphStays DEF ResolutionInv, HubMerges
<1>8. BatchProgress'
  <2> SUFFICES ASSUME NEW q \in Runs, mode[q] = "batch", pc[q] \in {"pick", "merge", "done"},
                      NEW G \in SUBSET Entities, Closed(G)
               PROVE  \/ \A x \in G : Resolution!Merged(x)' \/ x \in todo[q]
                      \/ \E d \in Entities : \A x \in G \ {d} :
                            Resolution!Merged(x)' \/ x \in merging'[q]
    BY <1>2, GraphStays DEF BatchProgress
  <2>1. \A x : x \in merging[q] => x \in merging'[q] \/ x = m
    BY <1>5
  <2>2. \/ \A x \in G : Resolution!Merged(x) \/ x \in todo[q]
        \/ \E d \in Entities : \A x \in G \ {d} : Resolution!Merged(x) \/ x \in merging[q]
    BY DEF ResolutionInv, BatchProgress
  <2> QED
    BY <1>3, <2>1, <2>2
<1> QED
  BY <1>2, <1>3, <1>4, <1>6, <1>7, <1>8, GraphStays DEF ResolutionInv

\* A request that arrives, ends a group or answers merges nothing, and one that fails
\* at most creates an edge it was about to.
LEMMA RequestsKeep ==
    ASSUME ResolutionInv, NEW r \in Runs,
           \/ \E e \in Entities : Resolution!ResolveEntity(r, e)
           \/ Resolution!ResolveBatch(r) \/ Resolution!GroupDone(r)
           \/ Resolution!Answer(r) \/ Resolution!Fail(r)
    PROVE  ResolutionInv'
<1> USE DEF Resolution!ResolveEntity, Resolution!ResolveBatch, Resolution!GroupDone,
            Resolution!Answer, Resolution!Fail
<1>1. /\ UNCHANGED Resolution!graph
      /\ \/ UNCHANGED edge
         \/ /\ pc[r] = "merge"
            /\ \E m \in merging[r] : edge' = [edge EXCEPT ![<<m, canonical[r]>>] = @ + 1]
  <2>1. CASE Resolution!Fail(r)
    BY <2>1 DEF Resolution!Fail, ResolutionInv, Phases
  <2> QED
    BY <2>1
<1>0. /\ edge' \in [Entities \X Entities -> Nat]
      /\ HubEdges'
      /\ \A x \in Entities : Resolution!Merged(x) => Resolution!Merged(x)'
  <2>1. CASE UNCHANGED edge
    <3>1. HubEdges'
      BY <1>1, <2>1, GraphStays DEF ResolutionInv, HubEdges
    <3>2. \A x \in Entities : Resolution!Merged(x)' = Resolution!Merged(x)
      BY <2>1 DEF Resolution!Merged
    <3> QED
      BY <2>1, <3>1, <3>2 DEF ResolutionInv, Resolution!TypeOK
  <2>2. CASE /\ pc[r] = "merge"
             /\ \E m \in merging[r] : edge' = [edge EXCEPT ![<<m, canonical[r]>>] = @ + 1]
    <3>1. PICK m \in merging[r] : edge' = [edge EXCEPT ![<<m, canonical[r]>>] = @ + 1]
      BY <2>2
    <3> QED
      BY <1>1, <2>2, <3>1, EdgeKeepsHubs
  <2> QED
    BY <1>1, <2>1, <2>2
<1>2. Resolution!TypeOK'
  BY <1>0 DEF ResolutionInv, Resolution!TypeOK
<1>3. \A q \in Runs \ {r} :
         /\ pc'[q] = pc[q] /\ mode'[q] = mode[q] /\ todo'[q] = todo[q]
         /\ canonical'[q] = canonical[q] /\ merging'[q] = merging[q]
  BY DEF ResolutionInv, Resolution!TypeOK
<1>4. /\ merging'[r] = {}
      /\ pc'[r] \in {"pick", "done", "failed"}
      /\ pc'[r] = "done" => todo'[r] = {}
  BY DEF ResolutionInv, Resolution!TypeOK, Phases
<1>5. Phases'
  BY <1>3, <1>4 DEF ResolutionInv, Phases
<1>7. HubMerges'
  BY <1>1, <1>3, <1>4, GraphStays DEF ResolutionInv, HubMerges
<1>8. BatchProgress'
  <2> SUFFICES ASSUME NEW q \in Runs, mode'[q] = "batch",
                      pc'[q] \in {"pick", "merge", "done"},
                      NEW G \in SUBSET Entities, Closed(G)
               PROVE  \/ \A x \in G : Resolution!Merged(x) \/ x \in todo'[q]
                      \/ \E d \in Entities : \A x \in G \ {d} :
                            Resolution!Merged(x) \/ x \in merging'[q]
    BY <1>0, <1>1, GraphStays DEF BatchProgress
  <2>1. CASE q # r
    BY <1>3, <2>1 DEF ResolutionInv, BatchProgress
  <2>2. CASE q = r /\ Resolution!ResolveBatch(r)
    BY <2>2 DEF ResolutionInv, Resolution!TypeOK
  <2>3. CASE q = r /\ ~Resolution!ResolveBatch(r)
    <3>1. /\ mode[r] = "batch" /\ pc[r] \in {"pick", "merge"}
          /\ merging[r] = {} /\ todo'[r] = todo[r]
      BY <2>3 DEF ResolutionInv, Resolution!TypeOK, Phases
    <3>2. \/ \A x \in G : Resolution!Merged(x) \/ x \in todo[r]
          \/ \E d \in Entities : \A x \in G \ {d} : Resolution!Merged(x) \/ x \in merging[r]
      BY <3>1 DEF ResolutionInv, BatchProgress
    <3> QED
      BY <2>3, <3>1, <3>2
  <2> QED
    BY <2>1, <2>2, <2>3
<1> QED
  BY <1>0, <1>1, <1>2, <1>5, <1>7, <1>8, GraphStays DEF ResolutionInv

\* Every step of a request keeps the invariant.
LEMMA ResolutionNext ==
    ResolutionInv /\ [Resolution!Next]_(Resolution!vars) => ResolutionInv'
<1> SUFFICES ASSUME ResolutionInv, [Resolution!Next]_(Resolution!vars) PROVE ResolutionInv'
  OBVIOUS
<1>1. CASE UNCHANGED Resolution!vars
  <2>1. UNCHANGED Resolution!graph /\ UNCHANGED <<edge, pc, mode, todo, canonical, merging>>
    BY <1>1 DEF Resolution!vars
  <2>2. Resolution!TypeOK' /\ Phases'
    BY <2>1 DEF ResolutionInv, Resolution!TypeOK, Phases
  <2>3. HubEdges' /\ HubMerges'
    BY <2>1, GraphStays DEF ResolutionInv, HubEdges, HubMerges
  <2>4. BatchProgress'
    BY <2>1, GraphStays DEF ResolutionInv, BatchProgress, Resolution!Merged
  <2> QED
    BY <2>1, <2>2, <2>3, <2>4, GraphStays DEF ResolutionInv
<1>2. CASE Resolution!Next
  BY <1>2, PickKeeps, CreateResolutionKeeps, RequestsKeep DEF Resolution!Next
<1> QED
  BY <1>1, <1>2

\* The invariant has both properties of the entity graph.
LEMMA ResolutionInvSuffices ==
    ASSUME ResolutionInv
    PROVE  Resolution!HubStaysCanonical /\ Resolution!BatchMergesGroups
<1>1. Resolution!HubStaysCanonical
  <2> SUFFICES ASSUME NEW h \in Entities, Resolution!Hub(h), NEW x \in Resolution!Sure(h),
                      NEW t \in Entities, edge[<<x, t>>] > 0
               PROVE  x # h /\ t = h
    BY DEF Resolution!HubStaysCanonical
  <2>1. x \in Entities
    BY DEF Resolution!Sure, Resolution!Peers
  <2> QED
    BY <2>1 DEF ResolutionInv, HubEdges
<1>2. Resolution!BatchMergesGroups
  <2> SUFFICES ASSUME NEW r \in Runs, pc[r] = "done", mode[r] = "batch", NEW e \in Entities,
                      \A x \in Resolution!Sure(e) : /\ Resolution!Sure(x) = Resolution!Sure(e)
                                                   /\ Resolution!WithinLimit(x),
                      NEW x \in Resolution!Sure(e), NEW y \in Resolution!Sure(e), x # y,
                      ~Resolution!Merged(x), ~Resolution!Merged(y)
               PROVE  FALSE
    BY DEF Resolution!BatchMergesGroups
  <2>1. Resolution!Sure(e) \in SUBSET Entities /\ Closed(Resolution!Sure(e))
    BY DEF Resolution!Sure, Resolution!Peers, Closed
  <2>2. todo[r] = {} /\ merging[r] = {}
    BY DEF ResolutionInv, Phases
  <2>3. \/ \A z \in Resolution!Sure(e) : Resolution!Merged(z) \/ z \in todo[r]
        \/ \E d \in Entities : \A z \in Resolution!Sure(e) \ {d} :
              Resolution!Merged(z) \/ z \in merging[r]
    BY <2>1 DEF ResolutionInv, BatchProgress
  <2> QED
    BY <2>2, <2>3
<1> QED
  BY <1>1, <1>2

\* A behaviour of the resolve handler satisfies the invariant of the entity graph.
EntitiesInv == handler = "resolve" => ResolutionInv

\* The invariant of the entity graph holds for any entities and requests.
THEOREM EntitiesInvariance == HandlersSpec => []EntitiesInv
<1>1. HandlersInit => EntitiesInv
  BY ResolutionInit
  DEF HandlersInit, AdminStarts, ResolutionStarts, FeedbackStarts, MatchStarts, ScanStarts,
      EntitiesInv
<1>2. EntitiesInv /\ [HandlersNext]_allVars => EntitiesInv'
  BY OneHandler, ResolutionNext DEF EntitiesInv
<1> QED
  BY <1>1, <1>2, PTL DEF HandlersSpec

\* No order of merges turns _find_canonical away from the entity of a group that
\* had the most edges to begin with.
THEOREM HubsStayCanonical == HandlersSpec => []HubStaysCanonical
<1>1. EntitiesInv => HubStaysCanonical
  BY ResolutionInvSuffices DEF EntitiesInv, HubStaysCanonical
<1> QED
  BY <1>1, EntitiesInvariance, PTL

\* resolve_batch leaves at most one entity of a group of duplicates unmerged,
\* whatever other requests do meanwhile.
THEOREM BatchesMergeGroups == HandlersSpec => []BatchMergesGroups
<1>1. EntitiesInv => BatchMergesGroups
  BY ResolutionInvSuffices DEF EntitiesInv, BatchMergesGroups
<1> QED
  BY <1>1, EntitiesInvariance, PTL

-----------------------------------------------------------------------------
\* Gates: a match admits exactly whom its gates are satisfied by, and fails only
\* for a reason in its clause.

\* The gates of a domain spec and what they compare.
GatesTyped ==
    /\ DOMAIN gate \in SUBSET Names
    /\ gate \in [DOMAIN gate -> Match!GateSpecs]
    /\ data \in [DOMAIN gate -> Match!Data]

\* The truth values are numbers.
LEMMA TruthValues ==
    Match!Truth = 0..2 /\ Match!No = 0 /\ Match!Null = 1 /\ Match!Yes = 2
  BY DEF Match!Truth, Match!No, Match!Null, Match!Yes

\* Of some truth values the least is Yes only if all are, and the greatest is
\* Yes if any is.
LEMMA Extremes ==
    ASSUME NEW S \in SUBSET (0..2), S # {}
    PROVE  /\ Match!Min(S) \in S /\ Match!Max(S) \in S
           /\ Match!Min(S) = 2 <=> \A v \in S : v = 2
           /\ Match!Max(S) = 2 <=> 2 \in S
<1>1. \A v \in S : v = 0 \/ v = 1 \/ v = 2
  OBVIOUS
<1>2. \E x \in S : \A y \in S : x <= y
  <2>1. CASE 0 \in S
    BY <1>1, <2>1
  <2>2. CASE 0 \notin S /\ 1 \in S
    BY <1>1, <2>2
  <2>3. CASE 0 \notin S /\ 1 \notin S
    <3>1. PICK x \in S : \A y \in S : y = x
      BY <1>1, <2>3
    <3>2. x <= x
      BY <1>1
    <3> QED
      BY <3>1, <3>2
  <2> QED
    BY <2>1, <2>2, <2>3
<1>3. \E x \in S : \A y \in S : x >= y
  <2>1. CASE 2 \in S
    BY <1>1, <2>1
  <2>2. CASE 2 \notin S /\ 1 \in S
    BY <1>1, <2>2
  <2>3. CASE 2 \notin S /\ 1 \notin S
    <3>1. PICK x \in S : \A y \in S : y = x
      BY <1>1, <2>3
    <3>2. x >= x
      BY <1>1
    <3> QED
      BY <3>1, <3>2
  <2> QED
    BY <2>1, <2>2, <2>3
<1> DEFINE least == Match!Min(S)
           greatest == Match!Max(S)
<1>4. least \in S /\ \A y \in S : least <= y
  BY <1>2 DEF Match!Min
<1>5. greatest \in S /\ \A y \in S : greatest >= y
  BY <1>3 DEF Match!Max
<1> HIDE DEF least, greatest
<1>6. least = 2 <=> \A v \in S : v = 2
  BY <1>1, <1>4
<1>7. greatest = 2 <=> 2 \in S
  BY <1>1, <1>5
<1> QED
  BY <1>4, <1>5, <1>6, <1>7 DEF least, greatest

\* Conjunction and disjunction of truth values.
LEMMA CombinedValues ==
    ASSUME NEW S \in SUBSET (0..2), NEW logic
    PROVE  /\ Match!Combined(logic, S) \in 0..2
           /\ Match!Combined(logic, S) = 2 <=>
                IF logic = "AND" THEN \A v \in S : v = 2 ELSE S = {} \/ 2 \in S
<1>1. CASE S = {}
  BY <1>1, TruthValues DEF Match!Combined
<1>2. CASE S # {}
  BY <1>2, Extremes, TruthValues DEF Match!Combined
<1> QED
  BY <1>1, <1>2

\* A gate by itself lets through what it asks for, and nothing when that is null.
LEMMA PredicateIsMet ==
    ASSUME GatesTyped, NEW g \in DOMAIN gate
    PROVE  /\ Match!Predicate(g) \in Match!Truth
           /\ gate[g].type # "composite" =>
                (Match!Predicate(g) = Match!Yes <=> Match!Met(g))
<1>1. gate[g] \in Match!GateSpecs /\ data[g] \in Match!Data
  BY DEF GatesTyped
<1> DEFINE type == gate[g].type
<1>2. /\ data[g].first \in 0..2 /\ data[g].second \in 0..2
      /\ type \in Match!Types
  BY <1>1 DEF Match!GateSpecs, Match!Data, Match!Truth, Match!No, Match!Yes
<1>3. ASSUME NEW v \in 0..2, NEW w \in 0..2
      PROVE  /\ Match!Min({v, w}) \in {v, w}
             /\ Match!Min({v, w}) = 2 <=> v = 2 /\ w = 2
  BY Extremes DEF Match!Truth, Match!No, Match!Yes
<1> USE DEF Match!Truth, Match!No, Match!Null, Match!Yes, Match!Predicate, Match!Met
<1>4. CASE type \in {"range", "selfrange"}
  <2>1. \A bound \in 0..2 :
           /\ Match!WithinBound(g, bound) \in 0..2
           /\ Match!WithinBound(g, bound) = 2 <=>
                \/ bound = 1
                \/ bound = 2 /\ (Match!Compares(g) => ~Match!IsNull(g, "parameter"))
    BY <1>4 DEF Match!WithinBound, Match!Compares
  <2> QED
    BY <1>2, <1>3, <1>4, <2>1 DEF Match!InRange
<1>5. CASE type = "temporalrange"
  BY <1>2, <1>3, <1>5 DEF Match!BetweenParameters
<1>6. CASE type = "exclusion"
  BY <1>2, <1>6 DEF Match!NotExcluded
<1>7. CASE type \in Match!Types \ {"range", "selfrange", "temporalrange", "exclusion"}
  BY <1>2, <1>7 DEF Match!Comparison
<1> QED
  BY <1>2, <1>4, <1>5, <1>6, <1>7

\* The null branch of a gate lets a null through exactly if the gate excuses it.
LEMMA NullsAreExcused ==
    ASSUME GatesTyped, NEW g \in DOMAIN gate, NEW value \in Match!Truth
    PROVE  /\ Match!Wrapped(g, value) \in Match!Truth
           /\ Match!Wrapped(g, value) = Match!Yes <=>
                Match!Excused(g) \/ (~Match!NullNamed(g) /\ value = Match!Yes)
<1>1. gate[g].nullbehavior \in {"pass", "fail"}
  BY DEF GatesTyped, Match!GateSpecs
<1> QED
  BY <1>1 DEF Match!Wrapped, Match!Excused, Match!NullBehavior, Match!Truth, Match!No,
              Match!Yes

\* The fragment of a gate is made of those of its subgates, at the depth below.
LEMMA ValueUnfolds ==
    ASSUME GatesTyped, MaxDepth \in Nat
    PROVE  /\ Match!Value \in [0..MaxDepth -> [DOMAIN gate -> 0..2]]
           /\ \A d \in 0..MaxDepth, g \in DOMAIN gate :
                Match!Value[d][g] =
                    Match!Wrapped(g,
                        IF gate[g].type # "composite" THEN Match!Predicate(g)
                        ELSE IF d = 0 /\ Match!Subgates(g) # {} THEN 1
                        ELSE Match!Combined(gate[g].logic,
                                 {Match!Value[d - 1][s] : s \in Match!Subgates(g)}))
<1> DEFINE G == DOMAIN gate
           V == [G -> 0..2]
           Fragment(g, values) ==
               Match!Wrapped(g,
                   IF gate[g].type # "composite" THEN Match!Predicate(g)
                   ELSE Match!Combined(gate[g].logic, values))
           Deepest(g) ==
               Match!Wrapped(g,
                   IF gate[g].type # "composite" THEN Match!Predicate(g)
                   ELSE IF Match!Subgates(g) # {} THEN 1
                   ELSE Match!Combined(gate[g].logic, {}))
           Level(v) == [g \in G |-> Fragment(g, {v[s] : s \in Match!Subgates(g)})]
           first == [g \in G |-> Deepest(g)]
           following == [v \in V |-> Level(v)]
           Body(f, d) ==
               [g \in G |->
                   Match!Wrapped(g,
                        IF gate[g].type # "composite" THEN Match!Predicate(g)
                        ELSE IF d = 0 /\ Match!Subgates(g) # {} THEN Match!Null
                        ELSE Match!Combined(gate[g].logic,
                                 {f[d - 1][s] : s \in Match!Subgates(g)}))]
           Rec(f) == f = [d \in 0..MaxDepth |-> Body(f, d)]
<1>1. Match!Value = CHOOSE f : Rec(f)
  BY DEF Match!Value
<1>2. \A g \in G : Match!Subgates(g) \subseteq G
  BY DEF Match!Subgates
<1>3. \A g \in G, S \in SUBSET (0..2) : Fragment(g, S) \in 0..2
  BY PredicateIsMet, NullsAreExcused, CombinedValues, TruthValues
<1>4. \A g \in G : Deepest(g) \in 0..2
  BY PredicateIsMet, NullsAreExcused, CombinedValues, TruthValues
<1>5. \A v \in V, g \in G : {v[s] : s \in Match!Subgates(g)} \in SUBSET (0..2)
  BY <1>2
<1> HIDE DEF Fragment, Deepest
<1>6. \A v \in V : Level(v) \in V
  BY <1>3, <1>5
<1>7. first \in V /\ following \in [V -> V]
  <2>1. first \in V
    BY <1>4
  <2> HIDE DEF V, Level
  <2>2. following \in [V -> V]
    BY <1>6
  <2> QED
    BY <2>1, <2>2
<1>8. PICK f \in [0..MaxDepth -> V] :
         Iterates(f, first, following, MaxDepth)
  <2> HIDE DEF V, first, following
  <2> QED
    BY <1>7, IterationExists
<1>9. \A d \in 1..MaxDepth : f[d] = Level(f[d - 1])
  <2>1. \A d \in 1..MaxDepth : f[d - 1] \in V
    BY <1>8
  <2>2. \A v \in V : following[v] = Level(v)
    <3> HIDE DEF V, Level
    <3> QED
      OBVIOUS
  <2> HIDE DEF V, Level, following
  <2> QED
    BY <1>8, <2>1, <2>2 DEF Iterates
<1>10. Rec(f)
  <2>1. f[0] = Body(f, 0)
    <3>1. \A g \in G : Match!Subgates(g) = {} =>
             {f[0 - 1][s] : s \in Match!Subgates(g)} = {}
      OBVIOUS
    <3>2. ASSUME NEW g \in G PROVE Deepest(g) = Body(f, 0)[g]
      BY <3>1, TruthValues DEF Deepest
    <3> QED
      BY <1>8, <3>2 DEF Iterates
  <2>2. \A d \in 1..MaxDepth : f[d] = Body(f, d)
    <3>1. \A d \in 1..MaxDepth : Level(f[d - 1]) = Body(f, d)
      BY DEF Fragment
    <3> QED
      BY <1>9, <3>1
  <2>3. \A d \in 0..MaxDepth : f[d] = Body(f, d)
    <3>1. \A d \in 0..MaxDepth : d = 0 \/ d \in 1..MaxDepth
      OBVIOUS
    <3> HIDE DEF Body
    <3> QED
      BY <2>1, <2>2, <3>1
  <2> HIDE DEF Body
  <2>4. f = [d \in 0..MaxDepth |-> f[d]]
    BY <1>8
  <2> QED
    BY <2>3, <2>4
<1> HIDE DEF Rec
<1>11. Rec(Match!Value)
  BY <1>1, <1>10
<1>12. /\ Match!Value = [d \in 0..MaxDepth |-> Match!Value[d]]
       /\ \A d \in 0..MaxDepth : Match!Value[d] = Body(Match!Value, d)
  <2> HIDE DEF Body
  <2> QED
    BY <1>11 DEF Rec
<1>13. Match!Value[0] = first
  <2>1. \A g \in G : Match!Subgates(g) = {} =>
           {Match!Value[0 - 1][s] : s \in Match!Subgates(g)} = {}
    OBVIOUS
  <2>2. \A g \in G : Body(Match!Value, 0)[g] = Deepest(g)
    BY <2>1, TruthValues DEF Deepest
  <2>3. Match!Value[0] = Body(Match!Value, 0)
    <3> HIDE DEF Body
    <3> QED
      BY <1>12
  <2> QED
    BY <2>2, <2>3
<1>14. \A d \in 1..MaxDepth : Match!Value[d] = Level(Match!Value[d - 1])
  <2>1. \A d \in 1..MaxDepth : Body(Match!Value, d) = Level(Match!Value[d - 1])
    BY DEF Fragment
  <2>2. \A d \in 1..MaxDepth : Match!Value[d] = Body(Match!Value, d)
    <3> HIDE DEF Body
    <3> QED
      BY <1>12
  <2> QED
    BY <2>1, <2>2, Zenon
<1>15. Match!Value \in [0..MaxDepth -> V]
  <2> HIDE DEF V, Level, first
  <2> DEFINE S == {d \in 0..MaxDepth : Match!Value[d] \in V}
  <2>2. 0 \in S
    BY <1>7, <1>13
  <2>3. \A d \in 1..MaxDepth : d - 1 \in S => d \in S
    BY <1>6, <1>14
  <2>4. 0..MaxDepth \subseteq S
    <3> HIDE DEF S
    <3> QED
      BY <2>2, <2>3, UptoByInduction
  <2> QED
    BY <1>12, <2>4
<1>16. \A d \in 0..MaxDepth, g \in G : Match!Value[d][g] = Body(Match!Value, d)[g]
  <2> HIDE DEF Body
  <2> QED
    BY <1>12
<1>17. ASSUME NEW d \in 0..MaxDepth, NEW g \in G
       PROVE  Match!Value[d][g] =
                Match!Wrapped(g,
                    IF gate[g].type # "composite" THEN Match!Predicate(g)
                    ELSE IF d = 0 /\ Match!Subgates(g) # {} THEN 1
                    ELSE Match!Combined(gate[g].logic,
                             {Match!Value[d - 1][s] : s \in Match!Subgates(g)}))
  BY <1>16, TruthValues
<1> QED
  BY <1>15, <1>17

\* compile raises on a gate with a name it refuses and on a composite whose logic is
\* unknown or one of whose subgates raises, and at the deepest call it may make on
\* every composite over a gate.
LEMMA RaisesUnfolds ==
    ASSUME GatesTyped, MaxDepth \in Nat
    PROVE  /\ Match!Raises \in [0..MaxDepth -> [DOMAIN gate -> BOOLEAN]]
           /\ \A d \in 0..MaxDepth, g \in DOMAIN gate :
                Match!Raises[d][g] <=>
                    \/ ~gate[g].wellnamed
                    \/ /\ gate[g].type = "composite" /\ gate[g].subgates # {}
                       /\ \/ gate[g].logic = "other"
                          \/ \E s \in Match!Subgates(g) : d > 0 => Match!Raises[d - 1][s]
<1> DEFINE G == DOMAIN gate
           V == [G -> BOOLEAN]
           Deepest(g) ==
               \/ ~gate[g].wellnamed
               \/ /\ gate[g].type = "composite" /\ gate[g].subgates # {}
                  /\ gate[g].logic = "other" \/ Match!Subgates(g) # {}
           Level(v) ==
               [g \in G |->
                   \/ ~gate[g].wellnamed
                   \/ /\ gate[g].type = "composite" /\ gate[g].subgates # {}
                      /\ gate[g].logic = "other" \/ \E s \in Match!Subgates(g) : v[s]]
           first == [g \in G |-> Deepest(g)]
           following == [v \in V |-> Level(v)]
           Body(f, d) ==
               [g \in G |->
                   \/ ~gate[g].wellnamed
                   \/ /\ gate[g].type = "composite" /\ gate[g].subgates # {}
                      /\ \/ gate[g].logic = "other"
                         \/ \E s \in Match!Subgates(g) : d > 0 => f[d - 1][s]]
           Rec(f) == f = [d \in 0..MaxDepth |-> Body(f, d)]
<1>1. Match!Raises = CHOOSE f : Rec(f)
  BY DEF Match!Raises
<1>2. \A g \in G : Match!Subgates(g) \subseteq G
  BY DEF Match!Subgates
<1>3. \A v \in V : Level(v) \in V
  OBVIOUS
<1>4. first \in V /\ following \in [V -> V]
  <2>1. first \in V
    OBVIOUS
  <2> HIDE DEF V, Level
  <2>2. following \in [V -> V]
    BY <1>3
  <2> QED
    BY <2>1, <2>2
<1>5. PICK f \in [0..MaxDepth -> V] : Iterates(f, first, following, MaxDepth)
  <2> HIDE DEF V, first, following
  <2> QED
    BY <1>4, IterationExists
<1>6. \A d \in 1..MaxDepth : f[d] = Level(f[d - 1])
  <2>1. \A d \in 1..MaxDepth : f[d - 1] \in V
    BY <1>5
  <2>2. \A v \in V : following[v] = Level(v)
    <3> HIDE DEF V, Level
    <3> QED
      OBVIOUS
  <2> HIDE DEF V, Level, following
  <2> QED
    BY <1>5, <2>1, <2>2 DEF Iterates
<1>7. Rec(f)
  <2>1. f[0] = Body(f, 0)
    BY <1>5 DEF Iterates
  <2>2. \A d \in 1..MaxDepth : f[d] = Body(f, d)
    <3>1. \A d \in 1..MaxDepth : Level(f[d - 1]) = Body(f, d)
      OBVIOUS
    <3> HIDE DEF Body, Level
    <3> QED
      BY <1>6, <3>1
  <2> HIDE DEF Body
  <2>3. \A d \in 0..MaxDepth : f[d] = Body(f, d)
    <3>1. \A d \in 0..MaxDepth : d = 0 \/ d \in 1..MaxDepth
      OBVIOUS
    <3> QED
      BY <2>1, <2>2, <3>1
  <2>4. f = [d \in 0..MaxDepth |-> f[d]]
    BY <1>5
  <2> QED
    BY <2>3, <2>4
<1> HIDE DEF Rec
<1>8. Rec(Match!Raises)
  BY <1>1, <1>7
<1>9. /\ Match!Raises = [d \in 0..MaxDepth |-> Match!Raises[d]]
      /\ \A d \in 0..MaxDepth : Match!Raises[d] = Body(Match!Raises, d)
  <2> HIDE DEF Body
  <2> QED
    BY <1>8 DEF Rec
<1>10. Match!Raises[0] = first
  <2>1. Match!Raises[0] = Body(Match!Raises, 0)
    <3> HIDE DEF Body
    <3> QED
      BY <1>9
  <2>2. Body(Match!Raises, 0) = first
    OBVIOUS
  <2> QED
    BY <2>1, <2>2
<1>11. \A d \in 1..MaxDepth : Match!Raises[d] = Level(Match!Raises[d - 1])
  <2>1. \A d \in 1..MaxDepth : Body(Match!Raises, d) = Level(Match!Raises[d - 1])
    OBVIOUS
  <2>2. \A d \in 1..MaxDepth : Match!Raises[d] = Body(Match!Raises, d)
    <3> HIDE DEF Body
    <3> QED
      BY <1>9
  <2> QED
    BY <2>1, <2>2, Zenon
<1>12. Match!Raises \in [0..MaxDepth -> V]
  <2> HIDE DEF V, Level, first
  <2> DEFINE S == {d \in 0..MaxDepth : Match!Raises[d] \in V}
  <2>1. 0 \in S
    BY <1>4, <1>10
  <2>2. \A d \in 1..MaxDepth : d - 1 \in S => d \in S
    BY <1>3, <1>11
  <2>3. 0..MaxDepth \subseteq S
    <3> HIDE DEF S
    <3> QED
      BY <2>1, <2>2, UptoByInduction
  <2> QED
    BY <1>9, <2>3
<1>13. \A d \in 0..MaxDepth, g \in G : Match!Raises[d][g] = Body(Match!Raises, d)[g]
  <2> HIDE DEF Body
  <2> QED
    BY <1>9
<1> QED
  BY <1>12, <1>13

\* A fragment cannot be run if that of the gate or of one of its subgates cannot.
LEMMA HoldsNotRunUnfolds ==
    ASSUME GatesTyped, MaxDepth \in Nat
    PROVE  /\ Match!HoldsNotRun \in [0..MaxDepth -> [DOMAIN gate -> BOOLEAN]]
           /\ \A d \in 0..MaxDepth, g \in DOMAIN gate :
                Match!HoldsNotRun[d][g] <=>
                    \/ Match!NotRun(g)
                    \/ \E s \in Match!Subgates(g) : d > 0 /\ Match!HoldsNotRun[d - 1][s]
<1> DEFINE G == DOMAIN gate
           V == [G -> BOOLEAN]
           Deepest(g) ==
               Match!NotRun(g)
           Level(v) ==
               [g \in G |->
                   Match!NotRun(g) \/ \E s \in Match!Subgates(g) : v[s]]
           first == [g \in G |-> Deepest(g)]
           following == [v \in V |-> Level(v)]
           Body(f, d) ==
               [g \in G |->
                   \/ Match!NotRun(g)
                   \/ \E s \in Match!Subgates(g) : d > 0 /\ f[d - 1][s]]
           Rec(f) == f = [d \in 0..MaxDepth |-> Body(f, d)]
<1>0. \A h, g : Match!NotRun(g) =
         (\/ Match!NotRun(g)
          \/ \E s \in Match!Subgates(g) : 0 > 0 /\ h[0 - 1][s])
  <2>1. \A g : Match!NotRun(g) \in BOOLEAN
    BY DEF Match!NotRun
  <2>2. ~(0 > 0)
    OBVIOUS
  <2> QED
    BY <2>1, <2>2
<1>1. Match!HoldsNotRun = CHOOSE f : Rec(f)
  BY DEF Match!HoldsNotRun
<1>2. \A g \in G : Match!Subgates(g) \subseteq G
  BY DEF Match!Subgates
<1>3. \A v \in V : Level(v) \in V
  OBVIOUS
<1>4. first \in V /\ following \in [V -> V]
  <2>1. first \in V
    BY DEF Match!NotRun
  <2> HIDE DEF V, Level
  <2>2. following \in [V -> V]
    BY <1>3
  <2> QED
    BY <2>1, <2>2
<1>5. PICK f \in [0..MaxDepth -> V] : Iterates(f, first, following, MaxDepth)
  <2> HIDE DEF V, first, following
  <2> QED
    BY <1>4, IterationExists
<1>6. \A d \in 1..MaxDepth : f[d] = Level(f[d - 1])
  <2>1. \A d \in 1..MaxDepth : f[d - 1] \in V
    BY <1>5
  <2>2. \A v \in V : following[v] = Level(v)
    <3> HIDE DEF V, Level
    <3> QED
      OBVIOUS
  <2> HIDE DEF V, Level, following
  <2> QED
    BY <1>5, <2>1, <2>2 DEF Iterates
<1>7. Rec(f)
  <2>1. f[0] = Body(f, 0)
    <3>1. first = Body(f, 0)
      BY <1>0
    <3> HIDE DEF Body, first
    <3> QED
      BY <1>5, <3>1 DEF Iterates
  <2>2. \A d \in 1..MaxDepth : f[d] = Body(f, d)
    <3>1. ASSUME NEW d \in 1..MaxDepth PROVE Level(f[d - 1]) = Body(f, d)
      <4>1. \A g \in G : (\E s \in Match!Subgates(g) : d > 0 /\ f[d - 1][s])
                         <=> \E s \in Match!Subgates(g) : f[d - 1][s]
        OBVIOUS
      <4> QED
        BY <4>1, Zenon
    <3> HIDE DEF Body, Level
    <3> QED
      BY <1>6, <3>1
  <2> HIDE DEF Body
  <2>3. \A d \in 0..MaxDepth : f[d] = Body(f, d)
    <3>1. \A d \in 0..MaxDepth : d = 0 \/ d \in 1..MaxDepth
      OBVIOUS
    <3> QED
      BY <2>1, <2>2, <3>1
  <2>4. f = [d \in 0..MaxDepth |-> f[d]]
    BY <1>5
  <2> QED
    BY <2>3, <2>4
<1> HIDE DEF Rec
<1>8. Rec(Match!HoldsNotRun)
  BY <1>1, <1>7
<1>9. /\ Match!HoldsNotRun = [d \in 0..MaxDepth |-> Match!HoldsNotRun[d]]
      /\ \A d \in 0..MaxDepth : Match!HoldsNotRun[d] = Body(Match!HoldsNotRun, d)
  <2> HIDE DEF Body
  <2> QED
    BY <1>8 DEF Rec
<1>10. Match!HoldsNotRun[0] = first
  <2>1. Match!HoldsNotRun[0] = Body(Match!HoldsNotRun, 0)
    <3> HIDE DEF Body
    <3> QED
      BY <1>9
  <2>2. Body(Match!HoldsNotRun, 0) = first
    BY <1>0
  <2> QED
    BY <2>1, <2>2
<1>11. \A d \in 1..MaxDepth : Match!HoldsNotRun[d] = Level(Match!HoldsNotRun[d - 1])
  <2>1. ASSUME NEW d \in 1..MaxDepth
        PROVE  Body(Match!HoldsNotRun, d) = Level(Match!HoldsNotRun[d - 1])
    <3>1. \A g \in G : (\E s \in Match!Subgates(g) : d > 0 /\ Match!HoldsNotRun[d - 1][s])
                       <=> \E s \in Match!Subgates(g) : Match!HoldsNotRun[d - 1][s]
      OBVIOUS
    <3> QED
      BY <3>1
  <2>2. \A d \in 1..MaxDepth : Match!HoldsNotRun[d] = Body(Match!HoldsNotRun, d)
    <3> HIDE DEF Body
    <3> QED
      BY <1>9
  <2> QED
    BY <2>1, <2>2, Zenon
<1>12. Match!HoldsNotRun \in [0..MaxDepth -> V]
  <2> HIDE DEF V, Level, first
  <2> DEFINE S == {d \in 0..MaxDepth : Match!HoldsNotRun[d] \in V}
  <2>1. 0 \in S
    BY <1>4, <1>10
  <2>2. \A d \in 1..MaxDepth : d - 1 \in S => d \in S
    BY <1>3, <1>11
  <2>3. 0..MaxDepth \subseteq S
    <3> HIDE DEF S
    <3> QED
      BY <2>1, <2>2, UptoByInduction
  <2> QED
    BY <1>9, <2>3
<1>13. \A d \in 0..MaxDepth, g \in G :
          Match!HoldsNotRun[d][g] = Body(Match!HoldsNotRun, d)[g]
  <2> HIDE DEF Body
  <2> QED
    BY <1>9
<1> QED
  BY <1>12, <1>13

\* A gate is satisfied if it excuses the candidate or is met, and a composite is met
\* as its subgates are satisfied.
LEMMA SatisfiedUnfolds ==
    ASSUME GatesTyped, MaxDepth \in Nat
    PROVE  /\ Match!Satisfied \in [0..MaxDepth -> [DOMAIN gate -> BOOLEAN]]
           /\ \A d \in 0..MaxDepth, g \in DOMAIN gate :
                Match!Satisfied[d][g] <=>
                    \/ Match!Excused(g)
                    \/ /\ ~Match!NullNamed(g)
                       /\ IF gate[g].type # "composite" THEN Match!Met(g)
                          ELSE IF gate[g].logic = "AND"
                          THEN \A s \in Match!Subgates(g) : d > 0 /\ Match!Satisfied[d - 1][s]
                          ELSE \/ Match!Subgates(g) = {}
                               \/ \E s \in Match!Subgates(g) : d > 0 /\ Match!Satisfied[d - 1][s]
<1> DEFINE G == DOMAIN gate
           V == [G -> BOOLEAN]
           Deepest(g) ==
               \/ Match!Excused(g)
               \/ /\ ~Match!NullNamed(g)
                  /\ IF gate[g].type # "composite" THEN Match!Met(g)
                     ELSE Match!Subgates(g) = {}
           Level(v) ==
               [g \in G |->
                   \/ Match!Excused(g)
                   \/ /\ ~Match!NullNamed(g)
                      /\ IF gate[g].type # "composite" THEN Match!Met(g)
                         ELSE IF gate[g].logic = "AND" THEN \A s \in Match!Subgates(g) : v[s]
                         ELSE Match!Subgates(g) = {} \/ \E s \in Match!Subgates(g) : v[s]]
           first == [g \in G |-> Deepest(g)]
           following == [v \in V |-> Level(v)]
           Body(f, d) ==
               [g \in G |->
                   \/ Match!Excused(g)
                   \/ /\ ~Match!NullNamed(g)
                      /\ IF gate[g].type # "composite" THEN Match!Met(g)
                         ELSE IF gate[g].logic = "AND"
                         THEN \A s \in Match!Subgates(g) : d > 0 /\ f[d - 1][s]
                         ELSE \/ Match!Subgates(g) = {}
                              \/ \E s \in Match!Subgates(g) : d > 0 /\ f[d - 1][s]]
           Rec(f) == f = [d \in 0..MaxDepth |-> Body(f, d)]
<1>1. Match!Satisfied = CHOOSE f : Rec(f)
  BY DEF Match!Satisfied
<1>2. \A g \in G : Match!Subgates(g) \subseteq G
  BY DEF Match!Subgates
<1>3. \A v \in V : Level(v) \in V
  OBVIOUS
<1>4. first \in V /\ following \in [V -> V]
  <2>1. first \in V
    OBVIOUS
  <2> HIDE DEF V, Level
  <2>2. following \in [V -> V]
    BY <1>3
  <2> QED
    BY <2>1, <2>2
<1>5. PICK f \in [0..MaxDepth -> V] : Iterates(f, first, following, MaxDepth)
  <2> HIDE DEF V, first, following
  <2> QED
    BY <1>4, IterationExists
<1>6. \A d \in 1..MaxDepth : f[d] = Level(f[d - 1])
  <2>1. \A d \in 1..MaxDepth : f[d - 1] \in V
    BY <1>5
  <2>2. \A v \in V : following[v] = Level(v)
    <3> HIDE DEF V, Level
    <3> QED
      OBVIOUS
  <2> HIDE DEF V, Level, following
  <2> QED
    BY <1>5, <2>1, <2>2 DEF Iterates
<1>7. Rec(f)
  <2>1. f[0] = Body(f, 0)
    BY <1>5 DEF Iterates
  <2>2. \A d \in 1..MaxDepth : f[d] = Body(f, d)
    <3>1. \A d \in 1..MaxDepth : Level(f[d - 1]) = Body(f, d)
      OBVIOUS
    <3> HIDE DEF Body, Level
    <3> QED
      BY <1>6, <3>1
  <2> HIDE DEF Body
  <2>3. \A d \in 0..MaxDepth : f[d] = Body(f, d)
    <3>1. \A d \in 0..MaxDepth : d = 0 \/ d \in 1..MaxDepth
      OBVIOUS
    <3> QED
      BY <2>1, <2>2, <3>1
  <2>4. f = [d \in 0..MaxDepth |-> f[d]]
    BY <1>5
  <2> QED
    BY <2>3, <2>4
<1> HIDE DEF Rec
<1>8. Rec(Match!Satisfied)
  BY <1>1, <1>7
<1>9. /\ Match!Satisfied = [d \in 0..MaxDepth |-> Match!Satisfied[d]]
      /\ \A d \in 0..MaxDepth : Match!Satisfied[d] = Body(Match!Satisfied, d)
  <2> HIDE DEF Body
  <2> QED
    BY <1>8 DEF Rec
<1>10. Match!Satisfied[0] = first
  <2>1. Match!Satisfied[0] = Body(Match!Satisfied, 0)
    <3> HIDE DEF Body
    <3> QED
      BY <1>9
  <2>2. Body(Match!Satisfied, 0) = first
    OBVIOUS
  <2> QED
    BY <2>1, <2>2
<1>11. \A d \in 1..MaxDepth : Match!Satisfied[d] = Level(Match!Satisfied[d - 1])
  <2>1. \A d \in 1..MaxDepth : Body(Match!Satisfied, d) = Level(Match!Satisfied[d - 1])
    OBVIOUS
  <2>2. \A d \in 1..MaxDepth : Match!Satisfied[d] = Body(Match!Satisfied, d)
    <3> HIDE DEF Body
    <3> QED
      BY <1>9
  <2> QED
    BY <2>1, <2>2, Zenon
<1>12. Match!Satisfied \in [0..MaxDepth -> V]
  <2> HIDE DEF V, Level, first
  <2> DEFINE S == {d \in 0..MaxDepth : Match!Satisfied[d] \in V}
  <2>1. 0 \in S
    BY <1>4, <1>10
  <2>2. \A d \in 1..MaxDepth : d - 1 \in S => d \in S
    BY <1>3, <1>11
  <2>3. 0..MaxDepth \subseteq S
    <3> HIDE DEF S
    <3> QED
      BY <2>1, <2>2, UptoByInduction
  <2> QED
    BY <1>9, <2>3
<1>13. \A d \in 0..MaxDepth, g \in G : Match!Satisfied[d][g] = Body(Match!Satisfied, d)[g]
  <2> HIDE DEF Body
  <2> QED
    BY <1>9
<1> QED
  BY <1>12, <1>13

\* Three truth values and two agree on every fragment that compiles.
LEMMA FragmentsAgree ==
    ASSUME GatesTyped, MaxDepth \in Nat
    PROVE  \A d \in 0..MaxDepth, g \in DOMAIN gate :
             ~Match!Raises[d][g] => (Match!Value[d][g] = 2 <=> Match!Satisfied[d][g])
<1> DEFINE Agrees(d) ==
             \A g \in DOMAIN gate :
                ~Match!Raises[d][g] => (Match!Value[d][g] = 2 <=> Match!Satisfied[d][g])
           S == {d \in 0..MaxDepth : Agrees(d)}
<1>1. ASSUME NEW d \in 0..MaxDepth, d > 0 => Agrees(d - 1),
             NEW g \in DOMAIN gate, ~Match!Raises[d][g]
      PROVE  Match!Value[d][g] = 2 <=> Match!Satisfied[d][g]
  <2> DEFINE below == {Match!Value[d - 1][s] : s \in Match!Subgates(g)}
  <2>1. gate[g].logic \in {"AND", "OR", "other"}
    BY DEF GatesTyped, Match!GateSpecs
  <2>2. Match!Subgates(g) \subseteq DOMAIN gate
    BY DEF Match!Subgates
  <2>3. CASE gate[g].type # "composite"
    <3>1. Match!Value[d][g] = Match!Wrapped(g, Match!Predicate(g))
      BY <2>3, ValueUnfolds
    <3>2. Match!Satisfied[d][g] <=>
            Match!Excused(g) \/ (~Match!NullNamed(g) /\ Match!Met(g))
      BY <2>3, SatisfiedUnfolds
    <3> QED
      BY <2>3, <3>1, <3>2, PredicateIsMet, NullsAreExcused, TruthValues
  <2>4. CASE gate[g].type = "composite" /\ Match!Subgates(g) = {}
    <3>1. below = {}
      BY <2>4
    <3>2. Match!Value[d][g] = Match!Wrapped(g, Match!Combined(gate[g].logic, below))
      BY <2>4, ValueUnfolds
    <3>3. Match!Combined(gate[g].logic, below) = 2
      BY <3>1, TruthValues DEF Match!Combined
    <3>4. Match!Satisfied[d][g] <=> Match!Excused(g) \/ ~Match!NullNamed(g)
      BY <2>4, SatisfiedUnfolds
    <3> HIDE DEF below
    <3> QED
      BY <3>2, <3>3, <3>4, NullsAreExcused, TruthValues
  <2>5. CASE gate[g].type = "composite" /\ Match!Subgates(g) # {}
    <3>1. gate[g].subgates # {}
      BY <2>5 DEF Match!Subgates
    <3>2. /\ gate[g].logic # "other"
          /\ d > 0 /\ \A s \in Match!Subgates(g) : ~Match!Raises[d - 1][s]
      BY <1>1, <2>5, <3>1, RaisesUnfolds
    <3>3. \A s \in Match!Subgates(g) :
             /\ Match!Value[d - 1][s] \in 0..2
             /\ Match!Value[d - 1][s] = 2 <=> Match!Satisfied[d - 1][s]
      BY <1>1, <2>2, <3>2, ValueUnfolds
    <3>4. Match!Value[d][g] = Match!Wrapped(g, Match!Combined(gate[g].logic, below))
      <4>1. d # 0
        BY <3>2
      <4> QED
        BY <2>5, <4>1, ValueUnfolds
    <3>5. below \in SUBSET (0..2) /\ below # {}
      BY <2>5, <3>3
    <3>6. /\ (\A v \in below : v = 2) <=>
               \A s \in Match!Subgates(g) : Match!Satisfied[d - 1][s]
          /\ 2 \in below <=> \E s \in Match!Subgates(g) : Match!Satisfied[d - 1][s]
      BY <3>3
    <3>7. Match!Satisfied[d][g] <=>
            \/ Match!Excused(g)
            \/ /\ ~Match!NullNamed(g)
               /\ IF gate[g].logic = "AND"
                  THEN \A s \in Match!Subgates(g) : Match!Satisfied[d - 1][s]
                  ELSE \E s \in Match!Subgates(g) : Match!Satisfied[d - 1][s]
      BY <2>5, <3>2, SatisfiedUnfolds
    <3> HIDE DEF below
    <3>8. /\ Match!Combined(gate[g].logic, below) \in 0..2
          /\ Match!Combined(gate[g].logic, below) = 2 <=>
               IF gate[g].logic = "AND"
               THEN \A s \in Match!Subgates(g) : Match!Satisfied[d - 1][s]
               ELSE \E s \in Match!Subgates(g) : Match!Satisfied[d - 1][s]
      BY <3>5, <3>6, CombinedValues
    <3> QED
      BY <3>4, <3>7, <3>8, NullsAreExcused, TruthValues
  <2> QED
    BY <2>3, <2>4, <2>5
<1>2. 0 \in S
  <2>1. 0 \in 0..MaxDepth /\ ~(0 > 0)
    OBVIOUS
  <2> HIDE DEF Agrees
  <2>2. Agrees(0)
    BY <1>1, <2>1 DEF Agrees
  <2> QED
    BY <2>1, <2>2
<1>3. \A d \in 1..MaxDepth : d - 1 \in S => d \in S
  BY <1>1
<1>4. 0..MaxDepth \subseteq S
  <2> HIDE DEF S
  <2> QED
    BY <1>2, <1>3, UptoByInduction
<1> QED
  BY <1>4

\* The clause that compile_all_gates returns is the conjunction of its gates.
LEMMA ClauseAdmitsExactly ==
    ASSUME GatesTyped, MaxDepth \in Nat, ~Match!Raised
    PROVE  Match!WhereClause = Match!Yes <=>
             \A g \in Match!InForce : Match!Satisfied[MaxDepth][g]
<1> DEFINE values == {Match!Yes} \cup {Match!Value[MaxDepth][g] : g \in Match!InForce}
<1>1. Match!InForce \subseteq DOMAIN gate
  BY DEF Match!InForce
<1>2. MaxDepth \in 0..MaxDepth
  OBVIOUS
<1>3. \A g \in Match!InForce :
         /\ Match!Value[MaxDepth][g] \in 0..2
         /\ Match!Value[MaxDepth][g] = 2 <=> Match!Satisfied[MaxDepth][g]
  BY <1>1, <1>2, FragmentsAgree, ValueUnfolds DEF Match!Raised
<1>4. values \in SUBSET (0..2) /\ values # {}
  BY <1>3, TruthValues
<1>5. (\A v \in values : v = 2) <=> \A g \in Match!InForce : Match!Satisfied[MaxDepth][g]
  BY <1>3, TruthValues
<1> HIDE DEF values
<1> QED
  BY <1>4, <1>5, Extremes, TruthValues DEF Match!WhereClause, values

\* The gates that some gates lead to through subgates: they are among them, so
\* are the subgates of each, and no smaller set of gates has both.
LEMMA WithinLeast ==
    ASSUME NEW S \in SUBSET DOMAIN gate
    PROVE  /\ S \subseteq Match!Within(S) /\ Match!Within(S) \subseteq DOMAIN gate
           /\ \A x \in Match!Within(S) : Match!Subgates(x) \subseteq Match!Within(S)
           /\ \A T \in SUBSET DOMAIN gate :
                S \subseteq T /\ (\A x \in T : Match!Subgates(x) \subseteq T)
                    => Match!Within(S) \subseteq T
<1>1. S \subseteq Match!Within(S) /\ Match!Within(S) \subseteq DOMAIN gate
  BY DEF Match!Within
<1>2. \A T \in SUBSET DOMAIN gate :
         S \subseteq T /\ (\A x \in T : Match!Subgates(x) \subseteq T)
            => Match!Within(S) \subseteq T
  BY DEF Match!Within
<1>3. ASSUME NEW x \in Match!Within(S), NEW y \in Match!Subgates(x)
      PROVE  y \in Match!Within(S)
  <2>1. y \in DOMAIN gate
    BY DEF Match!Subgates
  <2>2. ASSUME NEW T \in SUBSET DOMAIN gate, S \subseteq T,
               \A z \in T : Match!Subgates(z) \subseteq T
        PROVE  y \in T
    BY <1>2, <2>2
  <2> QED
    BY <2>1, <2>2 DEF Match!Within
<1> QED
  BY <1>1, <1>2, <1>3

\* Names that no gate has are skipped.
LEMMA SubgatesAreGates ==
    \A g \in DOMAIN gate :
        /\ Match!Subgates(g) \subseteq DOMAIN gate
        /\ Match!Subgates(g) # {} =>
             gate[g].type = "composite" /\ gate[g].subgates # {}
  BY DEF Match!Subgates

\* The gates of the clause are gates.
LEMMA InForceAreGates == Match!InForce \in SUBSET DOMAIN gate
  BY DEF Match!InForce

\* Where compile returns at some depth, the names and the logic are accepted, and it
\* returned at a lower depth for each subgate.
LEMMA ReturnsBelow ==
    ASSUME GatesTyped, MaxDepth \in Nat, NEW d \in 0..MaxDepth, NEW g \in DOMAIN gate,
           ~Match!Raises[d][g]
    PROVE  /\ gate[g].wellnamed
           /\ gate[g].type = "composite" /\ gate[g].subgates # {} =>
                gate[g].logic # "other"
           /\ \A s \in Match!Subgates(g) :
                /\ d - 1 \in 0..MaxDepth
                /\ ~Match!Raises[d - 1][s]
<1>1. \A s \in Match!Subgates(g) : d > 0 /\ ~Match!Raises[d - 1][s]
  BY RaisesUnfolds, SubgatesAreGates
<1>2. d > 0 => d - 1 \in 0..MaxDepth
  OBVIOUS
<1> QED
  BY <1>1, <1>2, RaisesUnfolds

\* A gate that is among its own subgates does not compile.
LEMMA CyclesRaise ==
    ASSUME GatesTyped, MaxDepth \in Nat, NEW g \in DOMAIN gate,
           g \in Match!Within(Match!Subgates(g)), NEW d \in 0..MaxDepth
    PROVE  Match!Raises[d][g]
<1> SUFFICES ASSUME ~Match!Raises[d][g] PROVE FALSE
  OBVIOUS
<1> DEFINE D == {e \in 0..MaxDepth : ~Match!Raises[e][g]}
<1>1. PICK m \in D : \A k \in D : m <= k
  <2>1. D \in SUBSET Nat /\ d \in D
    OBVIOUS
  <2> HIDE DEF D
  <2> QED
    BY <2>1, LeastNumber
<1> DEFINE T == {x \in DOMAIN gate : \E e \in 0..MaxDepth : e < m /\ ~Match!Raises[e][x]}
<1>2. Match!Subgates(g) \subseteq T
  <2>1. \A s \in Match!Subgates(g) :
           m - 1 \in 0..MaxDepth /\ m - 1 < m /\ ~Match!Raises[m - 1][s]
    BY ReturnsBelow
  <2> QED
    BY <2>1, SubgatesAreGates
<1>3. ASSUME NEW x \in T, NEW s \in Match!Subgates(x) PROVE s \in T
  <2>1. PICK e \in 0..MaxDepth : e < m /\ ~Match!Raises[e][x]
    OBVIOUS
  <2>2. e - 1 \in 0..MaxDepth /\ ~Match!Raises[e - 1][s]
    BY <2>1, ReturnsBelow
  <2>3. e - 1 < m
    BY <2>1
  <2> QED
    BY <2>2, <2>3, SubgatesAreGates
<1>4. g \in T
  <2>1. T \in SUBSET DOMAIN gate
    OBVIOUS
  <2> HIDE DEF T
  <2>2. Match!Subgates(g) \in SUBSET DOMAIN gate
    BY SubgatesAreGates
  <2> QED
    BY <1>2, <1>3, <2>1, <2>2, WithinLeast
<1>5. PICK e \in 0..MaxDepth : e < m /\ ~Match!Raises[e][g]
  BY <1>4
<1>6. e \in D
  BY <1>5
<1> QED
  BY <1>1, <1>5, <1>6

\* If all gates of the clause are well formed, a gate that does not compile at
\* some depth leads to more gates than that.
LEMMA RaisingIsDeep ==
    ASSUME GatesTyped, MaxDepth \in Nat, IsFiniteSet(Names),
           \A g \in Match!InClause : ~Match!Malformed(g)
    PROVE  \A d \in 0..MaxDepth, g \in Match!InClause :
             Match!Raises[d][g] => Cardinality(Match!Within(Match!Subgates(g))) > d
<1> DEFINE Below(g) == Match!Within(Match!Subgates(g))
           Deep(d) == \A g \in Match!InClause :
                         Match!Raises[d][g] => Cardinality(Below(g)) > d
           S == {d \in 0..MaxDepth : Deep(d)}
<1>1. /\ Match!InClause \subseteq DOMAIN gate
      /\ \A g \in Match!InClause : Match!Subgates(g) \subseteq Match!InClause
  BY InForceAreGates, WithinLeast DEF Match!InClause
<1>2. \A g \in Match!InClause :
         /\ Match!Subgates(g) \in SUBSET DOMAIN gate
         /\ Below(g) \subseteq DOMAIN gate /\ Match!Subgates(g) \subseteq Below(g)
         /\ IsFiniteSet(Below(g)) /\ Cardinality(Below(g)) \in Nat
  <2>1. \A g \in Match!InClause :
           /\ Match!Subgates(g) \in SUBSET DOMAIN gate
           /\ Below(g) \subseteq DOMAIN gate /\ Match!Subgates(g) \subseteq Below(g)
    BY <1>1, SubgatesAreGates, WithinLeast
  <2>2. \A g \in Match!InClause : Below(g) \in SUBSET Names
    BY <2>1 DEF GatesTyped
  <2> HIDE DEF Below
  <2>3. \A g \in Match!InClause : IsFiniteSet(Below(g))
    BY <2>2, FS_Subset
  <2> QED
    BY <2>1, <2>3, FS_CardinalityType
<1>3. ASSUME NEW d \in 0..MaxDepth, d > 0 => Deep(d - 1),
             NEW g \in Match!InClause, Match!Raises[d][g]
      PROVE  Cardinality(Below(g)) > d
  <2>1. /\ gate[g].type = "composite"
        /\ \E s \in Match!Subgates(g) : d > 0 => Match!Raises[d - 1][s]
    BY <1>1, <1>3, RaisesUnfolds DEF Match!Malformed
  <2>2. PICK s \in Match!Subgates(g) : d > 0 => Match!Raises[d - 1][s]
    BY <2>1
  <2>3. s \in Match!InClause /\ s \in Below(g)
    BY <1>1, <1>2
  <2>4. CASE d = 0
    <3>1. Below(g) # {}
      BY <2>3
    <3> HIDE DEF Below
    <3>2. Cardinality(Below(g)) # 0
      BY <1>2, <3>1, FS_EmptySet
    <3> QED
      BY <1>2, <2>4, <3>2
  <2>5. CASE d > 0
    <3>1. Cardinality(Below(s)) > d - 1
      BY <1>3, <2>2, <2>3, <2>5
    <3>2. gate[s].type = "composite"
      BY <1>1, <1>3, <2>2, <2>3, <2>5, RaisesUnfolds DEF Match!Malformed
    <3>3. s \notin Below(s)
      BY <2>3, <3>2 DEF Match!Malformed
    <3>4. Below(s) \subseteq Below(g)
      <4>1. \A x \in Below(g) : Match!Subgates(x) \subseteq Below(g)
        BY <1>2, WithinLeast
      <4>2. Match!Subgates(s) \subseteq Below(g) /\ Below(g) \in SUBSET DOMAIN gate
        BY <1>2, <2>3, <4>1
      <4>3. Match!Subgates(s) \in SUBSET DOMAIN gate
        BY <1>2, <2>3
      <4> QED
        BY <4>1, <4>2, <4>3, WithinLeast
    <3> HIDE DEF Below
    <3>5. Below(s) \in SUBSET (Below(g) \ {s})
      BY <3>3, <3>4
    <3>6. /\ IsFiniteSet(Below(g) \ {s})
          /\ Cardinality(Below(g) \ {s}) = Cardinality(Below(g)) - 1
      BY <1>2, <2>3, FS_RemoveElement
    <3>7. Cardinality(Below(s)) <= Cardinality(Below(g) \ {s})
      BY <3>5, <3>6, FS_Subset
    <3> QED
      BY <1>2, <2>3, <3>1, <3>6, <3>7
  <2> QED
    BY <2>4, <2>5
<1>4. 0 \in S
  <2>1. 0 \in 0..MaxDepth /\ ~(0 > 0)
    OBVIOUS
  <2> HIDE DEF Below
  <2>2. Deep(0)
    BY <1>3, <2>1
  <2> QED
    BY <2>1, <2>2
<1>5. \A d \in 1..MaxDepth : d - 1 \in S => d \in S
  <2> HIDE DEF Below
  <2> QED
    BY <1>3
<1>6. 0..MaxDepth \subseteq S
  <2> HIDE DEF S
  <2> QED
    BY <1>4, <1>5, UptoByInduction
<1> QED
  BY <1>6

\* Fewer gates than nested calls of compile: Python allows hundreds of those,
\* so that only a cycle of subgates uses them up.
ShallowNesting == Cardinality(Names) <= MaxDepth + 1

\* compile_all_gates raises exactly if a gate of the clause is malformed.
LEMMA RaisedExactly ==
    ASSUME GatesTyped, MaxDepth \in Nat, IsFiniteSet(Names), ShallowNesting
    PROVE  Match!Raised <=> \E g \in Match!InClause : Match!Malformed(g)
<1>1. /\ Match!InForce \subseteq Match!InClause
      /\ Match!InClause \subseteq DOMAIN gate
  BY InForceAreGates, WithinLeast DEF Match!InClause
<1>2. ASSUME \A g \in Match!InClause : ~Match!Malformed(g),
             NEW g \in Match!InForce, Match!Raises[MaxDepth][g]
      PROVE  FALSE
  <2> DEFINE below == Match!Within(Match!Subgates(g))
  <2>1. g \in DOMAIN gate /\ g \in Match!InClause /\ MaxDepth \in 0..MaxDepth
    BY <1>1
  <2>2. Cardinality(below) > MaxDepth
    BY <1>2, <2>1, RaisingIsDeep
  <2>3. g \notin below
    BY <1>2, <2>1, RaisesUnfolds DEF Match!Malformed
  <2>4. below \subseteq DOMAIN gate
    BY <2>1, SubgatesAreGates, WithinLeast
  <2> HIDE DEF below
  <2>5. below \in SUBSET (Names \ {g}) /\ g \in Names
    BY <2>1, <2>3, <2>4 DEF GatesTyped
  <2>6. /\ IsFiniteSet(Names \ {g})
        /\ Cardinality(Names \ {g}) = Cardinality(Names) - 1
    BY <2>5, FS_RemoveElement
  <2>7. IsFiniteSet(below) /\ Cardinality(below) <= Cardinality(Names \ {g})
    BY <2>5, <2>6, FS_Subset
  <2>8. Cardinality(below) \in Nat /\ Cardinality(Names) \in Nat
    BY <2>7, FS_CardinalityType
  <2> QED
    BY <2>2, <2>6, <2>7, <2>8 DEF ShallowNesting
<1>3. ASSUME ~Match!Raised, NEW g \in Match!InClause PROVE ~Match!Malformed(g)
  <2> DEFINE T == {x \in DOMAIN gate : \E d \in 0..MaxDepth : ~Match!Raises[d][x]}
  <2>1. Match!InForce \subseteq T
    BY <1>1, <1>3 DEF Match!Raised
  <2>2. \A x \in T : Match!Subgates(x) \subseteq T
    BY ReturnsBelow, SubgatesAreGates
  <2>3. g \in T
    <3>1. T \in SUBSET DOMAIN gate
      OBVIOUS
    <3> HIDE DEF T
    <3> QED
      BY <2>1, <2>2, <3>1, InForceAreGates, WithinLeast DEF Match!InClause
  <2>4. PICK d \in 0..MaxDepth : ~Match!Raises[d][g]
    BY <2>3
  <2> QED
    BY <1>1, <2>4, ReturnsBelow, CyclesRaise DEF Match!Malformed
<1> QED
  BY <1>2, <1>3 DEF Match!Raised

\* The query of a clause that compiles fails exactly if a gate of the clause is a
\* traversal or refers to a parameter that the query does not have.
LEMMA NotRunExactly ==
    ASSUME GatesTyped, MaxDepth \in Nat, ~Match!Raised
    PROVE  Match!Unanswerable <=> \E g \in Match!InClause : Match!NotRun(g)
<1>1. /\ Match!InForce \subseteq Match!InClause
      /\ Match!InClause \subseteq DOMAIN gate
      /\ \A g \in Match!InClause : Match!Subgates(g) \subseteq Match!InClause
  BY InForceAreGates, WithinLeast DEF Match!InClause
<1>2. ASSUME \A g \in Match!InClause : ~Match!NotRun(g)
      PROVE  ~Match!Unanswerable
  <2> DEFINE AllGiven(d) == \A g \in Match!InClause : ~Match!HoldsNotRun[d][g]
             S == {d \in 0..MaxDepth : AllGiven(d)}
  <2>1. ASSUME NEW d \in 0..MaxDepth, d > 0 => AllGiven(d - 1)
        PROVE  AllGiven(d)
    BY <1>1, <1>2, <2>1, HoldsNotRunUnfolds
  <2>2. 0 \in S
    <3>1. 0 \in 0..MaxDepth /\ ~(0 > 0)
      OBVIOUS
    <3> HIDE DEF AllGiven
    <3> QED
      BY <2>1, <3>1
  <2>3. \A d \in 1..MaxDepth : d - 1 \in S => d \in S
    <3> HIDE DEF AllGiven
    <3> QED
      BY <2>1
  <2>4. 0..MaxDepth \subseteq S
    <3> HIDE DEF S
    <3> QED
      BY <2>2, <2>3, UptoByInduction
  <2> QED
    BY <1>1, <2>4 DEF Match!Unanswerable
<1>3. ASSUME ~Match!Unanswerable, NEW g \in Match!InClause
      PROVE  ~Match!NotRun(g)
  <2> DEFINE Answerable(d, x) == ~Match!Raises[d][x] /\ ~Match!HoldsNotRun[d][x]
             T == {x \in DOMAIN gate : \E d \in 0..MaxDepth : Answerable(d, x)}
  <2>1. Match!InForce \subseteq T
    BY <1>1, <1>3 DEF Match!Raised, Match!Unanswerable
  <2>2. ASSUME NEW x \in T, NEW s \in Match!Subgates(x) PROVE s \in T
    <3>1. PICK d \in 0..MaxDepth : Answerable(d, x)
      OBVIOUS
    <3>2. d - 1 \in 0..MaxDepth /\ ~Match!Raises[d - 1][s]
      BY <3>1, ReturnsBelow
    <3>3. ~Match!HoldsNotRun[d - 1][s]
      BY <3>1, <3>2, HoldsNotRunUnfolds
    <3> QED
      BY <3>2, <3>3, SubgatesAreGates
  <2>3. g \in T
    <3>1. T \in SUBSET DOMAIN gate
      OBVIOUS
    <3> HIDE DEF T
    <3> QED
      BY <2>1, <2>2, <3>1, InForceAreGates, WithinLeast DEF Match!InClause
  <2> QED
    BY <1>1, <2>3, HoldsNotRunUnfolds
<1> QED
  BY <1>2, <1>3

\* What a match comes to is what its gates and values say.
OutcomeExplained ==
    /\ outcome # "new" => (outcome = "error" <=> Match!Raised)
    /\ outcome = "failed" => Match!Unanswerable
    /\ outcome \in {"admitted", "rejected"} =>
         /\ ~Match!Unanswerable
         /\ outcome = "admitted" <=> Match!WhereClause = Match!Yes

\* A match changes neither the gates nor what they compare.
LEMMA GatesStay ==
    ASSUME UNCHANGED <<gate, data>>
    PROVE  /\ GatesTyped' <=> GatesTyped
           /\ Match!Raised' <=> Match!Raised
           /\ Match!Unanswerable' <=> Match!Unanswerable
           /\ (Match!WhereClause)' = Match!WhereClause
<1>1. GatesTyped' <=> GatesTyped
  BY DEF GatesTyped
<1>2. (Match!InForce)' = Match!InForce
  BY DEF Match!InForce
<1>3. (Match!Raises)' = Match!Raises
  BY DEF Match!Raises, Match!Subgates
<1>4. (Match!HoldsNotRun)' = Match!HoldsNotRun
  BY DEF Match!HoldsNotRun, Match!NotRun, Match!Lacks, Match!Compares, Match!Subgates
<1>5. (Match!Value)' = Match!Value
  BY DEF Match!Value, Match!Wrapped, Match!NullNamed, Match!IsNull, Match!NullBehavior,
         Match!Predicate, Match!InRange, Match!WithinBound, Match!BetweenParameters,
         Match!NotExcluded, Match!Comparison, Match!Compares,
         Match!Combined, Match!Subgates
<1> QED
  BY <1>1, <1>2, <1>3, <1>4, <1>5
  DEF Match!Raised, Match!Unanswerable, Match!WhereClause

\* A match is decided once, by what its clause comes to.
LEMMA MatchNext ==
    ASSUME GatesTyped, OutcomeExplained, [Match!Next]_(Match!vars)
    PROVE  GatesTyped' /\ OutcomeExplained'
<1>1. UNCHANGED <<gate, data>>
  BY DEF Match!Next, Match!CompileFails, Match!QueryFails, Match!Filter, Match!vars
<1>2. /\ GatesTyped' <=> GatesTyped
      /\ Match!Raised' <=> Match!Raised
      /\ Match!Unanswerable' <=> Match!Unanswerable
      /\ (Match!WhereClause)' = Match!WhereClause
  BY <1>1, GatesStay
<1>3. OutcomeExplained'
  BY <1>2
  DEF OutcomeExplained, Match!Next, Match!CompileFails, Match!QueryFails, Match!Filter,
      Match!vars, Match!Yes
<1> QED
  BY <1>2, <1>3

\* A behaviour of the match handler satisfies the invariant of its clause.
MatchInv == handler = "match" => GatesTyped /\ OutcomeExplained

\* A match has not been decided.
LEMMA MatchInit == HandlersInit => MatchInv
<1> SUFFICES ASSUME HandlersInit, handler = "match" PROVE GatesTyped /\ OutcomeExplained
  BY DEF MatchInv
<1>1. Match!Init
  BY DEF HandlersInit, MatchStarts, ResolutionStarts, FeedbackStarts,
         ScanStarts, AdminStarts
<1>2. PICK named \in SUBSET Names : gate \in [named -> Match!GateSpecs]
  BY <1>1 DEF Match!Init
<1>3. DOMAIN gate = named
  BY <1>2
<1> QED
  BY <1>1, <1>2, <1>3 DEF Match!Init, GatesTyped, OutcomeExplained

\* A match comes to what its clause comes to.
LEMMA MatchInvariance == HandlersSpec => []MatchInv
<1>1. MatchInv /\ [HandlersNext]_allVars => MatchInv'
  BY OneHandler, MatchNext DEF MatchInv
<1> QED
  BY <1>1, MatchInit, PTL DEF HandlersSpec

\* compile_all_gates admits exactly the candidates that satisfy every gate in force,
\* read with two truth values, for any domain spec, whatever its composites nest.
THEOREM AdmitsExactly == HandlersSpec => []AdmittedExactly
<1>1. MatchInv => AdmittedExactly
  BY ClauseAdmitsExactly, HandlersAssumption
  DEF MatchInv, OutcomeExplained, AdmittedExactly, Match!AdmittedExactly
<1> QED
  BY <1>1, MatchInvariance, PTL

\* A match raises exactly for a name, operator or logic that is not accepted or a
\* cycle of subgates, and is answered only if no gate of its clause is a traversal or
\* lacks a parameter, provided that a chain of distinct gates fits into the nested
\* calls that Python allows.
THEOREM FailuresHaveCauses ==
    ASSUME ShallowNesting
    PROVE  HandlersSpec => []FailureHasACause
<1>1. MatchInv => FailureHasACause
  BY RaisedExactly, NotRunExactly, HandlersAssumption
  DEF MatchInv, OutcomeExplained, FailureHasACause, Match!FailureHasACause
<1> QED
  BY <1>1, MatchInvariance, PTL
=============================================================================
