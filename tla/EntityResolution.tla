--------------------------- MODULE EntityResolution ---------------------------
(***************************************************************************)
(* Semantic entity resolution (engine/resolution/resolver.py, as           *)
(* handle_resolve calls it): requests that resolve one entity or, as a     *)
(* batch, every entity of a label, run concurrently over one graph, a      *)
(* query at a time.                                                        *)
(*                                                                         *)
(* Of the entities that share the first comparison property with one, or   *)
(* of all of its label, an unordered query returns at most max_candidates, *)
(* and only these are scored.  The score has a part that these requests do *)
(* not change, the entities' properties and outcomes, and a structural     *)
(* part, the overlap of their neighbours, which every RESOLVED_FROM edge   *)
(* changes.  A pair is similar if it passes the threshold without the      *)
(* latter, and swaying if it passes only now and then.                     *)
(*                                                                         *)
(* The resolved_set of resolve_batch collects resolution ids, which no     *)
(* entity has for its id, so it never skips an entity and is left out.     *)
(* RESOLVED_FROM edges are CREATEd, so parallel ones add up.               *)
(***************************************************************************)
EXTENDS Integers, FiniteSets, FiniteSetsExt

CONSTANTS
    Entities,
    Runs,           \* resolve requests
    Limits,         \* values of max_candidates
    MaxDegree,      \* bound on the relationships an entity has to begin with
    MaxSwaying,     \* bound on the pairs that only sometimes pass the threshold
    None

VARIABLES
    limit,      \* max_candidates of the domain spec
    sharing,    \* pairs of one label, with the same first comparison property if any
    similar,    \* pairs that pass the threshold whatever their neighbours
    swaying,    \* pairs that pass it or not, as their neighbours are
    base,       \* relationships of each entity other than RESOLVED_FROM
    edge,       \* number of RESOLVED_FROM edges from one entity to another
    pc,         \* where each request is
    mode,       \* batch or single
    todo,       \* the entities it still has to resolve
    canonical,  \* the canonical entity of the group it is merging
    merging     \* the members of that group without an edge yet

graph == <<limit, sharing, similar, swaying, base>>
vars == <<graph, edge, pc, mode, todo, canonical, merging>>

Pairs == {p \in SUBSET Entities : Cardinality(p) = 2}

\* Sharing a property is an equivalence.
Transitive(S) == \A p, q \in S : p # q /\ p \cap q # {} => (p \cup q) \ (p \cap q) \in S

Init ==
    /\ limit \in Limits
    /\ sharing \in {S \in SUBSET Pairs : Transitive(S)}
    /\ similar \in SUBSET sharing
    /\ swaying \in {S \in SUBSET (sharing \ similar) : Cardinality(S) <= MaxSwaying}
    /\ base \in [Entities -> 0..MaxDegree]
    /\ edge = [p \in Entities \X Entities |-> 0]
    /\ pc = [r \in Runs |-> "new"]
    /\ mode = [r \in Runs |-> "single"]
    /\ todo = [r \in Runs |-> {}]
    /\ canonical = [r \in Runs |-> None]
    /\ merging = [r \in Runs |-> {}]

Merged(e) == \E t \in Entities : edge[<<e, t>>] > 0

\* The rows the pre-filter finds for e, and the choices its LIMIT has of them.
Peers(e) == {x \in Entities : {e, x} \in sharing}
WithinLimit(e) == Cardinality(Peers(e)) <= limit
Scored(e) == IF WithinLimit(e) THEN {Peers(e)} ELSE kSubset(limit, Peers(e))

\* The entity e and those that pass the threshold if they are scored: surely, perhaps.
Sure(e) == {e} \cup {x \in Peers(e) : {e, x} \in similar}
Possible(e) == Sure(e) \cup {x \in Peers(e) : {e, x} \in swaying}

\* What find_candidates can return for e, and e itself.
Groups(e) ==
    {G \in SUBSET Possible(e) :
        /\ e \in G
        /\ \E S \in Scored(e) : Sure(e) \cap S \subseteq G /\ G \subseteq S \cup {e}}

\* Mutant: only outgoing relationships are counted.
MutDegree(e) == base[e] + MapThenSumSet(LAMBDA x : edge[<<e, x>>], Entities)

Degree(e) == base[e] + MapThenSumSet(LAMBDA x : edge[<<e, x>>] + edge[<<x, e>>], Entities)

\* _find_canonical: one of the entities with the most relationships.
MostConnected(S) == {x \in S : \A y \in S : Degree(y) <= Degree(x)}

ResolveEntity(r, e) ==
    /\ pc[r] = "new"
    /\ pc' = [pc EXCEPT ![r] = "pick"]
    /\ todo' = [todo EXCEPT ![r] = {e}]
    /\ UNCHANGED <<graph, edge, mode, canonical, merging>>

\* resolve_batch reads the entities that have not been merged into another.
ResolveBatch(r) ==
    /\ pc[r] = "new"
    /\ mode' = [mode EXCEPT ![r] = "batch"]
    /\ todo' = [todo EXCEPT ![r] = {e \in Entities : ~Merged(e)}]
    /\ pc' = [pc EXCEPT ![r] = "pick"]
    /\ UNCHANGED <<graph, edge, canonical, merging>>

\* Mutant: only the candidates are merged, never the entity itself.
MutToMerge(group, e, c) == group \ {e, c}

ToMerge(group, e, c) == group \ {c}

\* The next entity: its candidates and the canonical one among them.
Pick(r) ==
    /\ pc[r] = "pick"
    /\ \E e \in todo[r] :
          /\ todo' = [todo EXCEPT ![r] = @ \ {e}]
          /\ \E group \in Groups(e) : \E c \in MostConnected(group) :
                /\ canonical' = [canonical EXCEPT ![r] = c]
                /\ merging' = [merging EXCEPT ![r] = ToMerge(group, e, c)]
    /\ pc' = [pc EXCEPT ![r] = "merge"]
    /\ UNCHANGED <<graph, edge, mode>>

\* _create_resolution, for one member at a time.
CreateResolution(r) ==
    /\ pc[r] = "merge"
    /\ \E m \in merging[r] :
          /\ edge' = [edge EXCEPT ![<<m, canonical[r]>>] = @ + 1]
          /\ merging' = [merging EXCEPT ![r] = @ \ {m}]
    /\ UNCHANGED <<graph, pc, mode, todo, canonical>>

GroupDone(r) ==
    /\ pc[r] = "merge"
    /\ merging[r] = {}
    /\ canonical' = [canonical EXCEPT ![r] = None]
    /\ pc' = [pc EXCEPT ![r] = "pick"]
    /\ UNCHANGED <<graph, edge, mode, todo, merging>>

Answer(r) ==
    /\ pc[r] = "pick"
    /\ todo[r] = {}
    /\ pc' = [pc EXCEPT ![r] = "done"]
    /\ UNCHANGED <<graph, edge, mode, todo, canonical, merging>>

\* A query fails or its request is cancelled: the edges created so far stay, and
\* that of a CREATE which took effect without an answer as well.
Fail(r) ==
    /\ pc[r] \in {"pick", "merge"}
    /\ \/ UNCHANGED edge
       \/ \E m \in merging[r] : edge' = [edge EXCEPT ![<<m, canonical[r]>>] = @ + 1]
    /\ pc' = [pc EXCEPT ![r] = "failed"]
    /\ todo' = [todo EXCEPT ![r] = {}]
    /\ canonical' = [canonical EXCEPT ![r] = None]
    /\ merging' = [merging EXCEPT ![r] = {}]
    /\ UNCHANGED <<graph, mode>>

Next ==
    \E r \in Runs :
        \/ \E e \in Entities : ResolveEntity(r, e)
        \/ ResolveBatch(r)
        \/ Pick(r)
        \/ CreateResolution(r)
        \/ GroupDone(r)
        \/ Answer(r)
        \/ Fail(r)

Spec == Init /\ [][Next]_vars

-----------------------------------------------------------------------------
TypeOK ==
    /\ edge \in [Entities \X Entities -> Nat]
    /\ pc \in [Runs -> {"new", "pick", "merge", "done", "failed"}]
    /\ mode \in [Runs -> {"single", "batch"}]
    /\ todo \in [Runs -> SUBSET Entities]
    /\ canonical \in [Runs -> Entities \cup {None}]
    /\ merging \in [Runs -> SUBSET Entities]

\* An entity to which every entity it can ever be matched with is similar, and
\* which has more relationships than any of them; the limit cuts it from none of
\* their candidates.
Hub(h) ==
    \A x \in Possible(h) \ {h} :
        /\ h \in Sure(x) /\ Possible(x) \subseteq Sure(h) /\ WithinLimit(x)
        /\ base[x] < base[h]

\* A hub is the canonical entity of its group for good: no request, in whatever
\* order the requests' queries and failures interleave and however often the
\* group is resolved again, merges it into another or another into anything
\* but it.  (Among equals each batch chooses anew, and two can end up merged
\* into each other.)
HubStaysCanonical ==
    \A h \in Entities : Hub(h) =>
        \A x \in Sure(h), t \in Entities : edge[<<x, t>>] > 0 => x # h /\ t = h

\* A batch that is answered leaves at most one unmerged member in each group of
\* mutually similar entities that max_candidates does not cut, whatever else they
\* are matched with and whatever other requests do meanwhile.
BatchMergesGroups ==
    \A r \in Runs : pc[r] = "done" /\ mode[r] = "batch" =>
        \A e \in Entities : (\A x \in Sure(e) : Sure(x) = Sure(e) /\ WithinLimit(x)) =>
            \A x, y \in Sure(e) : x = y \/ Merged(x) \/ Merged(y)
=============================================================================
