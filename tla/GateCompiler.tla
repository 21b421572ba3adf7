----------------------------- MODULE GateCompiler -----------------------------
(***************************************************************************)
(* The filter of handle_match: the gates of a domain compiled to one WHERE *)
(* clause (engine/gates/compiler.py, null_semantics.py) and what the clause*)
(* comes to for one candidate and one query.                               *)
(*                                                                         *)
(* A gate has a property and a parameter of its own, which are null or     *)
(* have values; what a predicate says of the values is an input.  The      *)
(* clause is evaluated as Cypher does, in three truth values: conjunction  *)
(* is the minimum and disjunction the maximum of No < Null < Yes.  Cypher  *)
(* fails on a parameter that is not supplied and lets a candidate through  *)
(* only if the clause is Yes.  It fails on a traversal gate altogether,    *)
(* whose pattern expression introduces a variable t.                       *)
(***************************************************************************)
EXTENDS Integers, FiniteSets, FiniteSetsExt

CONSTANTS
    Names,      \* what gates, and the subgates they list, may be called
    MaxDepth    \* nested calls of compile that Python allows

No == 0
Null == 1
Yes == 2
Truth == No..Yes

Types ==
    {"boolean", "threshold", "range", "enummap", "exclusion", "composite",
     "selfrange", "freshness", "temporalrange", "traversal"}

GateSpecs ==
    [type : Types,
     wellnamed : BOOLEAN,       \* whether the names and the operator that compiling
                                \* it reads are ones that it accepts
     candidateprop : BOOLEAN,   \* whether it names a property
     queryparam : BOOLEAN,      \* and a parameter
     nullbehavior : {"pass", "fail"},
     logic : {"AND", "OR", "other"},
     subgates : SUBSET Names,
     inforce : BOOLEAN]         \* for this direction and role

\* The values a gate compares.  For a range, first and second say whether the
\* value is within its bounds, for a temporal range whether it is between two
\* parameters, with Null for a bound that is null.
Data ==
    [property : {"null", "value"},
     parameter : {"missing", "null", "value"},
     first : Truth,
     second : Truth]

VARIABLES
    gate,       \* the gates of the domain spec, by name
    data,       \* what each of them compares
    outcome     \* of the match for this candidate

vars == <<gate, data, outcome>>

Init ==
    /\ \E named \in SUBSET Names : gate \in [named -> GateSpecs]
    /\ data \in [DOMAIN gate -> Data]
    /\ outcome = "new"

IsNull(g, what) == data[g][what] = "null"

\* The parameter the predicate itself refers to.
Compares(g) ==
    \/ gate[g].type \in {"threshold", "enummap", "range", "selfrange"}
    \/ /\ gate[g].type \in {"boolean", "exclusion"}
       /\ gate[g].queryparam

\* candidate.prop <op> $param
Comparison(g) ==
    IF IsNull(g, "property") \/ (Compares(g) /\ IsNull(g, "parameter"))
    THEN Null
    ELSE data[g].first

\* (bound IS NULL OR bound <= $param)
WithinBound(g, bound) ==
    IF bound = Null THEN Yes
    ELSE IF IsNull(g, "parameter") THEN Null
    ELSE bound

InRange(g) == Min({WithinBound(g, data[g].first), WithinBound(g, data[g].second)})

BetweenParameters(g) ==
    IF IsNull(g, "property") THEN Null ELSE Min({data[g].first, data[g].second})

\* Whether there is such an edge is never Null: a null parameter matches none.
NotExcluded(g) ==
    IF (Compares(g) /\ IsNull(g, "parameter")) \/ data[g].first = Yes THEN Yes ELSE No

\* (That of a traversal gate is never evaluated.)
Predicate(g) ==
    CASE gate[g].type \in {"range", "selfrange"} -> InRange(g)
      [] gate[g].type = "temporalrange" -> BetweenParameters(g)
      [] gate[g].type = "exclusion" -> NotExcluded(g)
      [] OTHER -> Comparison(g)

FailsByDefault == {"boolean", "freshness", "traversal"}

\* Mutant: the default of the type wins over what the gate declares.
NullBehaviorByType(g) == IF gate[g].type \in FailsByDefault THEN "fail" ELSE "pass"

\* A declared pass, which is also the value of a gate that declares nothing,
\* gives way to the default of the type.
NullBehavior(g) ==
    IF gate[g].nullbehavior = "fail" \/ gate[g].type \in FailsByDefault
    THEN "fail"
    ELSE "pass"

\* A null in what the gate names.
NullNamed(g) ==
    \/ gate[g].candidateprop /\ IsNull(g, "property")
    \/ gate[g].queryparam /\ IsNull(g, "parameter")

\* wrap_gate_with_null_logic
Wrapped(g, value) ==
    IF ~NullNamed(g) THEN value
    ELSE IF NullBehavior(g) = "pass" THEN Yes
    ELSE No

\* Subgates without a gate of that name are skipped.
Subgates(g) ==
    IF gate[g].type = "composite" THEN gate[g].subgates \cap DOMAIN gate ELSE {}

Combined(logic, values) ==
    IF values = {} THEN Yes ELSE IF logic = "AND" THEN Min(values) ELSE Max(values)

\* What the fragment of g comes to, with depth further nested calls allowed.
Value[depth \in 0..MaxDepth] ==
    [g \in DOMAIN gate |->
        Wrapped(g,
            IF gate[g].type # "composite" THEN Predicate(g)
            ELSE IF depth = 0 /\ Subgates(g) # {} THEN Null
            ELSE Combined(gate[g].logic, {Value[depth - 1][s] : s \in Subgates(g)}))]

\* compile(g) raises: a name that sanitize_label refuses, an unknown operator or
\* logic, or too deep a nesting.
Raises[depth \in 0..MaxDepth] ==
    [g \in DOMAIN gate |->
        \/ ~gate[g].wellnamed
        \/ /\ gate[g].type = "composite" /\ gate[g].subgates # {}
           /\ \/ gate[g].logic = "other"
              \/ \E s \in Subgates(g) : depth > 0 => Raises[depth - 1][s]]

\* The fragment of g refers to a parameter that the query does not have.
Lacks(g) ==
    /\ gate[g].queryparam \/ gate[g].type = "temporalrange" \/ Compares(g)
    /\ data[g].parameter = "missing"

\* What Neo4j does not run, by itself and as a part of another fragment.
NotRun(g) == Lacks(g) \/ gate[g].type = "traversal"

HoldsNotRun[depth \in 0..MaxDepth] ==
    [g \in DOMAIN gate |->
        \/ NotRun(g)
        \/ \E s \in Subgates(g) : depth > 0 /\ HoldsNotRun[depth - 1][s]]

InForce == {g \in DOMAIN gate : gate[g].inforce}

Raised == \E g \in InForce : Raises[MaxDepth][g]

\* Mutant: the fragments of subgates are forgotten.
UnanswerableDirectly == \E g \in InForce : NotRun(g)

Unanswerable == \E g \in InForce : HoldsNotRun[MaxDepth][g]

\* compile_all_gates, evaluated
WhereClause == Min({Yes} \cup {Value[MaxDepth][g] : g \in InForce})

CompileFails ==
    /\ outcome = "new"
    /\ Raised
    /\ outcome' = "error"
    /\ UNCHANGED <<gate, data>>

QueryFails ==
    /\ outcome = "new"
    /\ ~Raised /\ Unanswerable
    /\ outcome' = "failed"
    /\ UNCHANGED <<gate, data>>

Filter ==
    /\ outcome = "new"
    /\ ~Raised /\ ~Unanswerable
    /\ outcome' = IF WhereClause = Yes THEN "admitted" ELSE "rejected"
    /\ UNCHANGED <<gate, data>>

Next == CompileFails \/ QueryFails \/ Filter

Spec == Init /\ [][Next]_vars
-----------------------------------------------------------------------------
\* A gate says of a null that it lets candidates through, and the type agrees.
Excused(g) ==
    /\ NullNamed(g)
    /\ gate[g].nullbehavior = "pass" /\ gate[g].type \notin FailsByDefault

\* What the gate asks for, said of values only.
Met(g) ==
    LET known == ~IsNull(g, "property")
        asked == Compares(g) => ~IsNull(g, "parameter")
        yes == data[g].first = Yes
    IN CASE gate[g].type \in {"range", "selfrange"} ->
              \A what \in {"first", "second"} :
                data[g][what] = Null \/ (asked /\ data[g][what] = Yes)
         [] gate[g].type = "temporalrange" -> known /\ yes /\ data[g].second = Yes
         [] gate[g].type = "exclusion" -> asked => yes
         [] OTHER -> known /\ asked /\ yes

Satisfied[depth \in 0..MaxDepth] ==
    [g \in DOMAIN gate |->
        \/ Excused(g)
        \/ /\ ~NullNamed(g)
           /\ IF gate[g].type # "composite" THEN Met(g)
              ELSE IF gate[g].logic = "AND"
              THEN \A s \in Subgates(g) : depth > 0 /\ Satisfied[depth - 1][s]
              ELSE \/ Subgates(g) = {}
                   \/ \E s \in Subgates(g) : depth > 0 /\ Satisfied[depth - 1][s]]

(***************************************************************************)
(* Three-valued logic leaves no trace in a match: read with two values,    *)
(* null never meeting a predicate, the gates admit the same candidates,    *)
(* also where composites combine fragments that came out null.  A gate is  *)
(* excused of a null only if it declares pass and is of a type that passes *)
(* nulls anyway; an open bound of a range counts as met even under fail.   *)
(***************************************************************************)
AdmittedExactly ==
    outcome \in {"admitted", "rejected"} =>
        (outcome = "admitted" <=> \A g \in InForce : Satisfied[MaxDepth][g])

\* The gates whose fragments those of S contain, by themselves or within others.
Within(S) ==
    {g \in DOMAIN gate :
        \A T \in SUBSET DOMAIN gate :
            S \subseteq T /\ (\A x \in T : Subgates(x) \subseteq T) => g \in T}

InClause == Within(InForce)

Malformed(g) ==
    \/ ~gate[g].wellnamed
    \/ /\ gate[g].type = "composite"
       /\ \/ gate[g].subgates # {} /\ gate[g].logic = "other"
          \/ g \in Within(Subgates(g))

(***************************************************************************)
(* What loading a domain pack does not check breaks the match instead, and *)
(* with a database that answers nothing else does: it raises exactly if a  *)
(* gate of the clause has a name, operator or logic that is not accepted   *)
(* or is among its own subgates, however deep, and it is answered only if  *)
(* no gate of the clause is a traversal and the query has every parameter  *)
(* of each, those of gates that are not in force themselves included.      *)
(***************************************************************************)
FailureHasACause ==
    /\ outcome # "new" => (outcome = "error" <=> \E g \in InClause : Malformed(g))
    /\ outcome = "failed" => \E g \in InClause : NotRun(g)
    /\ outcome \in {"admitted", "rejected"} => \A g \in InClause : ~NotRun(g)

(***************************************************************************)
(* CONTRACT-14: a gate that declares pass compiles to (candidate.prop IS   *)
(* NULL OR predicate), so a candidate is never rejected by a gate that     *)
(* declares pass and whose property is null.                               *)
(***************************************************************************)
PassAdmitsNull ==
    outcome = "rejected" =>
        \E g \in InForce :
            ~(/\ gate[g].nullbehavior = "pass"
              /\ gate[g].candidateprop /\ IsNull(g, "property"))
=============================================================================
