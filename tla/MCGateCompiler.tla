---------------------------- MODULE MCGateCompiler ----------------------------
(***************************************************************************)
(* Inputs of GateCompiler for TLC: a gate of any type by itself, with      *)
(* whatever it may compare; a composite over two gates; and two composites,*)
(* which may list one another, over one gate.                              *)
(***************************************************************************)
EXTENDS GateCompiler

Leaves(types, behaviors, named, wellnamed) ==
    [type : types, wellnamed : wellnamed, candidateprop : named, queryparam : named,
     nullbehavior : behaviors, logic : {"AND"}, subgates : {{}}, inforce : BOOLEAN]

Composites(names, wellnamed) ==
    [type : {"composite"}, wellnamed : wellnamed, candidateprop : {FALSE}, queryparam : {FALSE},
     nullbehavior : {"pass"}, logic : {"AND", "OR", "other"},
     subgates : SUBSET names, inforce : BOOLEAN]

Compared(properties, parameters) ==
    [property : properties, parameter : parameters, first : {No, Yes}, second : {Yes}]

OneGate ==
    /\ gate \in [g1 : Leaves(Types \ {"composite"}, {"pass", "fail"}, BOOLEAN, {TRUE})]
    /\ data \in [g1 : Data]

OneComposite ==
    /\ gate \in [g1 : Leaves({"boolean", "threshold", "traversal"}, {"pass"}, {TRUE}, {TRUE}),
                 g2 : Leaves({"threshold"}, {"fail"}, {TRUE}, {TRUE}),
                 g3 : Composites(Names, BOOLEAN)]
    /\ data \in [g1 : Compared({"null", "value"}, {"null", "value"}),
                 g2 : Compared({"value"}, {"missing", "value"}),
                 g3 : {[property |-> "value", parameter |-> "value",
                        first |-> Yes, second |-> Yes]}]

TwoComposites ==
    /\ gate \in [g1 : Leaves({"threshold"}, {"fail"}, {TRUE}, BOOLEAN),
                 g2 : Composites({"g1", "g2", "g3"}, {TRUE}),
                 g3 : Composites({"g1", "g2", "g3"}, {TRUE})]
    /\ \E d \in Compared({"value"}, {"missing", "value"}) :
        data = [g \in DOMAIN gate |-> d]

Inputs == OneGate \/ OneComposite \/ TwoComposites

MCInit == Inputs /\ Init

MCSpec == MCInit /\ [][Next]_vars
=============================================================================
