---------------------------- MODULE MCConfigFlow ----------------------------
(* Instances of ConfigFlow: two boards, one of them hidden behind an address  *)
(* that is not its MAC; one account lists the first, the other one both.      *)
EXTENDS ConfigFlow, TLC

CONSTANTS f1, f2, b1, b2, a1, a2

OneFlow == {f1}
TwoFlows == {f1, f2}
TwoBoards == {b1, b2}
TwoAccounts == {a1, a2}
PartAndAll == a1 :> {b1} @@ a2 :> {b1, b2}
FirstBoard == {b1}

FlowSymmetry == Permutations(TwoFlows)

=============================================================================
