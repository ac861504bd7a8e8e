------------------------------ MODULE MCFanout ------------------------------
(* Instances of Fanout for TLC.                                               *)
EXTENDS Fanout, TLC

CONSTANTS a, b, c, alias, typo

TwoAccounts == {a, b}
ThreeAccounts == {a, b, c}
TwoSorted == <<a, b>>
ThreeSorted == <<a, b, c>>
TwoNames == a :> a @@ b :> b @@ alias :> a @@ typo :> Unknown
ThreeNames == c :> c @@ TwoNames
=============================================================================
