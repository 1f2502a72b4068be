------------------------------ MODULE MCHarness ------------------------------
(* Harness with two standard inputs, one longer than the other, so that the  *)
(* stdin file shrinks and grows between calls.                               *)
EXTENDS Harness, TLC

MCLength == [t \in TestCases |-> IF t = "long" THEN 2 ELSE 1]

\* The other executors do the same, and nothing tells them apart.
MCOthers == Permutations(Executors \ {executor})
===============================================================================
