----------------------------- MODULE MCExecutor -------------------------------
(* Executor with two standard inputs, one longer than the other, so that the  *)
(* file shrinks and grows between calls.                                      *)
EXTENDS Executor

MCLength == [t \in TestCases |-> IF t = "long" THEN 2 ELSE 1]
===============================================================================
