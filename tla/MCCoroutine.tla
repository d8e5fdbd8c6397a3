---------------------------- MODULE MCCoroutine ----------------------------
(* Instances of Coroutine for TLC. *)
EXTENDS Coroutine

CONSTANTS int1, int2, int3, void1

MCRet == [f \in Frames |-> IF f = void1 THEN "void" ELSE "int"]
=============================================================================
