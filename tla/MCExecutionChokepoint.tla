----------------------- MODULE MCExecutionChokepoint -----------------------
(***************************************************************************)
(* Instances of ExecutionChokepoint for TLC.                               *)
(***************************************************************************)
EXTENDS ExecutionChokepoint, TLC

CONSTANTS p1, p2, w1, w2

\* A raise that needs the room a rule's cut makes.
RaiseAndCut == p1 :> 4 @@ p2 :> (-1)

WorkerSymmetry == Permutations(Workers)
=============================================================================
