---------------------------- MODULE MCQueueJob ----------------------------
(***************************************************************************)
(* Instances of QueueJob for TLC.                                          *)
(***************************************************************************)
EXTENDS QueueJob, TLC

\* Jobs are interchangeable, and so are workers, in every safety property.
Symmetry == Permutations(Job) \cup Permutations(Worker)

\* The wizards of the list view accept a selection in any state.
AnyState == States \ {"none", "deleted"}
=============================================================================
