---------------------------- MODULE MCQueueWorker ----------------------------
(* Small instances of QueueWorker for TLC. *)
EXTENDS QueueWorker, TLC

Interchangeable == Permutations(Workers)
=============================================================================
