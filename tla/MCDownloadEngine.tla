-------------------------- MODULE MCDownloadEngine --------------------------
(* DownloadEngine on small instances. *)
EXTENDS DownloadEngine, TLC

\* Worker slots are interchangeable: sound in the runs that check no liveness.
WorkerSymmetry == Permutations(Workers)
=============================================================================
