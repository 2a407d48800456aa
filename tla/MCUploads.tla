------------------------------ MODULE MCUploads ------------------------------
(***************************************************************************)
(* Instances of Uploads for TLC; upload ids and handlers are symmetric.    *)
(***************************************************************************)
EXTENDS Uploads, TLC

Symmetry == Permutations(Uploads) \cup Permutations(Handlers) \cup Permutations(Cycles)
=============================================================================
