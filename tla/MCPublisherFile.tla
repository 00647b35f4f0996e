--------------------------- MODULE MCPublisherFile ---------------------------
(* Small instances of PublisherFile for TLC.                               *)
EXTENDS PublisherFile, TLC

Symmetry == Permutations(Inodes) \cup Permutations(Ids)
               \cup Permutations(Endpoints) \cup Permutations(Checkers)
=============================================================================
