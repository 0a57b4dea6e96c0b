----------------------------- MODULE MCMemStore -----------------------------
(* Instances of MemStore for TLC.                                          *)
EXTENDS MemStore, TLC

\* Streams and ingesters are interchangeable in every safety property
Symmetry == Permutations(StreamIDs) \cup Permutations(Ingesters)

=============================================================================
