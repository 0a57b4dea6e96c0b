------------------------------- MODULE MCFeed -------------------------------
(* An instance of Feed for TLC.  The clients are not a symmetry set: the run *)
(* checks a temporal property.                                              *)
EXTENDS Feed

=============================================================================
