---------------------------- MODULE MCSampleApp ----------------------------
(* Instances of SampleApp for TLC.                                         *)
EXTENDS SampleApp

=============================================================================
