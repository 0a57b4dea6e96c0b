---------------------------- MODULE MCMiddleware ----------------------------
(* Instances of Middleware for TLC.                                        *)
EXTENDS Middleware

=============================================================================
