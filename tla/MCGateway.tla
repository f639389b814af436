------------------------------ MODULE MCGateway ------------------------------
(* A small instance of Gateway for TLC; no symmetry, for a liveness property is checked. *)
EXTENDS Gateway

=============================================================================
