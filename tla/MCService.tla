------------------------------ MODULE MCService ------------------------------
(* Instances of Service for TLC: two services and a command. *)
EXTENDS Service
=============================================================================
