---------------------------- MODULE MCVisibility ----------------------------
(* Small instance of Visibility for TLC. *)
EXTENDS Visibility
=============================================================================
