--------------------------- MODULE MCServerConnection ---------------------------
(* Small instances of ServerConnection for TLC. *)
EXTENDS ServerConnection
===============================================================================
