----------------------------- MODULE MCPppoeSid -----------------------------
(* Small instances of the session identifier map. *)
EXTENDS PppoeSid
=============================================================================
