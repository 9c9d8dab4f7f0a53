------------------------------- MODULE MCSessions -------------------------------
(* An instance of Sessions for TLC: two requests and three sessions.           *)
EXTENDS Sessions
=================================================================================
