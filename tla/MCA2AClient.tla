----------------------------- MODULE MCA2AClient -----------------------------
(* TLC instance of A2AClient. *)
EXTENDS A2AClient
=============================================================================
