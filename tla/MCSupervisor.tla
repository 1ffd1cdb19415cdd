----------------------------- MODULE MCSupervisor -----------------------------
(* The TLC instance of Supervisor. *)
EXTENDS Supervisor
=============================================================================
