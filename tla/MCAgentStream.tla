---------------------------- MODULE MCAgentStream ----------------------------
(* TLC instances of AgentStream. *)
EXTENDS AgentStream

\* Any two requests of the gateway, or an execution of the A2A server beside one
\* of the gateway.
Both == [Requests -> {"chat", "task", "once"}]
          \cup {m \in [Requests -> {"exec", "once"}] : m[1] = "exec" /\ m[2] = "once"}

Tasks == [Requests -> {"task"}]
=============================================================================
