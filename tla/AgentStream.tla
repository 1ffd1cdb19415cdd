----------------------------- MODULE AgentStream -----------------------------
(***************************************************************************)
(* The paths that run an agent for a client: the gateway's                 *)
(* (hermes_adapter/gateway/openai_compat.py, a2a_routes.py) and the A2A    *)
(* server's executor (a2a/server.py).  A request submits the blocking      *)
(* agent to its server's thread pool; the agent puts text deltas on a      *)
(* queue from its thread, and the handler, on the event loop, polls it     *)
(* until the agent's asyncio future is done, then closes the stream.       *)
(*   chat   /v1/chat/completions with stream: true                         *)
(*   task   JSON-RPC message/stream                                        *)
(*   once   the gateway's two non-streaming paths                          *)
(*   exec   HermesAgentExecutor.execute, in a server (and pool) of its own *)
(***************************************************************************)
EXTENDS Naturals, Sequences, FiniteSets, SequencesExt

CONSTANTS Requests,
          Mixes,      \* the kinds the requests may have together
          Workers,    \* threads of each pool (max_workers = 4)
          MaxDeltas,  \* bound on the deltas of one agent run
          MaxTools    \* bound on the tool-call hints of one agent run

Kinds == {"chat", "task", "once", "exec"}

ASSUME StreamAssumption == /\ Mixes \subseteq [Requests -> Kinds]
                           /\ Workers \in Nat \ {0}
                           /\ MaxDeltas \in Nat /\ MaxTools \in Nat

VARIABLES
  kind,      \* the kind of each request
  pc,        \* where its handler is
  job,       \* its agent run in the pool
  backlog,   \* runs submitted to each pool and not yet taken by a thread
  sent,      \* the deltas the agent has produced
  tools,     \* how many tool-call hints it has given
  queue,     \* the deltas and hints the handler has not taken
  accumulated, \* the text a task or exec handler has put together
  done,      \* the asyncio future, resolved by a callback on the loop
  outcome,   \* how the run ended
  out        \* the events the client has been sent

vars == <<kind, pc, job, backlog, sent, tools, queue, accumulated, done, outcome, out>>

\* How an agent run ends: it raises, or returns a dict with some of the keys
\* final_response and error set.
Raised   == {"runtime_error", "exception"}
Returned == {"final", "error", "nothing"}

\* A tool-call hint on the queue of an exec; text deltas are numbered from 1.
Tool == 0

\* Where a handler awaits.  It leaves to "ended", "refused" (no run was asked
\* for), "aborted" (an exception) or "gone" (the client or the SDK dropped it).
Handling == {"loop", "get", "await"}

\* The thread pools: one in the gateway's process, one in the A2A server's.
Pools   == {"gateway", "a2a"}
Pool(r) == IF kind[r] = "exec" THEN "a2a" ELSE "gateway"

\* What a client is sent: one text delta, all text so far, a tool-call hint, the final
\* response, an error, a JSON body, and what opens and closes the streams.
Types == {"delta", "artifact", "tool", "final", "error", "body", "working", "stop", "DONE",
          "completed", "failed", "canceled"}

TypeOK ==
  /\ kind \in Mixes
  /\ pc \in [Requests -> {"new", "ended", "refused", "aborted", "gone"} \cup Handling]
  /\ job \in [Requests -> {"none", "waiting", "running", "finished"}]
  /\ backlog \in [Pools -> Seq(Requests)]
  /\ sent \in [Requests -> Seq(1..MaxDeltas)]
  /\ tools \in [Requests -> 0..MaxTools]
  /\ queue \in [Requests -> Seq({Tool} \cup 1..MaxDeltas)]
  /\ \A r \in Requests : kind[r] # "exec" => queue[r] \in Seq(1..MaxDeltas)
  /\ accumulated \in [Requests -> Seq(1..MaxDeltas)]
  /\ done \in [Requests -> BOOLEAN]
  /\ outcome \in [Requests -> {"none"} \cup Raised \cup Returned]
  /\ out \in [Requests -> Seq([type : Types, text : Seq(1..MaxDeltas)])]

-----------------------------------------------------------------------------
Event(type, text) == [type |-> type, text |-> text]
Plain(type)       == Event(type, << >>)

Send(r, events) == out' = [out EXCEPT ![r] = @ \o events]
Goto(r, l)      == pc' = [pc EXCEPT ![r] = l]

\* The text sent to a chat client: its deltas, which come before any other event.
ChatText(r) == [i \in {d \in DOMAIN out[r] : out[r][d].type = "delta"} |-> Head(out[r][i].text)]

-----------------------------------------------------------------------------
Init ==
  /\ kind \in Mixes
  /\ pc = [r \in Requests |-> "new"]
  /\ job = [r \in Requests |-> "none"]
  /\ backlog = [p \in Pools |-> << >>]
  /\ sent = [r \in Requests |-> << >>]
  /\ tools = [r \in Requests |-> 0]
  /\ queue = [r \in Requests |-> << >>]
  /\ accumulated = [r \in Requests |-> << >>]
  /\ done = [r \in Requests |-> FALSE]
  /\ outcome = [r \in Requests |-> "none"]
  /\ out = [r \in Requests |-> << >>]

\* No message, no text in it, not JSON: answered before anything runs.
Refuse(r) ==
  /\ pc[r] = "new"
  /\ Goto(r, "refused")
  /\ Send(r, IF kind[r] = "exec" THEN <<Plain("failed")>> ELSE <<Plain("error")>>)
  /\ UNCHANGED <<kind, job, backlog, sent, tools, queue, accumulated, done, outcome>>

\* run_in_executor hands the run to the pool.  No await comes before the loop's first
\* done(), which is therefore false: a stream goes straight on to its first get.
Submit(r) ==
  /\ pc[r] = "new"
  /\ Goto(r, IF kind[r] = "once" THEN "await" ELSE "get")
  /\ Send(r, IF kind[r] \in {"task", "exec"} THEN <<Plain("working")>> ELSE << >>)
  /\ job' = [job EXCEPT ![r] = "waiting"]
  /\ backlog' = [backlog EXCEPT ![Pool(r)] = Append(@, r)]
  /\ UNCHANGED <<kind, sent, tools, queue, accumulated, done, outcome>>

\* The pool refuses (it is shut down): a RuntimeError, which exec lets out.
SubmitFails(r) ==
  /\ pc[r] = "new"
  /\ Goto(r, IF kind[r] = "exec" THEN "aborted" ELSE "ended")
  /\ Send(r, CASE kind[r] = "chat" -> <<Plain("stop"), Plain("DONE")>>
               [] kind[r] = "task" -> <<Plain("working"), Plain("failed")>>
               [] kind[r] = "once" -> <<Plain("error")>>
               [] kind[r] = "exec" -> <<Plain("working")>>)
  /\ UNCHANGED <<kind, job, backlog, sent, tools, queue, accumulated, done, outcome>>

-----------------------------------------------------------------------------
\* The pool and the agent's thread.

\* A free thread of the pool takes its oldest run.
StartRun(p) ==
  /\ backlog[p] # << >>
  /\ Cardinality({r \in Requests : Pool(r) = p /\ job[r] = "running"}) < Workers
  /\ job' = [job EXCEPT ![Head(backlog[p])] = "running"]
  /\ backlog' = [backlog EXCEPT ![p] = Tail(@)]
  /\ UNCHANGED <<kind, pc, sent, tools, queue, accumulated, done, outcome, out>>

\* Mutant: the callback's None end marker is queued like a delta.
Delta_WithMarker(r) ==
  /\ job[r] = "running" /\ kind[r] # "once"
  /\ Len(sent[r]) < MaxDeltas
  /\ sent' = [sent EXCEPT ![r] = Append(@, Len(@) + 1)]
  /\ queue' = [queue EXCEPT ![r] = @ \o <<Len(sent[r]) + 1, Tool>>]
  /\ UNCHANGED <<kind, pc, job, backlog, tools, accumulated, done, outcome, out>>

\* stream_delta_callback, from the agent's thread; only streams pass one.
Delta(r) ==
  /\ job[r] = "running" /\ kind[r] # "once"
  /\ Len(sent[r]) < MaxDeltas
  /\ sent' = [sent EXCEPT ![r] = Append(@, Len(@) + 1)]
  /\ queue' = [queue EXCEPT ![r] = Append(@, Len(sent[r]) + 1)]
  /\ UNCHANGED <<kind, pc, job, backlog, tools, accumulated, done, outcome, out>>

\* tool_gen_callback: only the A2A executor passes one.
ToolCall(r) ==
  /\ job[r] = "running" /\ kind[r] = "exec"
  /\ tools[r] < MaxTools
  /\ tools' = [tools EXCEPT ![r] = @ + 1]
  /\ queue' = [queue EXCEPT ![r] = Append(@, Tool)]
  /\ UNCHANGED <<kind, pc, job, backlog, sent, accumulated, done, outcome, out>>

\* run_conversation returns or raises.
FinishRun(r) ==
  /\ job[r] = "running"
  /\ job' = [job EXCEPT ![r] = "finished"]
  /\ \E o \in Raised \cup Returned : outcome' = [outcome EXCEPT ![r] = o]
  /\ UNCHANGED <<kind, pc, backlog, sent, tools, queue, accumulated, done, out>>

\* call_soon_threadsafe: the future is done only once the loop has run this.
FutureResolves(r) ==
  /\ job[r] = "finished" /\ ~done[r]
  /\ done' = [done EXCEPT ![r] = TRUE]
  /\ UNCHANGED <<kind, pc, job, backlog, sent, tools, queue, accumulated, outcome, out>>

-----------------------------------------------------------------------------
\* The handler's loop: while not agent_future.done().

Poll(r) ==
  /\ pc[r] = "loop"
  /\ Goto(r, IF done[r] THEN "await" ELSE "get")
  /\ UNCHANGED <<kind, job, backlog, sent, tools, queue, accumulated, done, outcome, out>>

\* Mutant: a task sends the delta alone.
GetDelta_NotAccumulated(r) ==
  /\ pc[r] = "get" /\ queue[r] # << >>
  /\ Goto(r, "loop")
  /\ queue' = [queue EXCEPT ![r] = Tail(@)]
  /\ accumulated' = [accumulated EXCEPT ![r] = Append(@, Head(queue[r]))]
  /\ Send(r, <<Event(IF kind[r] = "chat" THEN "delta" ELSE "artifact", <<Head(queue[r])>>)>>)
  /\ UNCHANGED <<kind, job, backlog, sent, tools, done, outcome>>

\* A delta is forwarded: a chat sends it alone, task and exec all text so far.
GetDelta(r) ==
  /\ pc[r] = "get" /\ queue[r] # << >>
  /\ Goto(r, "loop")
  /\ queue' = [queue EXCEPT ![r] = Tail(@)]
  /\ LET delta == Head(queue[r]) IN
       \/ /\ delta = Tool
          /\ Send(r, <<Plain("tool")>>) /\ UNCHANGED accumulated
       \/ /\ delta # Tool /\ kind[r] = "chat"
          /\ Send(r, <<Event("delta", <<delta>>)>>) /\ UNCHANGED accumulated
       \/ /\ delta # Tool /\ kind[r] # "chat"
          /\ accumulated' = [accumulated EXCEPT ![r] = Append(@, delta)]
          /\ Send(r, <<Event("artifact", accumulated'[r])>>)
  /\ UNCHANGED <<kind, job, backlog, sent, tools, done, outcome>>

\* enqueue_event raises and the loop swallows it: the token is lost to the client, a
\* text has been accumulated before.
EnqueueFails(r) ==
  /\ pc[r] = "get" /\ kind[r] = "exec" /\ queue[r] # << >>
  /\ Goto(r, "loop")
  /\ queue' = [queue EXCEPT ![r] = Tail(@)]
  /\ LET token == Head(queue[r]) IN
       accumulated' = [accumulated EXCEPT ![r] = IF token = Tool THEN @ ELSE Append(@, token)]
  /\ UNCHANGED <<kind, job, backlog, sent, tools, done, outcome, out>>

\* Mutant: delta_q.get() without a timeout.
GetTimeout_Blocks(r) == FALSE /\ UNCHANGED vars /\ r \in Requests

\* queue.Empty after 50 ms.
GetTimeout(r) ==
  /\ pc[r] = "get" /\ queue[r] = << >>
  /\ Goto(r, "loop")
  /\ UNCHANGED <<kind, job, backlog, sent, tools, queue, accumulated, done, outcome, out>>

\* Anything but a RuntimeError leaves the handler without another event; exec guards
\* against nothing here, not the run's error nor one of enqueueing its last events.
Aborts(r) ==
  /\ pc[r] = "await" /\ done[r]
  /\ outcome[r] = "exception" \/ kind[r] = "exec"
  /\ Goto(r, "aborted")
  /\ UNCHANGED <<kind, job, backlog, sent, tools, queue, accumulated, done, outcome, out>>

\* Mutant: what is left on the queue is dropped.
ChatEnds_NoDrain(r) ==
  /\ pc[r] = "await" /\ done[r] /\ kind[r] = "chat" /\ outcome[r] # "exception"
  /\ Goto(r, "ended")
  /\ Send(r, <<Plain("stop"), Plain("DONE")>>)
  /\ UNCHANGED <<kind, job, backlog, sent, tools, queue, accumulated, done, outcome>>

\* Mutant: no return after the RuntimeError chunk.
ChatEnds_NoReturn(r) ==
  /\ pc[r] = "await" /\ done[r] /\ kind[r] = "chat" /\ outcome[r] # "exception"
  /\ Goto(r, "ended")
  /\ Send(r, (IF outcome[r] = "runtime_error" THEN <<Plain("stop"), Plain("DONE")>> ELSE << >>)
             \o <<Plain("stop"), Plain("DONE")>>)
  /\ UNCHANGED <<kind, job, backlog, sent, tools, queue, accumulated, done, outcome>>

\* A chat drains the queue into chunks, tells an error, stops.
ChatEnds(r) ==
  /\ pc[r] = "await" /\ done[r] /\ kind[r] = "chat" /\ outcome[r] # "exception"
  /\ Goto(r, "ended")
  /\ IF outcome[r] = "runtime_error"
       THEN Send(r, <<Plain("stop"), Plain("DONE")>>) /\ UNCHANGED queue
       ELSE /\ Send(r, [i \in 1..Len(queue[r]) |-> Event("delta", <<queue[r][i]>>)]
                       \o (IF outcome[r] = "error" THEN <<Plain("error")>> ELSE << >>)
                       \o <<Plain("stop"), Plain("DONE")>>)
            /\ queue' = [queue EXCEPT ![r] = << >>]
  /\ UNCHANGED <<kind, job, backlog, sent, tools, accumulated, done, outcome>>

\* A task drains the queue into its accumulated text, which it does not send;
\* without any text it sends the final response.
TaskEnds(r) ==
  /\ pc[r] = "await" /\ done[r] /\ kind[r] = "task" /\ outcome[r] # "exception"
  /\ Goto(r, "ended")
  /\ IF outcome[r] = "runtime_error"
       THEN Send(r, <<Plain("failed")>>) /\ UNCHANGED <<queue, accumulated>>
       ELSE /\ accumulated' = [accumulated EXCEPT ![r] = @ \o queue[r]]
            /\ queue' = [queue EXCEPT ![r] = << >>]
            /\ Send(r, (IF accumulated'[r] = << >> /\ outcome[r] = "final"
                          THEN <<Plain("final")>> ELSE << >>)
                       \o <<Plain("completed")>>)
  /\ UNCHANGED <<kind, job, backlog, sent, tools, done, outcome>>

\* One JSON body: the final response, else the error, else nothing.
OnceEnds(r) ==
  /\ pc[r] = "await" /\ done[r] /\ kind[r] = "once" /\ outcome[r] # "exception"
  /\ Goto(r, "ended")
  /\ Send(r, IF outcome[r] = "runtime_error" THEN <<Plain("error")>> ELSE <<Plain("body")>>)
  /\ UNCHANGED <<kind, job, backlog, sent, tools, queue, accumulated, done, outcome>>

\* exec does not drain: without any text it sends the final response or the
\* error as one artifact.
ExecEnds(r) ==
  /\ pc[r] = "await" /\ done[r] /\ kind[r] = "exec" /\ outcome[r] \in Returned
  /\ Goto(r, "ended")
  /\ Send(r, (IF accumulated[r] = << >> /\ outcome[r] # "nothing"
                THEN <<Plain("final")>> ELSE << >>)
             \o <<Plain("completed")>>)
  /\ UNCHANGED <<kind, job, backlog, sent, tools, queue, accumulated, done, outcome>>

\* HermesAgentExecutor.cancel tells canceled and touches nothing else; the SDK
\* may drop the task that executes.
Cancel(r) ==
  /\ pc[r] \in Handling /\ kind[r] = "exec"
  /\ \A i \in DOMAIN out[r] : out[r][i].type # "canceled"
  /\ \E l \in {pc[r], "gone"} : Goto(r, l)
  /\ Send(r, <<Plain("canceled")>>)
  /\ UNCHANGED <<kind, job, backlog, sent, tools, queue, accumulated, done, outcome>>

\* The client closes the connection: the generator is dropped, the run is not.
Disconnect(r) ==
  /\ pc[r] \in Handling /\ kind[r] \in {"chat", "task"}
  /\ Goto(r, "gone")
  /\ UNCHANGED <<kind, job, backlog, sent, tools, queue, accumulated, done, outcome, out>>

Handle(r) == \/ Poll(r) \/ GetDelta(r) \/ EnqueueFails(r) \/ GetTimeout(r)
             \/ Aborts(r) \/ ChatEnds(r) \/ TaskEnds(r) \/ OnceEnds(r) \/ ExecEnds(r)

Next == \/ \E p \in Pools : StartRun(p)
        \/ \E r \in Requests : \/ Refuse(r) \/ Submit(r) \/ SubmitFails(r)
                               \/ Handle(r) \/ Disconnect(r) \/ Cancel(r)
                               \/ Delta(r) \/ ToolCall(r)
                               \/ FinishRun(r) \/ FutureResolves(r)

Spec == Init /\ [][Next]_vars

\* The loop and the pool schedule what is ready; every agent run ends.
FairSpec == /\ Spec
            /\ \A p \in Pools : WF_vars(StartRun(p))
            /\ \A r \in Requests : /\ WF_vars(Handle(r))
                                   /\ WF_vars(FinishRun(r))
                                   /\ WF_vars(FutureResolves(r))

-----------------------------------------------------------------------------
\* A stream is closed by its terminal events once, at its very end: a chat by
\* the stop chunk and [DONE], a task by completed or failed, an exec by completed;
\* one that is still handled, aborted or given up has not been sent any of them.
\* The one exception is an exec's canceled, final=True at a2a/server.py:282, which
\* closes nothing: artifacts may follow it, and completed when the run ends.
\* A task or exec whose agent streamed nothing is not closed without its final response;
\* a chat is, whatever the comment at openai_compat.py:179-180 says.
StreamClosesOnce ==
  \A r \in Requests :
    LET n == Len(out[r])
        at(types) == {i \in 1..n : out[r][i].type \in types}
        canceled  == at({"canceled"})
        closing   == at({"stop", "DONE", "completed", "failed", "canceled"})
    IN IF pc[r] = "ended"
         THEN /\ kind[r] = "chat" => closing = {n - 1, n} /\ out[r][n].type = "DONE"
              /\ kind[r] \in {"task", "exec"} =>
                   /\ closing \ canceled = {n} /\ out[r][1].type = "working"
                   /\ kind[r] = "task" => canceled = {}
                   /\ outcome[r] = "final" /\ sent[r] = << >> => at({"final"}) # {}
         ELSE pc[r] # "refused" => closing = canceled /\ (canceled # {} => kind[r] = "exec")

\* Every artifact of a task or exec repeats the text before it and goes on from there,
\* and it is text the agent produced: a client may show the last one alone.
TaskArtifactsGrow ==
  \A r \in Requests :
    LET artifacts == {i \in DOMAIN out[r] : out[r][i].type = "artifact"}
    IN \A j \in artifacts :
         /\ IsPrefix(out[r][j].text, sent[r])
         /\ \A i \in artifacts : i < j => IsStrictPrefix(out[r][i].text, out[r][j].text)

\* Every handler comes to an end once its agent run has, whatever the race
\* between the last delta, the future and the poll.
EveryHandlerEnds ==
  \A r \in Requests : pc[r] \in Handling ~> pc[r] \in {"ended", "aborted", "gone"}

\* A chat stream is a text pipe: in order, nothing twice, and complete when it
\* closes normally (a run that raised breaks it).
ChatStatus(r) ==
  CASE pc[r] \in {"new"} \cup Handling            -> "open"
    [] pc[r] = "ended" /\ outcome[r] \in Returned -> "closed"
    [] OTHER                                      -> "broken"

Pipe == INSTANCE TextPipe WITH
  Streams  <- Requests,
  produced <- [r \in Requests |-> IF kind[r] = "chat" THEN sent[r] ELSE << >>],
  received <- [r \in Requests |-> ChatText(r)],
  status   <- [r \in Requests |-> ChatStatus(r)]

\* Polling, timing out and draining a chat's queue implement the text pipe.
ChatImplementsPipe == Pipe!Spec

\* The docstring at a2a_routes.py:169-173: "N x artifact deltas with accumulated
\* text", then completed.  A completed task has shown all the text produced.
TaskShowsAllText ==
  \A r \in Requests :
    kind[r] = "task" /\ pc[r] = "ended" /\ outcome[r] \in Returned /\ sent[r] # << >> =>
      \E i \in DOMAIN out[r] : out[r][i].type = "artifact" /\ out[r][i].text = sent[r]
=============================================================================
