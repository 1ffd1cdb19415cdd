----------------------------- MODULE ProxyRelay -----------------------------
(***************************************************************************)
(* handle_proxy (hermes_adapter/proxy/routes.py): an agent's call to its   *)
(* LLM provider, relayed chunk by chunk with the agent's key put in.  Each *)
(* call opens an aiohttp session of its own to the upstream; the upstream  *)
(* may answer, stop, break or say nothing, and the agent may leave, at any *)
(* time.  Calls share nothing but the key file, which is read anew.        *)
(***************************************************************************)
EXTENDS Naturals, Sequences

CONSTANTS Calls,
          MaxChunks  \* bound on the chunks of one upstream answer

ASSUME RelayAssumption == MaxChunks \in Nat

VARIABLES
  pc,        \* where the handler of each call is
  session,   \* its ClientSession
  upstream,  \* what the provider has done
  produced,  \* the chunks it has sent
  buffer,    \* those aiohttp has and the handler has not
  chunk,     \* those the handler is writing
  received,  \* those the agent has got
  gone,      \* the agent has closed its connection
  how        \* how the call ended

vars == <<pc, session, upstream, produced, buffer, chunk, received, gone, how>>

\* Where a handler with a session awaits.
Relaying == {"request", "prepare", "read", "write"}

Chunks == Seq(1..MaxChunks)

TypeOK ==
  /\ pc \in [Calls -> {"new", "body", "over"} \cup Relaying]
  /\ session \in [Calls -> {"none", "open", "closed"}]
  /\ upstream \in [Calls -> {"idle", "asked", "streaming", "ended", "broken"}]
  /\ produced \in [Calls -> Chunks] /\ buffer \in [Calls -> Chunks]
  /\ chunk \in [Calls -> Chunks] /\ received \in [Calls -> Chunks]
  /\ gone \in [Calls -> BOOLEAN]
  /\ how \in [Calls -> {"none", "refused", "unreachable", "late", "unprepared", "eof", "cut"}]
  /\ \A r \in Calls : /\ pc[r] \in Relaying => session[r] = "open"
                      /\ pc[r] = "over" <=> how[r] # "none"

-----------------------------------------------------------------------------
Over(r, h) == /\ pc' = [pc EXCEPT ![r] = "over"]
              /\ how' = [how EXCEPT ![r] = h]

Goto(r, l) == pc' = [pc EXCEPT ![r] = l]

Close(r) == session' = [session EXCEPT ![r] = "closed"]

Init ==
  /\ pc = [r \in Calls |-> "new"]
  /\ session = [r \in Calls |-> "none"]
  /\ upstream = [r \in Calls |-> "idle"]
  /\ produced = [r \in Calls |-> << >>]
  /\ buffer = [r \in Calls |-> << >>]
  /\ chunk = [r \in Calls |-> << >>]
  /\ received = [r \in Calls |-> << >>]
  /\ gone = [r \in Calls |-> FALSE]
  /\ how = [r \in Calls |-> "none"]

\* No such provider, a bad agent name, or no key in the agent's .env, which
\* ./fleet set may have truncated just now: answered before anything is opened.
Refuse(r) ==
  /\ pc[r] = "new"
  /\ Over(r, "refused")
  /\ UNCHANGED <<session, upstream, produced, buffer, chunk, received, gone>>

\* The key is there; the body is awaited.
Accept(r) ==
  /\ pc[r] = "new"
  /\ Goto(r, "body")
  /\ UNCHANGED <<session, upstream, produced, buffer, chunk, received, gone, how>>

\* The agent leaves before it has sent its body.
BodyLost(r) ==
  /\ pc[r] = "body" /\ gone[r]
  /\ Over(r, "cut")
  /\ UNCHANGED <<session, upstream, produced, buffer, chunk, received, gone>>

\* The body is there: a session is opened and the upstream asked.
Ask(r) ==
  /\ pc[r] = "body"
  /\ Goto(r, "request")
  /\ session' = [session EXCEPT ![r] = "open"]
  /\ upstream' = [upstream EXCEPT ![r] = "asked"]
  /\ UNCHANGED <<produced, buffer, chunk, received, gone, how>>

\* Mutant: the session is closed on the relaying path only.
Unreachable_NoClose(r) ==
  /\ pc[r] = "request" /\ upstream[r] \in {"asked", "broken"}
  /\ Over(r, "unreachable")
  /\ UNCHANGED <<session, upstream, produced, buffer, chunk, received, gone>>

\* Mutant: no return after the close.
Unreachable_GoesOn(r) ==
  /\ pc[r] = "request" /\ upstream[r] \in {"asked", "broken"}
  /\ Goto(r, "prepare")
  /\ Close(r)
  /\ UNCHANGED <<upstream, produced, buffer, chunk, received, gone, how>>

\* A ClientError: no connection, or one that broke before an answer.
Unreachable(r) ==
  /\ pc[r] = "request" /\ upstream[r] \in {"asked", "broken"}
  /\ Over(r, "unreachable")
  /\ Close(r)
  /\ UNCHANGED <<upstream, produced, buffer, chunk, received, gone>>

\* The status and headers are there; prepare sends them on.
Answered(r) ==
  /\ pc[r] = "request" /\ upstream[r] \in {"streaming", "ended"}
  /\ Goto(r, "prepare")
  /\ UNCHANGED <<session, upstream, produced, buffer, chunk, received, gone, how>>

Prepare(r) ==
  /\ pc[r] = "prepare"
  /\ Goto(r, "read")
  /\ UNCHANGED <<session, upstream, produced, buffer, chunk, received, gone, how>>

\* prepare raises, before the try: nothing is released.
PrepareFails(r) ==
  /\ pc[r] = "prepare" /\ gone[r]
  /\ Over(r, "unprepared")
  /\ UNCHANGED <<session, upstream, produced, buffer, chunk, received, gone>>

\* The upstream deadline of ten minutes: asyncio.TimeoutError, no ClientError,
\* around the request, and in the loop, where finally releases everything.
Late(r) ==
  /\ pc[r] \in {"request", "read"} /\ upstream[r] \in {"asked", "streaming"}
  /\ IF pc[r] = "request" THEN Over(r, "late") /\ UNCHANGED session
                          ELSE Over(r, "cut") /\ Close(r)
  /\ UNCHANGED <<upstream, produced, buffer, chunk, received, gone>>

-----------------------------------------------------------------------------
\* The loop over iter_any, which yields all that is there.

ReadChunk(r) ==
  /\ pc[r] = "read" /\ upstream[r] # "broken" /\ buffer[r] # << >>
  /\ Goto(r, "write")
  /\ chunk' = [chunk EXCEPT ![r] = buffer[r]]
  /\ buffer' = [buffer EXCEPT ![r] = << >>]
  /\ UNCHANGED <<session, upstream, produced, received, gone, how>>

\* An agent that has left gets nothing of what its socket still takes.
Write(r) ==
  /\ pc[r] = "write"
  /\ Goto(r, "read")
  /\ received' = IF gone[r] THEN received ELSE [received EXCEPT ![r] = @ \o chunk[r]]
  /\ chunk' = [chunk EXCEPT ![r] = << >>]
  /\ UNCHANGED <<session, upstream, produced, buffer, gone, how>>

WriteFails(r) ==
  /\ pc[r] = "write" /\ gone[r]
  /\ Over(r, "cut")
  /\ Close(r)
  /\ UNCHANGED <<upstream, produced, buffer, chunk, received, gone>>

\* Mutant: write_eof is in the finally clause.
UpstreamBroken_Eof(r) ==
  /\ pc[r] = "read" /\ upstream[r] = "broken"
  /\ Over(r, IF gone[r] THEN "cut" ELSE "eof")
  /\ Close(r)
  /\ UNCHANGED <<upstream, produced, buffer, chunk, received, gone>>

\* A broken upstream raises, also over chunks that had arrived: the agent's
\* connection is closed without the end of its stream.
UpstreamBroken(r) ==
  /\ pc[r] = "read" /\ upstream[r] = "broken"
  /\ Over(r, "cut")
  /\ Close(r)
  /\ UNCHANGED <<upstream, produced, buffer, chunk, received, gone>>

\* write_eof, then release and close.
Eof(r) ==
  /\ pc[r] = "read" /\ upstream[r] = "ended" /\ buffer[r] = << >>
  /\ Over(r, IF gone[r] THEN "cut" ELSE "eof")
  /\ Close(r)
  /\ UNCHANGED <<upstream, produced, buffer, chunk, received, gone>>

-----------------------------------------------------------------------------
\* The upstream and the agent, which are external.

UpstreamAnswers(r) ==
  /\ upstream[r] = "asked" /\ session[r] = "open"
  /\ upstream' = [upstream EXCEPT ![r] = "streaming"]
  /\ UNCHANGED <<pc, session, produced, buffer, chunk, received, gone, how>>

UpstreamSends(r) ==
  /\ upstream[r] = "streaming" /\ session[r] = "open"
  /\ Len(produced[r]) < MaxChunks
  /\ produced' = [produced EXCEPT ![r] = Append(@, Len(@) + 1)]
  /\ buffer' = [buffer EXCEPT ![r] = Append(@, Len(produced[r]) + 1)]
  /\ UNCHANGED <<pc, session, upstream, chunk, received, gone, how>>

UpstreamStops(r) ==
  /\ upstream[r] \in {"asked", "streaming"} /\ session[r] = "open"
  /\ \/ upstream[r] = "streaming" /\ upstream' = [upstream EXCEPT ![r] = "ended"]
     \/ upstream' = [upstream EXCEPT ![r] = "broken"]
  /\ UNCHANGED <<pc, session, produced, buffer, chunk, received, gone, how>>

AgentLeaves(r) ==
  /\ ~gone[r] /\ pc[r] \in {"body"} \cup Relaying
  /\ gone' = [gone EXCEPT ![r] = TRUE]
  /\ UNCHANGED <<pc, session, upstream, produced, buffer, chunk, received, how>>

Relay(r) == \/ Unreachable(r) \/ Answered(r) \/ Late(r)
            \/ Prepare(r) \/ PrepareFails(r)
            \/ ReadChunk(r) \/ Write(r) \/ WriteFails(r)
            \/ UpstreamBroken(r) \/ Eof(r)

Next == \E r \in Calls : \/ Refuse(r) \/ Accept(r) \/ BodyLost(r) \/ Ask(r)
                         \/ Relay(r)
                         \/ UpstreamAnswers(r) \/ UpstreamSends(r) \/ UpstreamStops(r)
                         \/ AgentLeaves(r)

Spec == Init /\ [][Next]_vars

\* The loop runs the handler, the deadline passes, and an agent takes what it
\* is sent or leaves.  The upstream and the body owe nothing.
FairSpec == Spec /\ \A r \in Calls : WF_vars(Relay(r))

-----------------------------------------------------------------------------
\* Every relayed call ends although its upstream may fall silent, and ends with its
\* session closed, but for the two exits that the try does not cover.
CallsEndAndFree ==
  \A r \in Calls :
    pc[r] \in Relaying ~>
      pc[r] = "over" /\ (session[r] = "closed" \/ how[r] \in {"late", "unprepared"})

\* A relay is a text pipe: the agent sees the upstream's chunks in order, nothing
\* twice, and its stream ends normally only after all of them.
Status(r) == IF how[r] = "eof" THEN "closed"
             ELSE IF pc[r] = "over" THEN "broken" ELSE "open"

Pipe == INSTANCE TextPipe WITH
  Streams  <- Calls,
  MaxDeltas <- MaxChunks,
  produced <- produced,
  received <- received,
  status   <- [r \in Calls |-> Status(r)]

RelayImplementsPipe == Pipe!Spec
=============================================================================
