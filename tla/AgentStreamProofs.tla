--------------------------- MODULE AgentStreamProofs ---------------------------
(***************************************************************************)
(* Proofs about AgentStream, for any requests, kinds, threads and bounds:  *)
(* its type invariant, that a stream is closed once, that the artifacts of *)
(* a task grow, that a chat implements the text pipe of TextPipe, and that *)
(* whoever waits waits for somebody.                                       *)
(***************************************************************************)
EXTENDS AgentStream, SequenceTheorems, TLAPS

-----------------------------------------------------------------------------
(* The inductive invariant: one request at a time *)

\* What does not close a stream of kind k; an exec's canceled does not.
Unclosed(k) ==
  Types \ ({"stop", "DONE", "completed", "failed"} \cup IF k = "exec" THEN {} ELSE {"canceled"})

\* Where a run is, as far as its handler tells.
RunFollows(r) ==
  /\ pc[r] = "new" => job[r] = "none" /\ out[r] = << >>
  /\ pc[r] \in {"ended", "aborted", "refused"} => job[r] \in {"none", "finished"}
  /\ job[r] = "none" => sent[r] = << >> /\ queue[r] = << >> /\ accumulated[r] = << >>
  /\ job[r] = "finished" <=> outcome[r] # "none"
  /\ done[r] => job[r] = "finished"

\* How many deltas the handler has taken from the queue.
Taken(r) == IF kind[r] = "chat" THEN Len(out[r]) ELSE Len(accumulated[r])

\* Deltas are numbered as they were produced; those not taken are on the queue, in
\* order, between the hints if there are any.
QueueFollows(r) ==
  /\ \A i \in 1..Len(sent[r]) : sent[r][i] = i
  /\ \A i \in 1..Len(accumulated[r]) : accumulated[r][i] = i
  /\ Len(accumulated[r]) <= Len(sent[r])
  /\ pc[r] \in Handling /\ kind[r] # "exec" =>
       /\ Len(sent[r]) = Taken(r) + Len(queue[r])
       /\ \A i \in 1..Len(queue[r]) : queue[r][i] = Taken(r) + i
  /\ pc[r] \in Handling /\ kind[r] = "exec" =>
       /\ \A i, j \in 1..Len(queue[r]) :
            i < j /\ queue[r][i] # Tool /\ queue[r][j] # Tool => queue[r][i] < queue[r][j]
       /\ \A i \in 1..Len(queue[r]) :
            queue[r][i] # Tool => queue[r][i] \in (Taken(r) + 1)..Len(sent[r])
       /\ \A d \in (Taken(r) + 1)..Len(sent[r]) : \E i \in 1..Len(queue[r]) : queue[r][i] = d

\* What the client of a request that is not closed has been sent.
OutFollows(r) ==
  /\ kind[r] # "chat" => \A i \in 1..Len(out[r]) : out[r][i].type # "delta"
  /\ kind[r] = "chat" /\ pc[r] \in Handling =>
       \A i \in 1..Len(out[r]) : out[r][i] = Event("delta", <<i>>)
  /\ kind[r] \in {"task", "exec"} /\ pc[r] \in Handling =>
       Len(out[r]) >= 1 /\ out[r][1].type = "working"
  /\ pc[r] \notin {"ended", "refused"} =>
       \A i \in 1..Len(out[r]) : out[r][i].type \in Unclosed(kind[r])

\* The artifacts are beginnings of the accumulated text, each longer than the last.
ArtifactsFollow(r) ==
  \A j \in 1..Len(out[r]) : out[r][j].type = "artifact" =>
    /\ Len(out[r][j].text) <= Len(accumulated[r])
    /\ \A k \in 1..Len(out[r][j].text) : out[r][j].text[k] = k
    /\ \A i \in 1..(j - 1) : out[r][i].type = "artifact" =>
         Len(out[r][i].text) < Len(out[r][j].text)

\* A stream that has ended was closed by its last events, and by no others but an exec's
\* canceled.
EndFollows(r) ==
  LET n == Len(out[r]) IN
    /\ kind[r] = "chat" /\ pc[r] = "ended" =>
         /\ n >= 2 /\ out[r][n - 1].type = "stop" /\ out[r][n].type = "DONE"
         /\ \A i \in 1..(n - 2) : out[r][i].type \in Unclosed(kind[r])
    /\ kind[r] \in {"task", "exec"} /\ pc[r] = "ended" =>
         /\ n >= 2 /\ out[r][1].type = "working" /\ out[r][n].type \in {"completed", "failed"}
         /\ \A i \in 1..(n - 1) : out[r][i].type \in Unclosed(kind[r])
         /\ outcome[r] = "final" /\ sent[r] = << >> => \E i \in 1..n : out[r][i].type = "final"

Follows(r) == /\ RunFollows(r)
              /\ QueueFollows(r)
              /\ OutFollows(r)
              /\ ArtifactsFollow(r)
              /\ EndFollows(r)

\* A pool's backlog holds runs of that pool that wait for a thread, each once.
Backlogged(p) ==
  \A i \in 1..Len(backlog[p]) :
    /\ job[backlog[p][i]] = "waiting" /\ Pool(backlog[p][i]) = p
    /\ \A j \in 1..Len(backlog[p]) : j # i => backlog[p][j] # backlog[p][i]

BacklogWaits == \A p \in Pools : Backlogged(p)

IInv == TypeOK /\ BacklogWaits /\ \A r \in Requests : Follows(r)

-----------------------------------------------------------------------------
(* Typing *)

EventSet == [type : Types, text : Seq(1..MaxDeltas)]

\* The events the handlers make up are events.
LEMMA EventsAreTyped ==
  /\ \A t \in Types : Plain(t) \in EventSet
  /\ \A t \in Types, x \in Seq(1..MaxDeltas) : Event(t, x) \in EventSet
<1>1. << >> \in Seq(1..MaxDeltas)
  OBVIOUS
<1>2. QED
  BY <1>1 DEF Plain, Event, EventSet

\* Sending appends to what the client of that request has been sent.
LEMMA SendAppends ==
  ASSUME out \in [Requests -> Seq(EventSet)], NEW r \in Requests,
         NEW events \in Seq(EventSet), Send(r, events)
  PROVE  /\ out' \in [Requests -> Seq(EventSet)]
         /\ out'[r] = out[r] \o events
         /\ \A q \in Requests \ {r} : out'[q] = out[q]
<1>1. out[r] \o events \in Seq(EventSet)
  BY ConcatProperties
<1>2. QED
  BY <1>1 DEF Send

\* A handler step that sends and moves its handler, and touches no type but these.
LEMMA SendTyped ==
  ASSUME TypeOK, NEW r \in Requests, NEW events \in Seq(EventSet), Send(r, events),
         NEW l \in {"ended", "refused", "aborted", "gone"} \cup Handling, Goto(r, l)
  PROVE  out' \in [Requests -> Seq([type : Types, text : Seq(1..MaxDeltas)])]
         /\ pc' \in [Requests -> {"new", "ended", "refused", "aborted", "gone"} \cup Handling]
<1>1. out' \in [Requests -> Seq(EventSet)]
  BY SendAppends DEF TypeOK, EventSet
<1>2. QED
  BY <1>1 DEF TypeOK, EventSet, Goto

\* One, two or three events of the model's types are a sequence of events.
LEMMA FewAreTyped ==
  ASSUME NEW S
  PROVE  /\ << >> \in Seq(S)
         /\ \A a \in S : <<a>> \in Seq(S)
         /\ \A a, b \in S : <<a, b>> \in Seq(S)
  OBVIOUS

\* The steps of a handler that only move it, or let go of what it has.
LEMMA HandlersKeepTypes ==
  ASSUME TypeOK, NEW r \in Requests,
         \/ Refuse(r) \/ Submit(r) \/ SubmitFails(r) \/ Poll(r) \/ GetTimeout(r)
         \/ Aborts(r) \/ OnceEnds(r) \/ ExecEnds(r) \/ Disconnect(r) \/ Cancel(r)
  PROVE  TypeOK'
<1>0. \A t \in Types : Plain(t) \in EventSet
  BY EventsAreTyped
<1>1. CASE Refuse(r)
  <2>1. PICK events \in Seq(EventSet) : Send(r, events)
    BY <1>0, <1>1, FewAreTyped DEF Refuse, Types
  <2>2. QED
    BY <1>1, <2>1, SendTyped DEF Refuse, TypeOK
<1>2. CASE Submit(r)
  <2>1. PICK events \in Seq(EventSet) : Send(r, events)
    BY <1>0, <1>2, FewAreTyped DEF Submit, Types
  <2>2. PICK l \in Handling : Goto(r, l)
    BY <1>2 DEF Submit, Handling
  <2>3. backlog' \in [Pools -> Seq(Requests)]
    BY <1>2, AppendProperties DEF Submit, TypeOK, Pools, Pool
  <2>4. QED
    BY <1>2, <2>1, <2>2, <2>3, SendTyped DEF Submit, TypeOK
<1>3. CASE SubmitFails(r)
  <2>1. kind[r] \in Kinds
    BY StreamAssumption DEF TypeOK
  <2>2. PICK events \in Seq(EventSet) : Send(r, events)
    BY <1>0, <1>3, <2>1, FewAreTyped DEF SubmitFails, Types, Kinds
  <2>3. PICK l \in {"ended", "aborted"} : Goto(r, l)
    BY <1>3 DEF SubmitFails
  <2>4. QED
    BY <1>3, <2>2, <2>3, SendTyped DEF SubmitFails, TypeOK
<1>4. CASE Poll(r) \/ GetTimeout(r) \/ Aborts(r) \/ Disconnect(r)
  <2>1. pc' \in [Requests -> {"new", "ended", "refused", "aborted", "gone"} \cup Handling]
    BY <1>4 DEF Poll, GetTimeout, Aborts, Disconnect, Goto, TypeOK, Handling
  <2>2. QED
    BY <1>4, <2>1 DEF Poll, GetTimeout, Aborts, Disconnect, TypeOK
<1>5. CASE OnceEnds(r)
  <2>1. PICK events \in Seq(EventSet) : Send(r, events)
    BY <1>0, <1>5, FewAreTyped DEF OnceEnds, Types
  <2>2. QED
    BY <1>5, <2>1, SendTyped DEF OnceEnds, TypeOK
<1>6. CASE ExecEnds(r)
  <2>1. PICK events \in Seq(EventSet) : Send(r, events)
    <3>1. PICK first \in Seq(EventSet) : Send(r, first \o <<Plain("completed")>>)
      BY <1>0, <1>6, FewAreTyped DEF ExecEnds, Types
    <3>2. <<Plain("completed")>> \in Seq(EventSet)
      BY <1>0, FewAreTyped DEF Types
    <3>3. first \o <<Plain("completed")>> \in Seq(EventSet)
      BY <3>2, ConcatProperties
    <3>4. QED
      BY <3>1, <3>3
  <2>2. QED
    BY <1>6, <2>1, SendTyped DEF ExecEnds, TypeOK
<1>7. CASE Cancel(r)
  <2>1. PICK events \in Seq(EventSet) : Send(r, events)
    BY <1>0, <1>7, FewAreTyped DEF Cancel, Types
  <2>2. PICK l \in {"gone"} \cup Handling : Goto(r, l)
    BY <1>7 DEF Cancel
  <2>3. QED
    BY <1>7, <2>1, <2>2, SendTyped DEF Cancel, TypeOK
<1>8. QED
  BY <1>1, <1>2, <1>3, <1>4, <1>5, <1>6, <1>7

\* The head of a queue is a hint or a delta, and a delta for any but an exec; the rest
\* of the queue is typed as the queue was.
LEMMA HeadIsTyped ==
  ASSUME TypeOK, NEW r \in Requests, queue[r] # << >>
  PROVE  /\ Head(queue[r]) \in {Tool} \cup 1..MaxDeltas
         /\ Tail(queue[r]) \in Seq({Tool} \cup 1..MaxDeltas)
         /\ kind[r] # "exec" => /\ Head(queue[r]) \in 1..MaxDeltas
                                /\ Tail(queue[r]) \in Seq(1..MaxDeltas)
         /\ Tool \notin 1..MaxDeltas
<1>1. queue[r] \in Seq({Tool} \cup 1..MaxDeltas)
  BY DEF TypeOK
<1>2. kind[r] # "exec" => queue[r] \in Seq(1..MaxDeltas)
  BY DEF TypeOK
<1>3. Tool \notin 1..MaxDeltas
  BY StreamAssumption DEF Tool
<1>4. /\ Head(queue[r]) \in {Tool} \cup 1..MaxDeltas
      /\ Tail(queue[r]) \in Seq({Tool} \cup 1..MaxDeltas)
  BY <1>1, HeadTailProperties
<1>5. kind[r] # "exec" => /\ Head(queue[r]) \in 1..MaxDeltas
                         /\ Tail(queue[r]) \in Seq(1..MaxDeltas)
  BY <1>2, HeadTailProperties
<1>6. QED
  BY <1>3, <1>4, <1>5

\* Taking a delta or a hint from the queue.
LEMMA GetDeltaKeepsTypes ==
  ASSUME TypeOK, NEW r \in Requests, GetDelta(r)
  PROVE  TypeOK'
<1> DEFINE delta == Head(queue[r])
<1>1. /\ delta \in {Tool} \cup 1..MaxDeltas
      /\ Tail(queue[r]) \in Seq({Tool} \cup 1..MaxDeltas)
      /\ kind[r] # "exec" => Tail(queue[r]) \in Seq(1..MaxDeltas)
  BY HeadIsTyped DEF GetDelta
<1>2. accumulated' \in [Requests -> Seq(1..MaxDeltas)]
  <2>1. delta # Tool => Append(accumulated[r], delta) \in Seq(1..MaxDeltas)
    BY <1>1, AppendProperties DEF TypeOK
  <2>2. QED
    BY <2>1 DEF GetDelta, TypeOK
<1>3. PICK events \in Seq(EventSet) : Send(r, events)
  <2>1. CASE delta = Tool
    BY <2>1, EventsAreTyped, FewAreTyped DEF GetDelta, Types
  <2>2. CASE delta # Tool /\ kind[r] = "chat"
    <3>1. Event("delta", <<delta>>) \in EventSet
      BY <1>1, <2>2, EventsAreTyped, FewAreTyped DEF Types
    <3>2. QED
      BY <2>2, <3>1, FewAreTyped DEF GetDelta
  <2>3. CASE delta # Tool /\ kind[r] # "chat"
    <3>1. Event("artifact", accumulated'[r]) \in EventSet
      BY <1>2, EventsAreTyped DEF Types
    <3>2. QED
      BY <2>3, <3>1, FewAreTyped DEF GetDelta
  <2>4. QED
    BY <2>1, <2>2, <2>3
<1>4. queue' \in [Requests -> Seq({Tool} \cup 1..MaxDeltas)]
      /\ \A q \in Requests : kind[q] # "exec" => queue'[q] \in Seq(1..MaxDeltas)
  BY <1>1 DEF GetDelta, TypeOK
<1>5. pc' \in [Requests -> {"new", "ended", "refused", "aborted", "gone"} \cup Handling]
  BY DEF GetDelta, Goto, TypeOK, Handling
<1>6. out' \in [Requests -> Seq([type : Types, text : Seq(1..MaxDeltas)])]
  BY <1>3, SendAppends DEF TypeOK, EventSet
<1>7. QED
  BY <1>2, <1>4, <1>5, <1>6 DEF GetDelta, TypeOK

\* Taking one from the queue that cannot be enqueued.
LEMMA EnqueueFailsKeepsTypes ==
  ASSUME TypeOK, NEW r \in Requests, EnqueueFails(r)
  PROVE  TypeOK'
<1> DEFINE token == Head(queue[r])
<1>1. /\ token \in {Tool} \cup 1..MaxDeltas
      /\ Tail(queue[r]) \in Seq({Tool} \cup 1..MaxDeltas)
  BY HeadIsTyped DEF EnqueueFails
<1>2. accumulated' \in [Requests -> Seq(1..MaxDeltas)]
  <2>1. token # Tool => Append(accumulated[r], token) \in Seq(1..MaxDeltas)
    BY <1>1, AppendProperties DEF TypeOK
  <2>2. QED
    BY <2>1 DEF EnqueueFails, TypeOK
<1>3. queue' \in [Requests -> Seq({Tool} \cup 1..MaxDeltas)]
      /\ \A q \in Requests : kind[q] # "exec" => queue'[q] \in Seq(1..MaxDeltas)
  BY <1>1 DEF EnqueueFails, TypeOK
<1>4. pc' \in [Requests -> {"new", "ended", "refused", "aborted", "gone"} \cup Handling]
  BY DEF EnqueueFails, Goto, TypeOK, Handling
<1>5. QED
  BY <1>2, <1>3, <1>4 DEF EnqueueFails, TypeOK

\* What a chat drains from its queue at the end.
Drained(r) == [i \in 1..Len(queue[r]) |-> Event("delta", <<queue[r][i]>>)]

\* A chat closes with what it drains and its closing events.
LEMMA ChatEndSends ==
  ASSUME TypeOK, NEW r \in Requests, ChatEnds(r)
  PROVE  /\ Drained(r) \in Seq(EventSet) /\ Len(Drained(r)) = Len(queue[r])
         /\ outcome[r] = "runtime_error" =>
              Send(r, <<Plain("stop"), Plain("DONE")>>) /\ queue' = queue
         /\ outcome[r] # "runtime_error" =>
              \E told \in {<< >>, <<Plain("error")>>} :
                 /\ Send(r, Drained(r) \o told \o <<Plain("stop"), Plain("DONE")>>)
                 /\ queue' = [queue EXCEPT ![r] = << >>]
         /\ <<Plain("stop"), Plain("DONE")>> \in Seq(EventSet)
         /\ <<Plain("error")>> \in Seq(EventSet) /\ << >> \in Seq(EventSet)
<1>1. queue[r] \in Seq(1..MaxDeltas)
  BY DEF ChatEnds, TypeOK
<1>2. \A i \in 1..Len(queue[r]) : Event("delta", <<queue[r][i]>>) \in EventSet
  <2> SUFFICES ASSUME NEW i \in 1..Len(queue[r])
               PROVE  Event("delta", <<queue[r][i]>>) \in EventSet
    OBVIOUS
  <2>1. queue[r][i] \in 1..MaxDeltas
    BY <1>1, ElementOfSeq
  <2>2. <<queue[r][i]>> \in Seq(1..MaxDeltas)
    BY <2>1, FewAreTyped
  <2>3. QED
    BY <2>2, EventsAreTyped DEF Types
<1>3. Len(queue[r]) \in Nat
  BY <1>1
<1>4. Drained(r) \in Seq(EventSet) /\ Len(Drained(r)) = Len(queue[r])
  BY <1>2, <1>3, IsASeq DEF Drained
<1>5. QED
  BY <1>4, EventsAreTyped, FewAreTyped DEF ChatEnds, Drained, Types

\* Emptying a queue, or not.
LEMMA EmptyingKeepsTypes ==
  ASSUME TypeOK, NEW r \in Requests, queue' \in {queue, [queue EXCEPT ![r] = << >>]}
  PROVE  /\ queue' \in [Requests -> Seq({Tool} \cup 1..MaxDeltas)]
         /\ \A q \in Requests : kind[q] # "exec" => queue'[q] \in Seq(1..MaxDeltas)
<1>1. << >> \in Seq({Tool} \cup 1..MaxDeltas) /\ << >> \in Seq(1..MaxDeltas)
  OBVIOUS
<1>2. CASE queue' = queue
  BY <1>2 DEF TypeOK
<1>3. CASE queue' = [queue EXCEPT ![r] = << >>]
  BY <1>1, <1>3 DEF TypeOK
<1>4. QED
  BY <1>2, <1>3

\* The ends of a chat and of a task.
LEMMA EndsKeepTypes ==
  ASSUME TypeOK, NEW r \in Requests, ChatEnds(r) \/ TaskEnds(r)
  PROVE  TypeOK'
<1>1. CASE ChatEnds(r)
  <2>1. PICK events \in Seq(EventSet) : Send(r, events)
    <3>1. \A told \in {<< >>, <<Plain("error")>>} :
            Drained(r) \o told \o <<Plain("stop"), Plain("DONE")>> \in Seq(EventSet)
      <4>1. ASSUME NEW told \in Seq(EventSet)
            PROVE  Drained(r) \o told \o <<Plain("stop"), Plain("DONE")>> \in Seq(EventSet)
        BY <1>1, ChatEndSends, ConcatProperties
      <4>2. QED
        BY <1>1, <4>1, ChatEndSends
    <3>2. QED
      BY <1>1, <3>1, ChatEndSends
  <2>2. queue' \in [Requests -> Seq({Tool} \cup 1..MaxDeltas)]
        /\ \A q \in Requests : kind[q] # "exec" => queue'[q] \in Seq(1..MaxDeltas)
    <3>1. queue' \in {queue, [queue EXCEPT ![r] = << >>]}
      BY <1>1 DEF ChatEnds
    <3>2. QED
      BY <3>1, EmptyingKeepsTypes
  <2>3. QED
    BY <1>1, <2>1, <2>2, SendTyped DEF ChatEnds, TypeOK
<1>2. CASE TaskEnds(r)
  <2>1. PICK events \in Seq(EventSet) : Send(r, events)
    <3>1. /\ <<Plain("completed")>> \in Seq(EventSet) /\ <<Plain("failed")>> \in Seq(EventSet)
          /\ << >> \in Seq(EventSet) /\ <<Plain("final")>> \in Seq(EventSet)
      BY EventsAreTyped, FewAreTyped DEF Types
    <3>2. \A first \in Seq(EventSet) : first \o <<Plain("completed")>> \in Seq(EventSet)
      BY <3>1, ConcatProperties
    <3>3. QED
      BY <1>2, <3>1, <3>2 DEF TaskEnds
  <2>2. queue[r] \in Seq(1..MaxDeltas)
    BY <1>2 DEF TaskEnds, TypeOK
  <2>3. accumulated' \in [Requests -> Seq(1..MaxDeltas)]
    <3>1. accumulated[r] \o queue[r] \in Seq(1..MaxDeltas)
      BY <2>2, ConcatProperties DEF TypeOK
    <3>2. QED
      BY <1>2, <3>1 DEF TaskEnds, TypeOK
  <2>4. queue' \in [Requests -> Seq({Tool} \cup 1..MaxDeltas)]
        /\ \A q \in Requests : kind[q] # "exec" => queue'[q] \in Seq(1..MaxDeltas)
    <3>1. queue' \in {queue, [queue EXCEPT ![r] = << >>]}
      BY <1>2 DEF TaskEnds
    <3>2. QED
      BY <3>1, EmptyingKeepsTypes
  <2>5. QED
    BY <1>2, <2>1, <2>3, <2>4, SendTyped DEF TaskEnds, TypeOK
<1>3. QED
  BY <1>1, <1>2

\* The agent's thread appends a delta or a hint.
LEMMA AgentKeepsTypes ==
  ASSUME TypeOK, NEW r \in Requests, Delta(r) \/ ToolCall(r)
  PROVE  TypeOK'
<1>1. CASE Delta(r)
  <2>1. Len(sent[r]) + 1 \in 1..MaxDeltas
    BY <1>1, LenProperties, StreamAssumption DEF Delta, TypeOK
  <2>2. sent' \in [Requests -> Seq(1..MaxDeltas)]
    BY <1>1, <2>1, AppendProperties DEF Delta, TypeOK
  <2>3. /\ Append(queue[r], Len(sent[r]) + 1) \in Seq({Tool} \cup 1..MaxDeltas)
        /\ kind[r] # "exec" => Append(queue[r], Len(sent[r]) + 1) \in Seq(1..MaxDeltas)
    BY <2>1, AppendProperties DEF TypeOK
  <2>4. QED
    BY <1>1, <2>2, <2>3 DEF Delta, TypeOK
<1>2. CASE ToolCall(r)
  <2>1. Append(queue[r], Tool) \in Seq({Tool} \cup 1..MaxDeltas)
    BY AppendProperties DEF TypeOK
  <2>2. tools' \in [Requests -> 0..MaxTools]
    BY <1>2, StreamAssumption DEF ToolCall, TypeOK
  <2>3. queue' \in [Requests -> Seq({Tool} \cup 1..MaxDeltas)]
        /\ \A q \in Requests : kind[q] # "exec" => queue'[q] \in Seq(1..MaxDeltas)
    BY <1>2, <2>1 DEF ToolCall, TypeOK
  <2>4. QED
    BY <1>2, <2>2, <2>3 DEF ToolCall, TypeOK
<1>3. QED
  BY <1>1, <1>2

\* The first of a pool's backlog is a request; the rest is a backlog.
LEMMA OldestIsRequest ==
  ASSUME TypeOK, NEW p \in Pools, backlog[p] # << >>
  PROVE  /\ Head(backlog[p]) \in Requests /\ Tail(backlog[p]) \in Seq(Requests)
         /\ Len(Tail(backlog[p])) = Len(backlog[p]) - 1 /\ Len(backlog[p]) \in Nat \ {0}
         /\ Head(backlog[p]) = backlog[p][1]
         /\ \A i \in 1..Len(Tail(backlog[p])) : Tail(backlog[p])[i] = backlog[p][i + 1]
<1>1. backlog[p] \in Seq(Requests)
  BY DEF TypeOK
<1>2. QED
  BY <1>1, HeadTailProperties, EmptySeq, LenProperties

\* Every step keeps the types.
LEMMA TypeKeeps ==
  ASSUME TypeOK, [Next]_vars
  PROVE  TypeOK'
<1>1. CASE UNCHANGED vars
  BY <1>1 DEF vars, TypeOK
<1>2. ASSUME NEW p \in Pools, StartRun(p)
      PROVE  TypeOK'
  BY <1>2, OldestIsRequest DEF StartRun, TypeOK
<1>3. ASSUME NEW r \in Requests, FinishRun(r) \/ FutureResolves(r)
      PROVE  TypeOK'
  BY <1>3 DEF FinishRun, FutureResolves, TypeOK
<1>4. QED
  BY <1>1, <1>2, <1>3, HandlersKeepTypes, GetDeltaKeepsTypes, EnqueueFailsKeepsTypes,
     EndsKeepTypes, AgentKeepsTypes
    DEF Next, Handle

\* Nothing runs at the start.
LEMMA StartsTyped ==
  ASSUME Init
  PROVE  TypeOK
  BY StreamAssumption, FewAreTyped DEF Init, TypeOK

\* Every variable of the streams keeps its type.
THEOREM TypeCorrect == Spec => []TypeOK
<1>1. Init => TypeOK
  BY StartsTyped
<1>2. TypeOK /\ [Next]_vars => TypeOK'
  BY TypeKeeps
<1>3. QED
  BY <1>1, <1>2, PTL DEF Spec

-----------------------------------------------------------------------------
(* The invariant is inductive: what a step of one request leaves alone *)

\* A step that touches nothing of a request leaves it as it was.
LEMMA FollowsElsewhere ==
  ASSUME NEW q \in Requests, Follows(q), kind' = kind,
         pc'[q] = pc[q], job'[q] = job[q], sent'[q] = sent[q], queue'[q] = queue[q],
         accumulated'[q] = accumulated[q], done'[q] = done[q], outcome'[q] = outcome[q],
         out'[q] = out[q]
  PROVE  Follows(q)'
<1>1. RunFollows(q)'
  BY DEF Follows, RunFollows
<1>2. Taken(q)' = Taken(q)
  BY DEF Taken
<1>3. QueueFollows(q)'
  BY <1>2 DEF Follows, QueueFollows
<1>4. OutFollows(q)'
  BY DEF Follows, OutFollows
<1>5. ArtifactsFollow(q)'
  BY DEF Follows, ArtifactsFollow
<1>6. EndFollows(q)'
  BY DEF Follows, EndFollows
<1>7. QED
  BY <1>1, <1>3, <1>4, <1>5, <1>6 DEF Follows

\* A waiting run stays in the backlog until a thread takes it.
LEMMA BacklogElsewhere ==
  ASSUME TypeOK, BacklogWaits, kind' = kind, backlog' = backlog,
         \A q \in Requests : job[q] = "waiting" => job'[q] = "waiting"
  PROVE  BacklogWaits'
<1>1. \A p \in Pools : \A i \in 1..Len(backlog[p]) : backlog[p][i] \in Requests
  <2> SUFFICES ASSUME NEW p \in Pools, NEW i \in 1..Len(backlog[p])
               PROVE  backlog[p][i] \in Requests
    OBVIOUS
  <2>1. backlog[p] \in Seq(Requests)
    BY DEF TypeOK
  <2>2. QED
    BY <2>1, ElementOfSeq
<1>2. QED
  BY <1>1 DEF BacklogWaits, Backlogged, Pool

\* A step that moves a handler that sends nothing and takes nothing.
LEMMA MoveFollows ==
  ASSUME IInv, NEW r \in Requests,
         Poll(r) \/ GetTimeout(r) \/ Aborts(r) \/ Disconnect(r) \/ FutureResolves(r)
  PROVE  Follows(r)'
<1> USE DEF IInv, TypeOK
<1>1. /\ kind' = kind /\ job' = job /\ sent' = sent /\ queue' = queue /\ out' = out
      /\ accumulated' = accumulated /\ outcome' = outcome
  BY DEF Poll, GetTimeout, Aborts, Disconnect, FutureResolves
<1>2. \/ pc[r] \in Handling /\ pc'[r] \in Handling \cup {"gone"} /\ done' = done
      \/ pc[r] \in Handling /\ pc'[r] = "aborted" /\ done[r] /\ done' = done
      \/ pc' = pc /\ job[r] = "finished"
  BY DEF Poll, GetTimeout, Aborts, Disconnect, FutureResolves, Goto, Handling
<1>3. RunFollows(r)'
  BY <1>1, <1>2 DEF Follows, RunFollows, Handling
<1>4. Taken(r)' = Taken(r) /\ (pc'[r] \in Handling => pc[r] \in Handling)
      /\ (pc'[r] = "ended" <=> pc[r] = "ended") /\ (pc'[r] = "refused" <=> pc[r] = "refused")
  BY <1>1, <1>2 DEF Taken, Handling
<1>5. QueueFollows(r)'
  BY <1>1, <1>4 DEF Follows, QueueFollows
<1>6. OutFollows(r)'
  BY <1>1, <1>4 DEF Follows, OutFollows
<1>7. EndFollows(r)'
  BY <1>1, <1>4 DEF Follows, EndFollows
<1>8. ArtifactsFollow(r)'
  BY <1>1 DEF Follows, ArtifactsFollow
<1>9. QED
  BY <1>3, <1>5, <1>6, <1>7, <1>8 DEF Follows

\* A run that a thread takes, or that ends.
LEMMA RunMoveFollows ==
  ASSUME IInv, NEW r \in Requests, kind' = kind, pc' = pc, sent' = sent, queue' = queue,
         out' = out, accumulated' = accumulated, done' = done,
         \/ job[r] = "waiting" /\ job'[r] = "running" /\ outcome' = outcome
         \/ job[r] = "running" /\ job'[r] = "finished" /\ outcome'[r] # "none"
  PROVE  Follows(r)'
<1> USE DEF IInv
<1>1. pc[r] \notin {"new", "ended", "aborted", "refused"} /\ ~done[r]
  BY DEF Follows, RunFollows
<1>2. RunFollows(r)'
  BY <1>1 DEF Follows, RunFollows
<1>3. EndFollows(r)'
  BY <1>1 DEF EndFollows
<1>4. QueueFollows(r)'
  <2>1. Taken(r)' = Taken(r)
    BY DEF Taken
  <2>2. QED
    BY <2>1 DEF Follows, QueueFollows
<1>5. OutFollows(r)' /\ ArtifactsFollow(r)'
  BY DEF Follows, OutFollows, ArtifactsFollow
<1>6. QED
  BY <1>2, <1>3, <1>4, <1>5 DEF Follows

\* One event more.
LEMMA SendOne ==
  ASSUME TypeOK, NEW r \in Requests, NEW e \in EventSet, Send(r, <<e>>)
  PROVE  /\ Len(out[r]) \in Nat /\ Len(out'[r]) = Len(out[r]) + 1
         /\ out'[r][Len(out[r]) + 1] = e
         /\ \A i \in 1..Len(out[r]) : out'[r][i] = out[r][i]
<1>1. out[r] \in Seq(EventSet) /\ out' = [out EXCEPT ![r] = out[r] \o <<e>>]
  BY DEF TypeOK, EventSet, Send
<1>2. <<e>> \in Seq(EventSet) /\ Len(<<e>>) = 1 /\ <<e>>[1] = e
  OBVIOUS
<1>3. out'[r] = out[r] \o <<e>>
  BY <1>1 DEF TypeOK
<1>4. Len(out[r]) \in Nat
  BY <1>1, LenProperties
<1>5. QED
  BY <1>1, <1>2, <1>3, <1>4, ConcatProperties

\* Two events more.
LEMMA SendTwo ==
  ASSUME TypeOK, NEW r \in Requests, NEW e \in EventSet, NEW f \in EventSet, Send(r, <<e, f>>)
  PROVE  /\ Len(out[r]) \in Nat /\ Len(out'[r]) = Len(out[r]) + 2
         /\ out'[r][Len(out[r]) + 1] = e /\ out'[r][Len(out[r]) + 2] = f
         /\ \A i \in 1..Len(out[r]) : out'[r][i] = out[r][i]
<1>1. out[r] \in Seq(EventSet) /\ out' = [out EXCEPT ![r] = out[r] \o <<e, f>>]
  BY DEF TypeOK, EventSet, Send
<1>2. /\ <<e, f>> \in Seq(EventSet) /\ Len(<<e, f>>) = 2
      /\ <<e, f>>[1] = e /\ <<e, f>>[2] = f
  OBVIOUS
<1>3. out'[r] = out[r] \o <<e, f>>
  BY <1>1 DEF TypeOK
<1>4. Len(out[r]) \in Nat
  BY <1>1, LenProperties
<1>5. QED
  BY <1>1, <1>2, <1>3, <1>4, ConcatProperties

\* The same for an event without text.
LEMMA SendPlain ==
  ASSUME TypeOK, NEW r \in Requests, NEW t \in Types, Send(r, <<Plain(t)>>)
  PROVE  /\ Len(out[r]) \in Nat /\ Len(out'[r]) = Len(out[r]) + 1
         /\ out'[r][Len(out[r]) + 1].type = t
         /\ \A i \in 1..Len(out[r]) : out'[r][i] = out[r][i]
<1>1. Plain(t) \in EventSet /\ Plain(t).type = t
  BY EventsAreTyped DEF Plain, Event
<1>2. QED
  BY <1>1, SendOne

\* The same for two events without text.
LEMMA SendTwoPlain ==
  ASSUME TypeOK, NEW r \in Requests, NEW t \in Types, NEW u \in Types,
         Send(r, <<Plain(t), Plain(u)>>)
  PROVE  /\ Len(out[r]) \in Nat /\ Len(out'[r]) = Len(out[r]) + 2
         /\ out'[r][Len(out[r]) + 1].type = t /\ out'[r][Len(out[r]) + 2].type = u
         /\ \A i \in 1..Len(out[r]) : out'[r][i] = out[r][i]
<1>1. /\ Plain(t) \in EventSet /\ Plain(t).type = t
      /\ Plain(u) \in EventSet /\ Plain(u).type = u
  BY EventsAreTyped DEF Plain, Event
<1>2. QED
  BY <1>1, SendTwo

\* What is sent beside artifacts leaves them alone.
LEMMA ArtifactsElsewhere ==
  ASSUME NEW r \in Requests, ArtifactsFollow(r),
         Len(out[r]) \in Nat, Len(out'[r]) \in Nat,
         Len(accumulated[r]) \in Nat, Len(accumulated'[r]) \in Nat,
         Len(accumulated[r]) <= Len(accumulated'[r]),
         Len(out[r]) <= Len(out'[r]),
         \A i \in 1..Len(out[r]) : out'[r][i] = out[r][i],
         \A i \in (Len(out[r]) + 1)..Len(out'[r]) : out'[r][i].type # "artifact",
         \A i \in 1..Len(out[r]) : Len(out[r][i].text) \in Nat
  PROVE  ArtifactsFollow(r)'
<1> SUFFICES ASSUME NEW j \in 1..Len(out'[r]), out'[r][j].type = "artifact"
             PROVE  /\ Len(out'[r][j].text) <= Len(accumulated'[r])
                    /\ \A k \in 1..Len(out'[r][j].text) : out'[r][j].text[k] = k
                    /\ \A i \in 1..(j - 1) : out'[r][i].type = "artifact" =>
                         Len(out'[r][i].text) < Len(out'[r][j].text)
  BY DEF ArtifactsFollow
<1>1. j \in 1..Len(out[r])
  OBVIOUS
<1>2. out'[r][j] = out[r][j] /\ \A i \in 1..(j - 1) : out'[r][i] = out[r][i]
  BY <1>1
<1>3. /\ out[r][j].type = "artifact" /\ Len(out[r][j].text) \in Nat
      /\ Len(out[r][j].text) <= Len(accumulated[r])
      /\ \A k \in 1..Len(out[r][j].text) : out[r][j].text[k] = k
      /\ \A i \in 1..(j - 1) : out[r][i].type = "artifact" =>
           Len(out[r][i].text) < Len(out[r][j].text)
  BY <1>1, <1>2 DEF ArtifactsFollow
<1>4. Len(out'[r][j].text) <= Len(accumulated'[r])
  <2>1. Len(out'[r][j].text) = Len(out[r][j].text)
    BY <1>2
  <2>2. QED
    BY <1>3, <2>1
<1>5. \A k \in 1..Len(out'[r][j].text) : out'[r][j].text[k] = k
  BY <1>2, <1>3
<1>6. \A i \in 1..(j - 1) : out'[r][i].type = "artifact" =>
        Len(out'[r][i].text) < Len(out'[r][j].text)
  BY <1>2, <1>3
<1>7. QED
  BY <1>4, <1>5, <1>6

\* The lengths of a request's sequences, and what its events are made of.
LEMMA Lengths ==
  ASSUME TypeOK, NEW r \in Requests
  PROVE  /\ Len(out[r]) \in Nat /\ Len(sent[r]) \in Nat
         /\ Len(queue[r]) \in Nat /\ Len(accumulated[r]) \in Nat
         /\ \A i \in 1..Len(out[r]) : /\ out[r][i].type \in Types
                                     /\ Len(out[r][i].text) \in Nat
<1>1. /\ out[r] \in Seq(EventSet) /\ sent[r] \in Seq(1..MaxDeltas)
      /\ queue[r] \in Seq({Tool} \cup 1..MaxDeltas) /\ accumulated[r] \in Seq(1..MaxDeltas)
  BY DEF TypeOK, EventSet
<1>2. ASSUME NEW i \in 1..Len(out[r])
      PROVE  out[r][i].type \in Types /\ Len(out[r][i].text) \in Nat
  <2>1. out[r][i] \in EventSet
    BY <1>1, ElementOfSeq
  <2>2. out[r][i].text \in Seq(1..MaxDeltas) /\ out[r][i].type \in Types
    BY <2>1 DEF EventSet
  <2>3. QED
    BY <2>2, LenProperties
<1>3. QED
  BY <1>1, <1>2, LenProperties

\* A request that is answered or started: it had been sent nothing.
LEMMA FirstEventsFollow ==
  ASSUME IInv, TypeOK', NEW r \in Requests, Refuse(r) \/ Submit(r) \/ SubmitFails(r)
  PROVE  Follows(r)'
<1> USE DEF IInv
<1>1. /\ pc[r] = "new" /\ job[r] = "none" /\ outcome[r] = "none" /\ ~done[r]
      /\ out[r] = << >> /\ sent[r] = << >> /\ queue[r] = << >> /\ accumulated[r] = << >>
  BY DEF Refuse, Submit, SubmitFails, Follows, RunFollows
<1>2. /\ UNCHANGED <<kind, sent, queue, accumulated, done, outcome>>
      /\ job'[r] \in {"none", "waiting"}
      /\ pc'[r] \in {"refused", "ended", "aborted"} => job'[r] = "none"
      /\ pc'[r] \in {"refused", "ended", "aborted"} \cup Handling
  <2>1. CASE Refuse(r)
    BY <1>1, <2>1 DEF Refuse, Goto, TypeOK
  <2>2. CASE Submit(r)
    BY <1>1, <2>2 DEF Submit, Goto, TypeOK, Handling
  <2>3. CASE SubmitFails(r)
    BY <1>1, <2>3 DEF SubmitFails, Goto, TypeOK
  <2>4. QED
    BY <2>1, <2>2, <2>3
<1>3. Len(<< >>) = 0 /\ kind[r] \in Kinds /\ Len(out[r]) = 0 /\ 0 + 1 = 1 /\ 0 + 2 = 2
  BY <1>1, StreamAssumption DEF TypeOK
<1>4. {"working", "stop", "DONE", "failed", "error"} \subseteq Types
  BY DEF Types
<1>5. \/ Len(out'[r]) = 0 /\ pc'[r] \in Handling /\ kind[r] \in {"chat", "once"}
      \/ /\ Len(out'[r]) = 1 /\ out'[r][1].type \in {"failed", "error"}
         /\ pc'[r] = "refused" \/ (pc'[r] = "ended" /\ kind[r] = "once")
      \/ /\ Len(out'[r]) = 1 /\ out'[r][1].type = "working"
         /\ pc'[r] \in Handling \cup {"aborted"} /\ kind[r] \in {"task", "exec"}
      \/ /\ Len(out'[r]) = 2 /\ pc'[r] = "ended" /\ kind[r] = "chat"
         /\ out'[r][1].type = "stop" /\ out'[r][2].type = "DONE"
      \/ /\ Len(out'[r]) = 2 /\ pc'[r] = "ended" /\ kind[r] = "task"
         /\ out'[r][1].type = "working" /\ out'[r][2].type = "failed"
  <2>1. CASE Refuse(r)
    <3>1. PICK t \in {"failed", "error"} : Send(r, <<Plain(t)>>)
      BY <2>1 DEF Refuse
    <3>2. Len(out'[r]) = 1 /\ out'[r][1].type = t
      <4>1. t \in Types
        BY DEF Types
      <4>2. QED
        BY <1>3, <3>1, <4>1, SendPlain
    <3>3. pc'[r] = "refused"
      BY <2>1 DEF Refuse, Goto, TypeOK
    <3>4. QED
      BY <3>2, <3>3
  <2>2. CASE Submit(r)
    <3>1. pc'[r] \in Handling
      BY <2>2 DEF Submit, Goto, TypeOK, Handling
    <3>2. CASE kind[r] \in {"task", "exec"}
      <4>1. Send(r, <<Plain("working")>>)
        BY <2>2, <3>2 DEF Submit
      <4>2. Len(out'[r]) = 1 /\ out'[r][1].type = "working"
        BY <1>3, <1>4, <4>1, SendPlain
      <4>3. QED
        BY <3>1, <3>2, <4>2
    <3>3. CASE kind[r] \notin {"task", "exec"}
      <4>1. Send(r, << >>)
        BY <2>2, <3>3 DEF Submit
      <4>2. out'[r] = << >> \o << >>
        BY <1>1, <4>1 DEF Send, TypeOK
      <4>3. QED
        BY <1>3, <3>1, <3>3, <4>2 DEF Kinds
    <3>4. QED
      BY <3>2, <3>3
  <2>3. CASE SubmitFails(r)
    <3>1. pc'[r] = IF kind[r] = "exec" THEN "aborted" ELSE "ended"
      BY <2>3 DEF SubmitFails, Goto, TypeOK
    <3>2. CASE kind[r] \in {"once", "exec"}
      <4>1. PICK t \in Types : /\ Send(r, <<Plain(t)>>)
                               /\ t = IF kind[r] = "once" THEN "error" ELSE "working"
        BY <1>4, <2>3, <3>2 DEF SubmitFails
      <4>2. Len(out'[r]) = 1 /\ out'[r][1].type = t
        BY <1>3, <4>1, SendPlain
      <4>3. QED
        BY <3>1, <3>2, <4>1, <4>2
    <3>3. CASE kind[r] = "chat"
      <4>1. Send(r, <<Plain("stop"), Plain("DONE")>>)
        BY <2>3, <3>3 DEF SubmitFails
      <4>2. Len(out'[r]) = 2 /\ out'[r][1].type = "stop" /\ out'[r][2].type = "DONE"
        <5>1. TypeOK /\ "stop" \in Types /\ "DONE" \in Types
          BY <1>4
        <5>2. /\ Len(out'[r]) = Len(out[r]) + 2
              /\ out'[r][Len(out[r]) + 1].type = "stop" /\ out'[r][Len(out[r]) + 2].type = "DONE"
          BY <4>1, <5>1, SendTwoPlain
        <5>3. QED
          BY <1>3, <5>2
      <4>3. QED
        BY <3>1, <3>3, <4>2
    <3>4. CASE kind[r] = "task"
      <4>1. Send(r, <<Plain("working"), Plain("failed")>>)
        BY <2>3, <3>4 DEF SubmitFails
      <4>2. Len(out'[r]) = 2 /\ out'[r][1].type = "working" /\ out'[r][2].type = "failed"
        <5>1. TypeOK /\ "working" \in Types /\ "failed" \in Types
          BY <1>4
        <5>2. /\ Len(out'[r]) = Len(out[r]) + 2
              /\ out'[r][Len(out[r]) + 1].type = "working" /\ out'[r][Len(out[r]) + 2].type = "failed"
          BY <4>1, <5>1, SendTwoPlain
        <5>3. QED
          BY <1>3, <5>2
      <4>3. QED
        BY <3>1, <3>4, <4>2
    <3>5. QED
      BY <1>3, <3>2, <3>3, <3>4 DEF Kinds
  <2>4. QED
    BY <2>1, <2>2, <2>3
<1>6. RunFollows(r)'
  BY <1>1, <1>2 DEF RunFollows, Handling
<1>7. QueueFollows(r)'
  <2>1. Taken(r)' = 0 \/ pc'[r] \notin Handling
    BY <1>1, <1>2, <1>3, <1>5 DEF Taken, Handling
  <2>2. QED
    BY <1>1, <1>2, <1>3, <2>1 DEF QueueFollows
<1>8. OutFollows(r)'
  BY <1>2, <1>5 DEF OutFollows, Handling, Unclosed, Types
<1>9. ArtifactsFollow(r)'
  BY <1>5 DEF ArtifactsFollow
<1>10. EndFollows(r)'
  <2>1. "working" \in Unclosed(kind[r]) /\ "ended" \notin Handling
    BY DEF Unclosed, Types, Handling
  <2>2. outcome'[r] # "final" /\ kind'[r] = kind[r]
    BY <1>1, <1>2
  <2>3. CASE Len(out'[r]) # 2
    <3>1. pc'[r] # "ended" \/ kind'[r] = "once"
      BY <1>5, <2>1, <2>2, <2>3
    <3>2. QED
      BY <3>1 DEF EndFollows
  <2>4. CASE Len(out'[r]) = 2
    BY <1>5, <2>1, <2>2, <2>4 DEF EndFollows
  <2>5. QED
    BY <2>3, <2>4
<1>11. QED
  BY <1>6, <1>7, <1>8, <1>9, <1>10 DEF Follows

\* A cancel tells one event more.
LEMMA CancelFollows ==
  ASSUME IInv, TypeOK', NEW r \in Requests, Cancel(r)
  PROVE  Follows(r)'
<1>0. TypeOK /\ Follows(r) /\ "canceled" \in Types /\ "canceled" \in Unclosed(kind[r])
  BY DEF IInv, Types, Unclosed, Cancel
<1>1. /\ UNCHANGED <<kind, job, sent, queue, accumulated, done, outcome>>
      /\ kind[r] = "exec" /\ pc[r] \in Handling /\ pc'[r] \in Handling \cup {"gone"}
      /\ Send(r, <<Plain("canceled")>>)
  BY <1>0 DEF Cancel, Goto, TypeOK
<1>2. /\ Len(out[r]) \in Nat /\ Len(out'[r]) = Len(out[r]) + 1
      /\ out'[r][Len(out[r]) + 1].type = "canceled"
      /\ \A i \in 1..Len(out[r]) : out'[r][i] = out[r][i]
  BY <1>0, <1>1, SendPlain
<1>3. \A i \in 1..Len(out'[r]) : i \in 1..Len(out[r]) \/ i = Len(out[r]) + 1
  BY <1>2
<1>4. RunFollows(r)'
  BY <1>0, <1>1 DEF Follows, RunFollows, Handling
<1>5. QueueFollows(r)'
  <2>1. Taken(r)' = Taken(r)
    BY <1>1 DEF Taken
  <2>2. QED
    BY <1>0, <1>1, <2>1 DEF Follows, QueueFollows
<1>6. OutFollows(r)'
  <2>1. /\ Len(out[r]) >= 1 /\ out[r][1].type = "working"
        /\ \A i \in 1..Len(out[r]) : out[r][i].type # "delta" /\ out[r][i].type \in Unclosed(kind[r])
    BY <1>0, <1>1 DEF Follows, OutFollows, Handling
  <2>2. Len(out'[r]) >= 1 /\ out'[r][1].type = "working"
    BY <1>2, <2>1
  <2>3. \A i \in 1..Len(out'[r]) : out'[r][i].type # "delta" /\ out'[r][i].type \in Unclosed(kind[r])
    BY <1>0, <1>2, <1>3, <2>1
  <2>4. QED
    BY <1>1, <2>2, <2>3 DEF OutFollows
<1>7. ArtifactsFollow(r)'
  BY <1>0, <1>1, <1>2, <1>3, Lengths, ArtifactsElsewhere DEF Follows
<1>8. EndFollows(r)'
  BY <1>1 DEF EndFollows, Handling
<1>9. QED
  BY <1>4, <1>5, <1>6, <1>7, <1>8 DEF Follows

\* A handler that ends: its run has, and what it takes from its queue is numbered.
LEMMA EndingFollows ==
  ASSUME IInv, NEW r \in Requests, kind' = kind, job' = job, sent' = sent, done' = done,
         outcome' = outcome, pc[r] \in Handling, pc'[r] = "ended", done[r],
         \/ accumulated'[r] = accumulated[r]
         \/ kind[r] = "task" /\ accumulated'[r] = accumulated[r] \o queue[r]
  PROVE  /\ RunFollows(r)' /\ QueueFollows(r)'
         /\ Len(accumulated[r]) <= Len(accumulated'[r]) /\ Len(accumulated'[r]) \in Nat
<1>1. TypeOK /\ Follows(r) /\ "ended" \notin Handling
  BY DEF IInv, Handling
<1>2. RunFollows(r)'
  BY <1>1 DEF Follows, RunFollows, Handling
<1>3. CASE accumulated'[r] = accumulated[r]
  BY <1>1, <1>2, <1>3, Lengths DEF Follows, QueueFollows
<1>4. CASE kind[r] = "task" /\ accumulated'[r] = accumulated[r] \o queue[r]
  <2>1. /\ Len(sent[r]) = Len(accumulated[r]) + Len(queue[r])
        /\ \A i \in 1..Len(queue[r]) : queue[r][i] = Len(accumulated[r]) + i
        /\ \A i \in 1..Len(accumulated[r]) : accumulated[r][i] = i
        /\ \A i \in 1..Len(sent[r]) : sent[r][i] = i
    BY <1>1, <1>4 DEF Follows, QueueFollows, Taken
  <2>2. accumulated[r] \in Seq(1..MaxDeltas) /\ queue[r] \in Seq(1..MaxDeltas)
    BY <1>1, <1>4 DEF TypeOK
  <2> DEFINE a == accumulated[r]
             b == queue[r]
  <2>3. /\ Len(a \o b) = Len(a) + Len(b)
        /\ \A i \in 1..(Len(a) + Len(b)) :
             (a \o b)[i] = IF i <= Len(a) THEN a[i] ELSE b[i - Len(a)]
    <3> HIDE DEF a, b
    <3>1. a \in Seq(1..MaxDeltas) /\ b \in Seq(1..MaxDeltas)
      BY <2>2 DEF a, b
    <3>2. QED
      BY <3>1, ConcatProperties
  <2>4. \A i \in 1..Len(accumulated'[r]) : accumulated'[r][i] = i
    <3> SUFFICES ASSUME NEW i \in 1..Len(a \o b)
                 PROVE  (a \o b)[i] = i
      BY <1>4
    <3>1. Len(a) \in Nat /\ Len(b) \in Nat /\ i \in 1..(Len(a) + Len(b))
      BY <1>1, <2>3, Lengths
    <3>2. CASE i <= Len(a)
      BY <2>1, <2>3, <3>1, <3>2
    <3>3. CASE ~(i <= Len(a))
      <4>1. i - Len(a) \in 1..Len(b) /\ Len(a) + (i - Len(a)) = i
        <5>1. ASSUME NEW x \in Nat, NEW y \in Nat, NEW k \in 1..(x + y), ~(k <= x)
              PROVE  k - x \in 1..y /\ x + (k - x) = k
          BY <5>1
        <5>2. QED
          BY <3>1, <3>3, <5>1
      <4>2. (a \o b)[i] = b[i - Len(a)]
        BY <2>3, <3>1, <3>3
      <4>3. b[i - Len(a)] = Len(a) + (i - Len(a))
        BY <2>1, <4>1
      <4>4. QED
        BY <4>1, <4>2, <4>3
    <3>4. QED
      BY <3>2, <3>3
  <2>5. Len(accumulated[r]) \in Nat /\ Len(queue[r]) \in Nat
    BY <1>1, Lengths
  <2>6. QueueFollows(r)'
    <3>1. Len(accumulated'[r]) = Len(sent[r])
      BY <1>4, <2>1, <2>3
    <3>2. Len(sent[r]) <= Len(sent[r])
      BY <1>1, Lengths
    <3>3. QED
      BY <1>1, <2>1, <2>4, <3>1, <3>2 DEF QueueFollows
  <2>7. Len(a) <= Len(accumulated'[r]) /\ Len(accumulated'[r]) \in Nat
    <3>1. \A x, y \in Nat : x <= x + y /\ x + y \in Nat
      OBVIOUS
    <3>2. QED
      BY <1>4, <2>3, <2>5, <3>1
  <2>8. QED
    BY <1>2, <2>6, <2>7
<1>5. QED
  BY <1>3, <1>4

\* The last events of a task or an exec.
LEMMA LastEventsFollow ==
  ASSUME TypeOK, NEW r \in Requests, Follows(r), kind' = kind, kind[r] \in {"task", "exec"},
         pc[r] \in Handling, pc'[r] = "ended",
         Len(accumulated[r]) <= Len(accumulated'[r]), Len(accumulated'[r]) \in Nat,
         \A i \in 1..Len(out[r]) : out'[r][i] = out[r][i],
         \/ /\ Len(out'[r]) = Len(out[r]) + 1
            /\ out'[r][Len(out[r]) + 1].type \in {"completed", "failed"}
         \/ /\ Len(out'[r]) = Len(out[r]) + 2
            /\ out'[r][Len(out[r]) + 1].type = "final"
            /\ out'[r][Len(out[r]) + 2].type = "completed",
         outcome'[r] = "final" /\ sent'[r] = << >> => Len(out'[r]) = Len(out[r]) + 2
  PROVE  OutFollows(r)' /\ ArtifactsFollow(r)' /\ EndFollows(r)'
<1> DEFINE n == Len(out[r])
           m == Len(out'[r])
<1>0. n \in Nat /\ Len(accumulated[r]) \in Nat
      /\ \A i \in 1..n : Len(out[r][i].text) \in Nat
  BY Lengths
<1>1. /\ n >= 1 /\ out[r][1].type = "working"
      /\ \A i \in 1..n : out[r][i].type # "delta" /\ out[r][i].type \in Unclosed(kind[r])
  BY DEF Follows, OutFollows, Handling
<1>2. CASE m = n + 1
  <2>1. /\ \A i \in 1..m : i \in 1..n \/ i = n + 1
        /\ m \in Nat /\ n <= m /\ m >= 2 /\ \A i \in 1..(m - 1) : i \in 1..n
        /\ \A i \in (n + 1)..m : i = n + 1
    BY <1>0, <1>1, <1>2
  <2>2. out'[r][m].type \in {"completed", "failed"}
    BY <1>2, <1>0
  <2>3. OutFollows(r)'
    BY <1>1, <1>2, <2>1, <2>2 DEF OutFollows, Handling
  <2>4. ArtifactsFollow(r)'
    BY <1>0, <1>2, <2>1, <2>2, ArtifactsElsewhere DEF Follows
  <2>5. out'[r][1].type = "working" /\ \A i \in 1..(m - 1) : out'[r][i].type \in Unclosed(kind[r])
    <3>1. 1 \in 1..n /\ \A i \in 1..n : out'[r][i] = out[r][i]
      BY <1>0, <1>1
    <3>2. out'[r][1].type = "working"
      BY <1>1, <3>1
    <3>3. \A i \in 1..n : out'[r][i].type \in Unclosed(kind[r])
      <4> TAKE i \in 1..n
      <4>1. out'[r][i] = out[r][i]
        BY <3>1
      <4>2. QED
        BY <1>1, <4>1
    <3>4. QED
      BY <2>1, <3>2, <3>3
  <2>6. ~(outcome'[r] = "final" /\ sent'[r] = << >>)
    BY <1>0, <1>2
  <2>7. EndFollows(r)'
    BY <2>1, <2>2, <2>5, <2>6 DEF EndFollows
  <2>8. QED
    BY <2>3, <2>4, <2>7
<1>3. CASE m = n + 2
  <2>1. /\ \A i \in 1..m : i \in 1..n \/ i = n + 1 \/ i = n + 2
        /\ m \in Nat /\ n <= m /\ m >= 2 /\ \A i \in 1..(m - 1) : i \in 1..n \/ i = n + 1
        /\ \A i \in (n + 1)..m : i = n + 1 \/ i = n + 2
        /\ n + 1 \in 1..m
    BY <1>0, <1>1, <1>3
  <2>2. out'[r][n + 1].type = "final" /\ out'[r][n + 2].type = "completed"
    BY <1>0, <1>3
  <2>3. OutFollows(r)'
    BY <1>1, <1>3, <2>1, <2>2 DEF OutFollows, Handling
  <2>4. ArtifactsFollow(r)'
    <3>1. \A i \in (Len(out[r]) + 1)..Len(out'[r]) : out'[r][i].type # "artifact"
      BY <2>1, <2>2
    <3>2. ArtifactsFollow(r) /\ Len(out[r]) <= Len(out'[r]) /\ Len(out'[r]) \in Nat
      BY <2>1 DEF Follows
    <3>3. Len(out[r]) \in Nat /\ Len(accumulated[r]) \in Nat
          /\ \A i \in 1..Len(out[r]) : Len(out[r][i].text) \in Nat
      BY Lengths
    <3>4. /\ Len(accumulated[r]) <= Len(accumulated'[r]) /\ Len(accumulated'[r]) \in Nat
          /\ \A i \in 1..Len(out[r]) : out'[r][i] = out[r][i]
          /\ r \in Requests
      OBVIOUS
    <3>5. QED
      BY <3>1, <3>2, <3>3, <3>4, ArtifactsElsewhere
  <2>5. out'[r][1].type = "working" /\ \A i \in 1..(m - 1) : out'[r][i].type \in Unclosed(kind[r])
    <3>1. "final" \in Unclosed(kind[r])
      BY DEF Unclosed, Types
    <3>2. 1 \in 1..n /\ out'[r][1] = out[r][1]
      BY <1>0, <1>1
    <3>3. \A i \in 1..n : out'[r][i].type \in Unclosed(kind[r])
      BY <1>1
    <3>4. QED
      BY <1>1, <2>1, <2>2, <3>1, <3>2, <3>3
  <2>6. out'[r][m].type = "completed" /\ \E i \in 1..m : out'[r][i].type = "final"
    BY <1>3, <2>1, <2>2
  <2>7. EndFollows(r)'
    BY <2>1, <2>5, <2>6 DEF EndFollows
  <2>8. QED
    BY <2>3, <2>4, <2>7
<1>4. QED
  BY <1>2, <1>3

\* Two sequences of one event are joined to a sequence of two.
LEMMA TwoAreJoined ==
  ASSUME NEW S, NEW a \in S, NEW b \in S
  PROVE  <<a>> \o <<b>> = <<a, b>>
<1>1. /\ <<a>> \in Seq(S) /\ Len(<<a>>) = 1 /\ <<a>>[1] = a
      /\ <<b>> \in Seq(S) /\ Len(<<b>>) = 1 /\ <<b>>[1] = b
  OBVIOUS
<1>2. /\ <<a, b>> \in Seq(S) /\ Len(<<a, b>>) = 2
      /\ <<a, b>>[1] = a /\ <<a, b>>[2] = b
  OBVIOUS
<1>3. /\ <<a>> \o <<b>> \in Seq(S) /\ Len(<<a>> \o <<b>>) = 2
      /\ (<<a>> \o <<b>>)[1] = a /\ (<<a>> \o <<b>>)[2] = b
  <2> DEFINE s == <<a>>
             t == <<b>>
  <2> HIDE DEF s, t
  <2>1. s \in Seq(S) /\ t \in Seq(S) /\ Len(s) = 1 /\ Len(t) = 1 /\ s[1] = a /\ t[1] = b
    BY <1>1 DEF s, t
  <2>2. s \o t \in Seq(S) /\ Len(s \o t) = 2 /\ (s \o t)[1] = a /\ (s \o t)[2] = b
    BY <2>1, ConcatProperties
  <2>3. QED
    BY <2>2 DEF s, t
<1>4. \A i \in 1..2 : i = 1 \/ i = 2
  OBVIOUS
<1>5. QED
  BY <1>2, <1>3, <1>4, SeqEqual

\* What a task or an exec sends before its closing event, and the two together.
LEMMA ClosingSends ==
  ASSUME TypeOK, NEW r \in Requests, NEW P \in BOOLEAN,
         Send(r, (IF P THEN <<Plain("final")>> ELSE << >>) \o <<Plain("completed")>>)
  PROVE  /\ \A i \in 1..Len(out[r]) : out'[r][i] = out[r][i]
         /\ P => /\ Len(out'[r]) = Len(out[r]) + 2
                 /\ out'[r][Len(out[r]) + 1].type = "final"
                 /\ out'[r][Len(out[r]) + 2].type = "completed"
         /\ ~P => /\ Len(out'[r]) = Len(out[r]) + 1
                  /\ out'[r][Len(out[r]) + 1].type = "completed"
<1>1. "final" \in Types /\ "completed" \in Types
  BY DEF Types
<1>2. CASE P
  <2>1. <<Plain("final")>> \o <<Plain("completed")>> = <<Plain("final"), Plain("completed")>>
    BY <1>1, EventsAreTyped, TwoAreJoined
  <2>2. Send(r, <<Plain("final"), Plain("completed")>>)
    BY <1>2, <2>1
  <2>3. QED
    BY <1>1, <1>2, <2>2, SendTwoPlain
<1>3. CASE ~P
  <2>1. << >> \o <<Plain("completed")>> = <<Plain("completed")>>
    OBVIOUS
  <2>2. Send(r, <<Plain("completed")>>)
    BY <1>3, <2>1
  <2>3. QED
    BY <1>1, <1>3, <2>2, SendPlain
<1>4. QED
  BY <1>2, <1>3

\* A request answered as a whole, an exec, a task: they close with their last events.
LEMMA TaskEndsFollow ==
  ASSUME IInv, TypeOK', NEW r \in Requests, OnceEnds(r) \/ ExecEnds(r) \/ TaskEnds(r)
  PROVE  Follows(r)'
<1>0. /\ TypeOK /\ Follows(r) /\ Len(<< >>) = 0 /\ Len(sent[r]) \in Nat
      /\ accumulated[r] \in Seq(1..MaxDeltas) /\ sent[r] \in Seq(1..MaxDeltas)
      /\ queue[r] \in Seq({Tool} \cup 1..MaxDeltas)
  BY Lengths DEF IInv, TypeOK
<1>1. /\ UNCHANGED <<kind, job, sent, done, outcome>>
      /\ pc[r] \in Handling /\ pc'[r] = "ended" /\ done[r]
  BY <1>0 DEF OnceEnds, ExecEnds, TaskEnds, Goto, TypeOK, Handling
<1>2. \/ accumulated'[r] = accumulated[r]
      \/ kind[r] = "task" /\ accumulated'[r] = accumulated[r] \o queue[r]
  BY <1>0 DEF OnceEnds, ExecEnds, TaskEnds, TypeOK
<1>3. /\ RunFollows(r)' /\ QueueFollows(r)'
      /\ Len(accumulated[r]) <= Len(accumulated'[r]) /\ Len(accumulated'[r]) \in Nat
  BY <1>1, <1>2, EndingFollows
<1>4. sent[r] = << >> => accumulated[r] = << >>
  <2>1. Len(accumulated[r]) <= Len(sent[r]) /\ Len(accumulated[r]) \in Nat
    BY <1>0, Lengths DEF Follows, QueueFollows
  <2>2. sent[r] = << >> => Len(accumulated[r]) = 0
    BY <1>0, <2>1
  <2>3. QED
    BY <1>0, <2>2, EmptySeq
<1>5. CASE OnceEnds(r)
  <2>1. PICK t \in Types : Send(r, <<Plain(t)>>) /\ t \in {"error", "body"}
    BY <1>5 DEF OnceEnds, Types
  <2>2. /\ Len(out[r]) \in Nat /\ Len(out'[r]) = Len(out[r]) + 1
        /\ out'[r][Len(out[r]) + 1].type = t
        /\ \A i \in 1..Len(out[r]) : out'[r][i] = out[r][i]
    BY <1>0, <2>1, SendPlain
  <2>3. kind[r] = "once" /\ \A i \in 1..Len(out[r]) : out[r][i].type # "delta"
    BY <1>0, <1>5 DEF OnceEnds, Follows, OutFollows
  <2>4. \A i \in 1..Len(out'[r]) : i \in 1..Len(out[r]) \/ i = Len(out[r]) + 1
    BY <2>2
  <2>5. OutFollows(r)' /\ EndFollows(r)'
    BY <1>1, <2>1, <2>2, <2>3, <2>4 DEF OutFollows, EndFollows, Handling
  <2>6. ArtifactsFollow(r)'
    <3>1. \A i \in (Len(out[r]) + 1)..Len(out'[r]) : out'[r][i].type # "artifact"
      BY <2>1, <2>2
    <3>2. /\ ArtifactsFollow(r) /\ Len(out[r]) <= Len(out'[r]) /\ Len(out'[r]) \in Nat
          /\ \A i \in 1..Len(out[r]) : out'[r][i] = out[r][i]
          /\ Len(accumulated[r]) <= Len(accumulated'[r]) /\ Len(accumulated'[r]) \in Nat
      BY <1>0, <1>3, <2>2 DEF Follows
    <3>3. Len(out[r]) \in Nat /\ Len(accumulated[r]) \in Nat
          /\ \A i \in 1..Len(out[r]) : Len(out[r][i].text) \in Nat
      BY <1>0, Lengths
    <3>4. QED
      BY <3>1, <3>2, <3>3, ArtifactsElsewhere
  <2>7. QED
    BY <1>3, <2>5, <2>6 DEF Follows
<1>6. CASE ExecEnds(r)
  <2> DEFINE P == accumulated[r] = << >> /\ outcome[r] # "nothing"
  <2>1. /\ Send(r, (IF P THEN <<Plain("final")>> ELSE << >>) \o <<Plain("completed")>>)
        /\ kind[r] = "exec" /\ P \in BOOLEAN
    BY <1>6 DEF ExecEnds
  <2>2. outcome'[r] = "final" /\ sent'[r] = << >> => P
    BY <1>1, <1>4
  <2> HIDE DEF P
  <2>3. OutFollows(r)' /\ ArtifactsFollow(r)' /\ EndFollows(r)'
    BY <1>0, <1>1, <1>3, <2>1, <2>2, ClosingSends, LastEventsFollow
  <2>4. QED
    BY <1>3, <2>3 DEF Follows
<1>7. CASE TaskEnds(r) /\ outcome[r] = "runtime_error"
  <2>1. Send(r, <<Plain("failed")>>) /\ kind[r] = "task" /\ "failed" \in Types
    BY <1>7 DEF TaskEnds, Types
  <2>2. OutFollows(r)' /\ ArtifactsFollow(r)' /\ EndFollows(r)'
    BY <1>0, <1>1, <1>3, <1>7, <2>1, SendPlain, LastEventsFollow
  <2>3. QED
    BY <1>3, <2>2 DEF Follows
<1>8. CASE TaskEnds(r) /\ outcome[r] # "runtime_error"
  <2> DEFINE P == accumulated'[r] = << >> /\ outcome[r] = "final"
  <2>1. /\ Send(r, (IF P THEN <<Plain("final")>> ELSE << >>) \o <<Plain("completed")>>)
        /\ kind[r] = "task" /\ P \in BOOLEAN
        /\ accumulated'[r] = accumulated[r] \o queue[r]
    BY <1>0, <1>8 DEF TaskEnds, TypeOK
  <2>2. outcome'[r] = "final" /\ sent'[r] = << >> => P
    <3>1. Len(accumulated'[r]) <= Len(sent'[r])
      BY <1>3 DEF QueueFollows
    <3>2. sent'[r] = << >> => Len(accumulated'[r]) = 0
      BY <1>0, <1>3, <3>1
    <3>3. accumulated'[r] \in Seq(1..MaxDeltas)
      BY DEF TypeOK
    <3>4. QED
      BY <1>1, <3>2, <3>3, EmptySeq
  <2> HIDE DEF P
  <2>3. OutFollows(r)' /\ ArtifactsFollow(r)' /\ EndFollows(r)'
    BY <1>0, <1>1, <1>3, <2>1, <2>2, ClosingSends, LastEventsFollow
  <2>4. QED
    BY <1>3, <2>3 DEF Follows
<1>9. QED
  BY <1>5, <1>6, <1>7, <1>8

\* Where the elements of two joined sequences are.
LEMMA JoinedAt ==
  ASSUME NEW S, NEW s \in Seq(S), NEW t \in Seq(S)
  PROVE  /\ s \o t \in Seq(S) /\ Len(s \o t) = Len(s) + Len(t)
         /\ Len(s) \in Nat /\ Len(t) \in Nat
         /\ \A i \in 1..Len(s) : (s \o t)[i] = s[i]
         /\ \A i \in 1..Len(t) : (s \o t)[Len(s) + i] = t[i]
<1>1. Len(s) \in Nat /\ Len(t) \in Nat
  BY LenProperties
<1>2. /\ s \o t \in Seq(S) /\ Len(s \o t) = Len(s) + Len(t)
      /\ \A i \in 1..(Len(s) + Len(t)) :
           (s \o t)[i] = IF i <= Len(s) THEN s[i] ELSE t[i - Len(s)]
  BY ConcatProperties
<1>3. \A i \in 1..Len(s) : i \in 1..(Len(s) + Len(t)) /\ i <= Len(s)
  BY <1>1
<1>4. \A i \in 1..Len(t) : /\ Len(s) + i \in 1..(Len(s) + Len(t))
                           /\ ~(Len(s) + i <= Len(s)) /\ (Len(s) + i) - Len(s) = i
  <2> SUFFICES ASSUME NEW x \in Nat, NEW y \in Nat, NEW i \in 1..y
               PROVE  x + i \in 1..(x + y) /\ ~(x + i <= x) /\ (x + i) - x = i
    BY <1>1
  <2>1. QED
    OBVIOUS
<1>5. QED
  BY <1>1, <1>2, <1>3, <1>4

\* A chat's events: what it had been sent, what it drains, an error or none, two more.
Closed(o, d, t, u) == o \o (d \o t \o u)

\* Where they are.
Laid(w, o, d, t, u) ==
  /\ Len(w) = Len(o) + Len(d) + Len(t) + 2
  /\ \A i \in 1..Len(o) : w[i] = o[i]
  /\ \A i \in 1..Len(d) : w[Len(o) + i] = d[i]
  /\ \A i \in 1..Len(t) : w[Len(o) + Len(d) + i] = t[i]
  /\ w[Len(o) + Len(d) + Len(t) + 1] = u[1]
  /\ w[Len(o) + Len(d) + Len(t) + 2] = u[2]

\* They are there.
LEMMA FourJoined ==
  ASSUME NEW o \in Seq(EventSet), NEW d \in Seq(EventSet), NEW t \in Seq(EventSet),
         NEW u \in Seq(EventSet), Len(t) \in {0, 1}, Len(u) = 2
  PROVE  Laid(Closed(o, d, t, u), o, d, t, u)
<1> DEFINE b == d \o t
           c == b \o u
           s == o \o c
           x == Len(t)
<1>1. /\ b \in Seq(EventSet) /\ Len(b) = Len(d) + x /\ Len(d) \in Nat
      /\ \A i \in 1..Len(d) : b[i] = d[i]
      /\ \A i \in 1..x : b[Len(d) + i] = t[i]
  BY JoinedAt
<1> HIDE DEF b
<1>2. /\ c \in Seq(EventSet) /\ Len(c) = Len(b) + 2
      /\ \A i \in 1..Len(b) : c[i] = b[i]
      /\ \A i \in 1..2 : c[Len(b) + i] = u[i]
  <2>1. /\ b \o u \in Seq(EventSet) /\ Len(b \o u) = Len(b) + Len(u)
        /\ \A i \in 1..Len(b) : (b \o u)[i] = b[i]
        /\ \A i \in 1..Len(u) : (b \o u)[Len(b) + i] = u[i]
    <3>1. b \in Seq(EventSet) /\ u \in Seq(EventSet)
      BY <1>1
    <3>2. QED
      BY ONLY <3>1, JoinedAt
  <2>2. QED
    BY <2>1
<1> HIDE DEF c
<1>3. /\ s \in Seq(EventSet) /\ Len(s) = Len(o) + Len(c) /\ Len(o) \in Nat
      /\ \A i \in 1..Len(o) : s[i] = o[i]
      /\ \A i \in 1..Len(c) : s[Len(o) + i] = c[i]
  <2>1. c \in Seq(EventSet) /\ o \in Seq(EventSet)
    BY <1>2
  <2>2. QED
    BY <2>1, JoinedAt
<1> HIDE DEF s
<1>4. CASE x = 0
  <2>1. Len(b) = Len(d) /\ Len(c) = Len(d) + 2
    BY <1>1, <1>2, <1>4
  <2>2. \A i \in 1..Len(d) : s[Len(o) + i] = d[i]
    <3>1. \A i \in 1..Len(d) : i \in 1..Len(b) /\ i \in 1..Len(c)
      BY <1>1, <2>1
    <3>2. QED
      BY <1>1, <1>2, <1>3, <3>1
  <2>3. s[Len(o) + (Len(d) + 1)] = u[1] /\ s[Len(o) + (Len(d) + 2)] = u[2]
    <3>1. Len(d) + 1 \in 1..Len(c) /\ Len(d) + 2 \in 1..Len(c) /\ 1 \in 1..2 /\ 2 \in 1..2
      BY <1>1, <2>1
    <3>2. QED
      BY <1>2, <1>3, <2>1, <3>1
  <2>4. /\ Len(o) + (Len(d) + 1) = Len(o) + Len(d) + x + 1
        /\ Len(o) + (Len(d) + 2) = Len(o) + Len(d) + x + 2
        /\ Len(s) = Len(o) + Len(d) + x + 2 /\ 1..x = {}
    BY <1>1, <1>3, <1>4, <2>1
  <2>5. QED
    BY <1>3, <1>4, <2>2, <2>3, <2>4 DEF b, c, s, Closed, Laid
<1>5. CASE x = 1
  <2>1. Len(b) = Len(d) + 1 /\ Len(c) = Len(d) + 3
    BY <1>1, <1>2, <1>5
  <2>2. \A i \in 1..Len(d) : s[Len(o) + i] = d[i]
    <3>1. \A i \in 1..Len(d) : i \in 1..Len(b) /\ i \in 1..Len(c)
      BY <1>1, <2>1
    <3>2. QED
      BY <1>1, <1>2, <1>3, <3>1
  <2>3. /\ s[Len(o) + (Len(d) + 1)] = t[1]
        /\ s[Len(o) + (Len(d) + 2)] = u[1] /\ s[Len(o) + (Len(d) + 3)] = u[2]
    <3>1. /\ Len(d) + 1 \in 1..Len(c) /\ Len(d) + 2 \in 1..Len(c) /\ Len(d) + 3 \in 1..Len(c)
          /\ 1 \in 1..2 /\ 2 \in 1..2 /\ 1 \in 1..x /\ Len(d) + 1 \in 1..Len(b)
          /\ Len(b) + 1 = Len(d) + 2 /\ Len(b) + 2 = Len(d) + 3
      BY <1>1, <1>5, <2>1
    <3>2. QED
      BY <1>1, <1>2, <1>3, <3>1
  <2>4. /\ Len(o) + (Len(d) + 1) = Len(o) + Len(d) + 1
        /\ Len(o) + (Len(d) + 2) = Len(o) + Len(d) + x + 1
        /\ Len(o) + (Len(d) + 3) = Len(o) + Len(d) + x + 2
        /\ Len(s) = Len(o) + Len(d) + x + 2 /\ 1..x = {1}
    BY <1>1, <1>3, <1>5, <2>1
  <2>5. QED
    BY <1>3, <1>5, <2>2, <2>3, <2>4 DEF b, c, s, Closed, Laid
<1>6. QED
  BY <1>4, <1>5

\* A chat is closed by the rest of its deltas, an error perhaps, stop and [DONE].
LEMMA ChatCloses ==
  ASSUME IInv, NEW r \in Requests, ChatEnds(r)
  PROVE  \E k \in Nat, x \in {0, 1} :
           /\ Len(out'[r]) = k + x + 2
           /\ \A i \in 1..k : out'[r][i] = Event("delta", <<i>>)
           /\ x = 1 => out'[r][k + 1].type = "error"
           /\ out'[r][k + x + 1].type = "stop" /\ out'[r][k + x + 2].type = "DONE"
           /\ k = IF outcome[r] = "runtime_error" THEN Len(out[r]) ELSE Len(sent[r])
<1> DEFINE n == Len(out[r])
           q == Len(queue[r])
           two == <<Plain("stop"), Plain("DONE")>>
<1>1. TypeOK /\ Follows(r) /\ kind[r] = "chat" /\ pc[r] \in Handling
  BY DEF IInv, ChatEnds, Handling
<1>2. /\ n \in Nat /\ q \in Nat /\ Len(sent[r]) = n + q
      /\ \A i \in 1..n : out[r][i] = Event("delta", <<i>>)
      /\ \A i \in 1..q : queue[r][i] = n + i
  BY <1>1, Lengths DEF Follows, QueueFollows, OutFollows, Taken
<1>3. /\ two \in Seq(EventSet) /\ Len(two) = 2 /\ 1 \in 1..2 /\ 2 \in 1..2
      /\ two[1].type = "stop" /\ two[2].type = "DONE"
  BY <1>1, ChatEndSends DEF Plain, Event
<1>4. out[r] \in Seq(EventSet) /\ out \in [Requests -> Seq(EventSet)]
  BY <1>1 DEF TypeOK, EventSet
<1>5. CASE outcome[r] = "runtime_error"
  <2>1. out'[r] = out[r] \o two
    BY <1>1, <1>3, <1>4, <1>5, ChatEndSends, SendAppends
  <2> HIDE DEF two
  <2>2. /\ Len(out'[r]) = n + 2
        /\ \A i \in 1..n : out'[r][i] = out[r][i]
        /\ out'[r][n + 1] = two[1] /\ out'[r][n + 2] = two[2]
    <3>1. /\ Len(out[r] \o two) = Len(out[r]) + Len(two)
          /\ \A i \in 1..Len(out[r]) : (out[r] \o two)[i] = out[r][i]
          /\ \A i \in 1..Len(two) : (out[r] \o two)[Len(out[r]) + i] = two[i]
      BY <1>3, <1>4, JoinedAt
    <3>2. QED
      BY <1>3, <2>1, <3>1
  <2>3. n + 0 + 2 = n + 2 /\ n + 0 + 1 = n + 1 /\ 0 # 1
    BY <1>2
  <2> HIDE DEF n
  <2>4. \E x \in {0, 1} :
           /\ Len(out'[r]) = n + x + 2
           /\ x = 1 => out'[r][n + 1].type = "error"
           /\ out'[r][n + x + 1].type = "stop" /\ out'[r][n + x + 2].type = "DONE"
    BY <1>3, <2>2, <2>3
  <2>5. \A i \in 1..n : out'[r][i] = Event("delta", <<i>>)
    BY <1>2, <2>2
  <2>6. QED
    BY <1>2, <1>5, <2>4, <2>5 DEF n
<1>6. CASE outcome[r] # "runtime_error"
  <2>1. PICK told \in {<< >>, <<Plain("error")>>} :
          Send(r, Drained(r) \o told \o two)
    BY <1>1, <1>6, ChatEndSends
  <2>2. /\ Drained(r) \in Seq(EventSet) /\ Len(Drained(r)) = q
        /\ told \in Seq(EventSet)
    BY <1>1, ChatEndSends
  <2>3. \A i \in 1..q : Drained(r)[i] = Event("delta", <<n + i>>)
    BY <1>2 DEF Drained
  <2>4. \/ Len(told) = 0
        \/ Len(told) = 1 /\ told[1].type = "error"
    BY DEF Plain, Event
  <2>5. out'[r] = out[r] \o (Drained(r) \o told \o two)
    <3>1. Drained(r) \o told \o two \in Seq(EventSet)
      BY <1>3, <2>2, ConcatProperties
    <3>2. QED
      BY <1>4, <2>1, <3>1, SendAppends
  <2> DEFINE x == Len(told)
             k == Len(out[r]) + Len(Drained(r))
  <2>6. /\ k \in Nat /\ Len(out'[r]) = k + x + 2
        /\ \A i \in 1..Len(out[r]) : out'[r][i] = out[r][i]
        /\ \A i \in 1..Len(Drained(r)) : out'[r][Len(out[r]) + i] = Drained(r)[i]
        /\ x = 1 => out'[r][k + 1] = told[1]
        /\ out'[r][k + x + 1] = two[1] /\ out'[r][k + x + 2] = two[2]
    <3> HIDE DEF two
    <3>1. Drained(r) \in Seq(EventSet) /\ out'[r] = out[r] \o (Drained(r) \o told \o two)
      BY <2>2, <2>5
    <3>2. out'[r] = Closed(out[r], Drained(r), told, two)
      BY <3>1 DEF Closed
    <3>3. QED
      <4>1. /\ out[r] \in Seq(EventSet) /\ Drained(r) \in Seq(EventSet) /\ told \in Seq(EventSet)
            /\ two \in Seq(EventSet) /\ Len(told) \in {0, 1} /\ Len(two) = 2
        BY <1>3, <1>4, <2>2, <2>4, <3>1
      <4>2. Laid(out'[r], out[r], Drained(r), told, two)
        BY <3>2, <4>1, FourJoined
      <4>3. Len(Drained(r)) = q /\ k \in Nat
        <5>1. Len(Drained(r)) = q
          BY <2>2
        <5>2. Len(out[r]) \in Nat /\ Len(queue[r]) \in Nat
          BY <1>1, Lengths
        <5>3. Len(Drained(r)) \in Nat
          BY <5>1, <5>2
        <5>4. k \in Nat
          BY <5>2, <5>3
        <5>5. QED
          BY <5>1, <5>4
      <4>4. x = 1 => 1 \in 1..Len(told)
        OBVIOUS
      <4>5. QED
        BY <4>2, <4>3, <4>4 DEF Laid
  <2>7. k = n + q /\ x \in {0, 1} /\ k = Len(sent[r])
    BY <1>2, <2>2, <2>4
  <2>8. \A i \in 1..k : out'[r][i] = Event("delta", <<i>>)
    <3> SUFFICES ASSUME NEW i \in 1..k
                 PROVE  out'[r][i] = Event("delta", <<i>>)
      OBVIOUS
    <3>1. CASE i \in 1..n
      BY <1>2, <2>6, <3>1
    <3>2. CASE i \notin 1..n
      <4>1. i - n \in 1..q /\ n + (i - n) = i
        <5>1. ASSUME NEW a \in Nat, NEW e \in Nat, NEW f \in 1..(a + e), f \notin 1..a
              PROVE  f - a \in 1..e /\ a + (f - a) = f
          BY <5>1
        <5> HIDE DEF n, q, k
        <5>2. QED
          BY <1>2, <2>7, <3>2, <5>1
      <4>2. out'[r][n + (i - n)] = Drained(r)[i - n]
        BY <2>2, <2>6, <4>1
      <4>3. Drained(r)[i - n] = Event("delta", <<n + (i - n)>>)
        BY <2>3, <4>1
      <4>4. QED
        BY <4>1, <4>2, <4>3
    <3>3. QED
      BY <3>1, <3>2
  <2>9. /\ x = 1 => out'[r][k + 1].type = "error"
        /\ out'[r][k + x + 1].type = "stop" /\ out'[r][k + x + 2].type = "DONE"
    BY <1>3, <2>4, <2>6
  <2> HIDE DEF k, x
  <2>10. QED
    BY <1>6, <2>6, <2>7, <2>8, <2>9
<1>7. QED
  BY <1>5, <1>6

\* A chat that ends.
LEMMA ChatEndsFollow ==
  ASSUME IInv, TypeOK', NEW r \in Requests, ChatEnds(r)
  PROVE  Follows(r)'
<1>0. TypeOK /\ Follows(r)
  BY DEF IInv
<1>1. /\ UNCHANGED <<kind, job, sent, done, outcome, accumulated>> /\ kind[r] = "chat"
      /\ pc[r] \in Handling /\ pc'[r] = "ended" /\ done[r]
  BY <1>0 DEF ChatEnds, Goto, TypeOK, Handling
<1>2. RunFollows(r)' /\ QueueFollows(r)'
  BY <1>1, EndingFollows
<1>3. PICK k \in Nat, x \in {0, 1} :
           /\ Len(out'[r]) = k + x + 2
           /\ \A i \in 1..k : out'[r][i] = Event("delta", <<i>>)
           /\ x = 1 => out'[r][k + 1].type = "error"
           /\ out'[r][k + x + 1].type = "stop" /\ out'[r][k + x + 2].type = "DONE"
           /\ k = IF outcome[r] = "runtime_error" THEN Len(out[r]) ELSE Len(sent[r])
  BY ChatCloses
<1>4. \A i \in 1..k : out'[r][i].type = "delta"
  <2>1. \A i \in 1..k : Event("delta", <<i>>).type = "delta"
    BY DEF Event
  <2>2. QED
    BY <1>3, <2>1
<1> DEFINE m == Len(out'[r])
<1>5. /\ m - 1 = k + x + 1 /\ m >= 2
      /\ \A i \in 1..(m - 2) : i \in 1..k \/ (x = 1 /\ i = k + 1)
      /\ \A i \in 1..m : i \in 1..(m - 2) \/ i = m - 1 \/ i = m
  <2>1. m = k + x + 2
    BY <1>3
  <2> HIDE DEF m
  <2>2. QED
    BY <2>1
<1>6. out'[r][m - 1].type = "stop" /\ out'[r][m].type = "DONE"
  BY <1>3, <1>5
<1>7. \A i \in 1..(m - 2) : out'[r][i].type \in {"delta", "error"}
  BY <1>3, <1>4, <1>5
<1>8. "delta" \in Unclosed(kind[r]) /\ "error" \in Unclosed(kind[r]) /\ "ended" \notin Handling
  BY DEF Unclosed, Types, Handling
<1>9. OutFollows(r)'
  BY <1>1, <1>8 DEF OutFollows
<1>10. ArtifactsFollow(r)'
  <2>1. \A i \in 1..m : out'[r][i].type # "artifact"
    BY <1>5, <1>6, <1>7
  <2>2. QED
    BY <2>1 DEF ArtifactsFollow
<1>11. EndFollows(r)'
  BY <1>1, <1>5, <1>6, <1>7, <1>8 DEF EndFollows
<1>12. QED
  BY <1>2, <1>9, <1>10, <1>11 DEF Follows

\* Where the elements of a sequence are after one is appended to it.
LEMMA AppendedAt ==
  ASSUME NEW S, NEW s \in Seq(S), NEW e \in S
  PROVE  /\ Len(s) \in Nat /\ Len(Append(s, e)) = Len(s) + 1
         /\ Append(s, e)[Len(s) + 1] = e
         /\ \A i \in 1..Len(s) : Append(s, e)[i] = s[i]
         /\ \A i \in 1..Len(Append(s, e)) : i \in 1..Len(s) \/ i = Len(s) + 1
<1>1. /\ Len(s) \in Nat /\ Len(Append(s, e)) = Len(s) + 1
      /\ Append(s, e)[Len(s) + 1] = e
      /\ \A i \in 1..Len(s) : Append(s, e)[i] = s[i]
  BY AppendProperties, LenProperties
<1>2. \A i \in 1..(Len(s) + 1) : i \in 1..Len(s) \/ i = Len(s) + 1
  BY <1>1
<1>3. QED
  BY <1>1, <1>2

\* What the agent's thread adds: a run that runs is not closed, and is not told yet.
LEMMA AgentLeavesOut ==
  ASSUME IInv, NEW r \in Requests, kind' = kind, pc' = pc, job' = job, job[r] = "running",
         accumulated' = accumulated, done' = done, outcome' = outcome, out' = out
  PROVE  RunFollows(r)' /\ OutFollows(r)' /\ ArtifactsFollow(r)' /\ EndFollows(r)'
<1>1. Follows(r) /\ pc[r] \notin {"new", "ended", "aborted", "refused"}
  BY DEF IInv, Follows, RunFollows
<1>2. RunFollows(r)'
  BY <1>1 DEF Follows, RunFollows
<1>3. OutFollows(r)' /\ ArtifactsFollow(r)'
  BY <1>1 DEF Follows, OutFollows, ArtifactsFollow
<1>4. EndFollows(r)'
  BY <1>1 DEF EndFollows
<1>5. QED
  BY <1>2, <1>3, <1>4

\* The agent's thread puts the next delta on the queue.
LEMMA DeltaFollows ==
  ASSUME IInv, NEW r \in Requests, Delta(r)
  PROVE  Follows(r)'
<1>0. TypeOK /\ Follows(r) /\ QueueFollows(r)
  BY DEF IInv, Follows
<1> DEFINE n == Len(sent[r])
           q == Len(queue[r])
           k == Taken(r)
<1>1. /\ UNCHANGED <<kind, pc, job, accumulated, done, outcome, out>> /\ job[r] = "running"
      /\ sent'[r] = Append(sent[r], n + 1) /\ queue'[r] = Append(queue[r], n + 1)
      /\ n + 1 \in 1..MaxDeltas
  <2>1. n + 1 \in 1..MaxDeltas
    BY <1>0, LenProperties, StreamAssumption DEF Delta, TypeOK
  <2>2. QED
    BY <1>0, <2>1 DEF Delta, TypeOK
<1>2. Taken(r)' = k
  BY <1>1 DEF Taken
<1>3. n \in Nat /\ q \in Nat /\ Len(accumulated[r]) \in Nat /\ Len(out[r]) \in Nat /\ k \in Nat
  BY <1>0, Lengths DEF Taken
<1>4. /\ Len(sent'[r]) = n + 1 /\ sent'[r][n + 1] = n + 1
      /\ \A i \in 1..n : sent'[r][i] = sent[r][i]
      /\ \A i \in 1..Len(sent'[r]) : i \in 1..n \/ i = n + 1
  <2>1. sent[r] \in Seq(1..MaxDeltas)
    BY <1>0 DEF TypeOK
  <2>2. QED
    BY <1>1, <2>1, AppendedAt
<1>5. /\ Len(queue'[r]) = q + 1 /\ queue'[r][q + 1] = n + 1
      /\ \A i \in 1..q : queue'[r][i] = queue[r][i]
      /\ \A i \in 1..Len(queue'[r]) : i \in 1..q \/ i = q + 1
  <2>1. queue[r] \in Seq({Tool} \cup 1..MaxDeltas) /\ n + 1 \in {Tool} \cup 1..MaxDeltas
    BY <1>0, <1>1 DEF TypeOK
  <2>2. QED
    BY <1>1, <2>1, AppendedAt
<1> HIDE DEF n, q, k
<1>6. /\ \A i \in 1..Len(sent'[r]) : sent'[r][i] = i
      /\ \A i \in 1..Len(accumulated'[r]) : accumulated'[r][i] = i
      /\ Len(accumulated'[r]) <= Len(sent'[r])
  <2>1. /\ \A i \in 1..n : sent[r][i] = i
        /\ \A i \in 1..Len(accumulated[r]) : accumulated[r][i] = i
        /\ Len(accumulated[r]) <= n
    BY <1>0 DEF QueueFollows, n
  <2>2. Len(accumulated[r]) <= n + 1
    BY <1>3, <2>1
  <2>3. QED
    BY <1>1, <1>4, <2>1, <2>2
<1>7. pc'[r] \in Handling /\ kind'[r] # "exec" =>
        /\ Len(sent'[r]) = Taken(r)' + Len(queue'[r])
        /\ \A i \in 1..Len(queue'[r]) : queue'[r][i] = Taken(r)' + i
  <2> SUFFICES ASSUME pc[r] \in Handling, kind[r] # "exec"
               PROVE  /\ n + 1 = k + (q + 1)
                      /\ \A i \in 1..Len(queue'[r]) : queue'[r][i] = k + i
    BY <1>1, <1>2, <1>4, <1>5
  <2>1. n = k + q /\ \A i \in 1..q : queue[r][i] = k + i
    BY <1>0 DEF QueueFollows, n, k, q
  <2>2. n + 1 = k + (q + 1)
    BY <1>3, <2>1
  <2>3. QED
    BY <1>5, <2>1, <2>2
<1>8. pc'[r] \in Handling /\ kind'[r] = "exec" =>
       /\ \A i, j \in 1..Len(queue'[r]) :
            i < j /\ queue'[r][i] # Tool /\ queue'[r][j] # Tool => queue'[r][i] < queue'[r][j]
       /\ \A i \in 1..Len(queue'[r]) :
            queue'[r][i] # Tool => queue'[r][i] \in (Taken(r)' + 1)..Len(sent'[r])
       /\ \A d \in (Taken(r)' + 1)..Len(sent'[r]) :
            \E i \in 1..Len(queue'[r]) : queue'[r][i] = d
  <2> SUFFICES ASSUME pc[r] \in Handling, kind[r] = "exec"
               PROVE  /\ \A i, j \in 1..Len(queue'[r]) :
                           i < j /\ queue'[r][i] # Tool /\ queue'[r][j] # Tool =>
                             queue'[r][i] < queue'[r][j]
                      /\ \A i \in 1..Len(queue'[r]) :
                           queue'[r][i] # Tool => queue'[r][i] \in (k + 1)..(n + 1)
                      /\ \A d \in (k + 1)..(n + 1) :
                           \E i \in 1..Len(queue'[r]) : queue'[r][i] = d
    BY <1>1, <1>2, <1>4
  <2>1. /\ \A i, j \in 1..q :
             i < j /\ queue[r][i] # Tool /\ queue[r][j] # Tool => queue[r][i] < queue[r][j]
        /\ \A i \in 1..q : queue[r][i] # Tool => queue[r][i] \in (k + 1)..n
        /\ \A d \in (k + 1)..n : \E i \in 1..q : queue[r][i] = d
    BY <1>0 DEF QueueFollows, n, k, q
  <2>2. k <= n
    BY <1>0 DEF QueueFollows, Taken, n, k
  <2>3. /\ \A x \in (k + 1)..n : x < n + 1 /\ x \in (k + 1)..(n + 1)
        /\ n + 1 \in (k + 1)..(n + 1)
        /\ \A x \in (k + 1)..(n + 1) : x \in (k + 1)..n \/ x = n + 1
    BY <1>3, <2>2
  <2>4. ASSUME NEW i \in 1..Len(queue'[r]), NEW j \in 1..Len(queue'[r]),
               i < j, queue'[r][i] # Tool, queue'[r][j] # Tool
        PROVE  queue'[r][i] < queue'[r][j]
    <3>1. i \in 1..q
      BY <1>3, <1>5, <2>4
    <3>2. CASE j \in 1..q
      BY <1>5, <2>1, <2>4, <3>1, <3>2
    <3>3. CASE j = q + 1
      BY <1>5, <2>1, <2>3, <2>4, <3>1, <3>3
    <3>4. QED
      BY <1>5, <3>2, <3>3
  <2>5. ASSUME NEW i \in 1..Len(queue'[r]), queue'[r][i] # Tool
        PROVE  queue'[r][i] \in (k + 1)..(n + 1)
    <3>1. CASE i \in 1..q
      BY <1>5, <2>1, <2>3, <2>5, <3>1
    <3>2. CASE i = q + 1
      BY <1>5, <2>3, <3>2
    <3>3. QED
      BY <1>5, <3>1, <3>2
  <2>6. ASSUME NEW d \in (k + 1)..(n + 1)
        PROVE  \E i \in 1..Len(queue'[r]) : queue'[r][i] = d
    <3>1. \A i \in 1..q : i \in 1..Len(queue'[r])
      BY <1>3, <1>5
    <3>2. q + 1 \in 1..Len(queue'[r])
      BY <1>3, <1>5
    <3>3. CASE d \in (k + 1)..n
      BY <1>5, <2>1, <3>1, <3>3
    <3>4. CASE d = n + 1
      BY <1>5, <3>2, <3>4
    <3>5. QED
      BY <2>3, <3>3, <3>4
  <2>7. QED
    BY <2>4, <2>5, <2>6
<1>9. QueueFollows(r)'
  BY <1>6, <1>7, <1>8 DEF QueueFollows
<1>10. QED
  BY <1>1, <1>9, AgentLeavesOut DEF Follows

\* The agent's thread puts a hint on the queue of an exec.
LEMMA ToolCallFollows ==
  ASSUME IInv, NEW r \in Requests, ToolCall(r)
  PROVE  Follows(r)'
<1>0. TypeOK /\ Follows(r) /\ QueueFollows(r)
  BY DEF IInv, Follows
<1> DEFINE q == Len(queue[r])
<1>1. /\ UNCHANGED <<kind, pc, job, sent, accumulated, done, outcome, out>>
      /\ job[r] = "running" /\ kind[r] = "exec" /\ queue'[r] = Append(queue[r], Tool)
  BY <1>0 DEF ToolCall, TypeOK
<1>2. Taken(r)' = Taken(r)
  BY <1>1 DEF Taken
<1>3. /\ Len(queue'[r]) = q + 1 /\ queue'[r][q + 1] = Tool /\ q \in Nat
      /\ \A i \in 1..q : queue'[r][i] = queue[r][i]
      /\ \A i \in 1..Len(queue'[r]) : i \in 1..q \/ i = q + 1
  <2>1. queue[r] \in Seq({Tool} \cup 1..MaxDeltas) /\ Tool \in {Tool} \cup 1..MaxDeltas
    BY <1>0 DEF TypeOK
  <2>2. QED
    BY <1>1, <2>1, AppendedAt
<1>4. /\ \A i \in 1..Len(queue'[r]) : queue'[r][i] # Tool => i \in 1..q
      /\ \A i \in 1..q : i \in 1..Len(queue'[r])
  BY <1>3
<1>5. QueueFollows(r)'
  BY <1>0, <1>1, <1>2, <1>3, <1>4 DEF QueueFollows
<1>6. QED
  BY <1>1, <1>5, AgentLeavesOut DEF Follows

\* What the handler takes is the next delta, or for an exec a hint perhaps.
LEMMA HeadIsNext ==
  ASSUME IInv, NEW r \in Requests, pc[r] \in Handling, queue[r] # << >>
  PROVE  /\ Len(queue[r]) \in Nat \ {0} /\ Head(queue[r]) = queue[r][1]
         /\ Len(Tail(queue[r])) = Len(queue[r]) - 1
         /\ \A i \in 1..Len(Tail(queue[r])) : /\ i + 1 \in 1..Len(queue[r])
                                             /\ Tail(queue[r])[i] = queue[r][i + 1]
         /\ Head(queue[r]) # Tool => /\ Head(queue[r]) = Taken(r) + 1
                                     /\ Taken(r) + 1 <= Len(sent[r])
         /\ Head(queue[r]) = Tool => kind[r] = "exec"
<1> DEFINE q == Len(queue[r])
           k == Taken(r)
           n == Len(sent[r])
<1>1. TypeOK /\ Follows(r) /\ QueueFollows(r)
  BY DEF IInv, Follows
<1>2. /\ q \in Nat \ {0} /\ Head(queue[r]) = queue[r][1]
      /\ Len(Tail(queue[r])) = q - 1
      /\ \A i \in 1..Len(Tail(queue[r])) : Tail(queue[r])[i] = queue[r][i + 1]
  <2>1. queue[r] \in Seq({Tool} \cup 1..MaxDeltas)
    BY <1>1 DEF TypeOK
  <2>2. QED
    BY <2>1, HeadTailProperties, EmptySeq, LenProperties
<1>3. \A i \in 1..Len(Tail(queue[r])) : i + 1 \in 1..q
  BY <1>2
<1>4. Head(queue[r]) = Tool => kind[r] = "exec"
  BY <1>1, HeadIsTyped
<1>5. k \in Nat /\ n \in Nat
  BY <1>1, Lengths DEF Taken
<1>6. Head(queue[r]) # Tool => Head(queue[r]) = k + 1 /\ k + 1 <= n
  <2>1. CASE kind[r] # "exec"
    <3>1. n = k + q /\ queue[r][1] = k + 1
      <4>1. 1 \in 1..Len(queue[r])
        BY <1>2
      <4>2. QED
        BY <1>1, <2>1, <4>1 DEF QueueFollows
    <3>2. k + 1 <= n
      BY <1>2, <1>5, <3>1
    <3>3. QED
      BY <1>2, <3>1, <3>2
  <2>2. CASE kind[r] = "exec" /\ queue[r][1] # Tool
    <3>1. /\ \A i, j \in 1..q :
               i < j /\ queue[r][i] # Tool /\ queue[r][j] # Tool => queue[r][i] < queue[r][j]
          /\ \A i \in 1..q : queue[r][i] # Tool => queue[r][i] \in (k + 1)..n
          /\ \A d \in (k + 1)..n : \E i \in 1..q : queue[r][i] = d
      BY <1>1, <2>2 DEF QueueFollows
    <3> HIDE DEF q, k, n
    <3>2. 1 \in 1..q /\ queue[r][1] \in (k + 1)..n
      BY <1>2, <2>2, <3>1
    <3>3. k + 1 \in (k + 1)..n /\ k + 1 # Tool
      BY <1>5, <3>2 DEF Tool
    <3>4. PICK i \in 1..q : queue[r][i] = k + 1
      BY <3>1, <3>3
    <3>5. i = 1
      <4>1. SUFFICES ASSUME i # 1
                     PROVE  FALSE
        OBVIOUS
      <4>2. 1 < i
        BY <1>2, <4>1
      <4>3. queue[r][1] < k + 1
        BY <2>2, <3>1, <3>2, <3>3, <3>4, <4>2
      <4>4. QED
        BY <1>5, <3>2, <4>3
    <3>6. k + 1 <= n
      BY <1>5, <3>3
    <3>7. QED
      BY <1>2, <3>4, <3>5, <3>6
  <2>3. QED
    BY <1>2, <2>1, <2>2
<1>7. QED
  BY <1>2, <1>3, <1>4, <1>6

\* The rest of the queue follows what has been taken.
LEMMA TailFollows ==
  ASSUME IInv, NEW r \in Requests, pc[r] \in Handling, queue[r] # << >>,
         kind' = kind, pc'[r] \in Handling, sent' = sent, queue'[r] = Tail(queue[r]),
         \A i \in 1..Len(accumulated'[r]) : accumulated'[r][i] = i,
         Len(accumulated'[r]) <= Len(sent[r]),
         Taken(r)' = IF Head(queue[r]) = Tool THEN Taken(r) ELSE Taken(r) + 1
  PROVE  QueueFollows(r)'
<1> DEFINE q == Len(queue[r])
           k == Taken(r)
           n == Len(sent[r])
           l == Taken(r)'
<1>1. TypeOK /\ Follows(r) /\ QueueFollows(r)
  BY DEF IInv, Follows
<1>2. /\ q \in Nat \ {0} /\ Head(queue[r]) = queue[r][1] /\ 1 \in 1..q
      /\ Len(queue'[r]) = q - 1
      /\ \A i \in 1..Len(queue'[r]) : i + 1 \in 1..q /\ queue'[r][i] = queue[r][i + 1]
      /\ queue[r][1] # Tool => queue[r][1] = k + 1
      /\ queue[r][1] = Tool => kind[r] = "exec"
  BY HeadIsNext
<1>3. k \in Nat /\ n \in Nat /\ l = IF queue[r][1] = Tool THEN k ELSE k + 1
  BY <1>1, <1>2, Lengths DEF Taken
<1>4. \A i \in 1..n : sent'[r][i] = i
  BY <1>1 DEF QueueFollows
<1>5. ASSUME kind[r] # "exec"
      PROVE  n = l + (q - 1) /\ \A i \in 1..Len(queue'[r]) : queue'[r][i] = l + i
  <2>1. n = k + q /\ \A i \in 1..q : queue[r][i] = k + i
    BY <1>1, <1>5 DEF QueueFollows
  <2>2. l = k + 1
    BY <1>2, <1>3, <1>5
  <2> HIDE DEF q, k, n, l
  <2>3. n = l + (q - 1)
    BY <1>2, <1>3, <2>1, <2>2
  <2>4. ASSUME NEW i \in 1..Len(queue'[r])
        PROVE  queue'[r][i] = l + i
    <3>1. queue'[r][i] = k + (i + 1)
      BY <1>2, <2>1
    <3>2. k + (i + 1) = l + i
      BY <1>3, <2>2
    <3>3. QED
      BY <3>1, <3>2
  <2>5. QED
    BY <2>3, <2>4
<1>6. ASSUME kind[r] = "exec"
      PROVE  /\ \A i, j \in 1..Len(queue'[r]) :
                  i < j /\ queue'[r][i] # Tool /\ queue'[r][j] # Tool =>
                    queue'[r][i] < queue'[r][j]
             /\ \A i \in 1..Len(queue'[r]) :
                  queue'[r][i] # Tool => queue'[r][i] \in (l + 1)..n
             /\ \A d \in (l + 1)..n : \E i \in 1..Len(queue'[r]) : queue'[r][i] = d
  <2>1. /\ \A i, j \in 1..q :
             i < j /\ queue[r][i] # Tool /\ queue[r][j] # Tool => queue[r][i] < queue[r][j]
        /\ \A i \in 1..q : queue[r][i] # Tool => queue[r][i] \in (k + 1)..n
        /\ \A d \in (k + 1)..n : \E i \in 1..q : queue[r][i] = d
    BY <1>1, <1>6 DEF QueueFollows
  <2> HIDE DEF q, k, n, l
  <2>2. \A i, j \in 1..Len(queue'[r]) :
           i < j /\ queue'[r][i] # Tool /\ queue'[r][j] # Tool => queue'[r][i] < queue'[r][j]
    <3>1. \A i, j \in 1..Len(queue'[r]) : i < j => i + 1 < j + 1
      BY <1>2
    <3>2. QED
      BY <1>2, <2>1, <3>1
  <2>3. ASSUME NEW i \in 1..Len(queue'[r]), queue'[r][i] # Tool
        PROVE  queue'[r][i] \in (l + 1)..n
    <3>1. i + 1 \in 1..q /\ 1 < i + 1 /\ queue[r][i + 1] = queue'[r][i]
      BY <1>2
    <3>2. queue[r][i + 1] \in (k + 1)..n
      BY <2>1, <2>3, <3>1
    <3>3. CASE queue[r][1] = Tool
      BY <1>3, <3>1, <3>2, <3>3
    <3>4. CASE queue[r][1] # Tool
      <4>1. queue[r][1] < queue[r][i + 1]
        BY <1>2, <2>1, <2>3, <3>1, <3>4
      <4>2. k + 1 < queue[r][i + 1] /\ l = k + 1
        BY <1>2, <1>3, <3>4, <4>1
      <4> DEFINE v == queue[r][i + 1]
      <4>3. v \in (k + 1)..n /\ k + 1 < v
        BY <3>2, <4>2
      <4> HIDE DEF v
      <4>4. v \in (l + 1)..n
        BY <1>3, <4>2, <4>3
      <4>5. QED
        BY <3>1, <4>4 DEF v
    <3>5. QED
      BY <3>3, <3>4
  <2>4. ASSUME NEW d \in (l + 1)..n
        PROVE  \E i \in 1..Len(queue'[r]) : queue'[r][i] = d
    <3>1. d \in (k + 1)..n /\ d # Tool /\ (l = k + 1 => d # k + 1)
      BY <1>3 DEF Tool
    <3>2. PICK i \in 1..q : queue[r][i] = d
      BY <2>1, <3>1
    <3>3. i # 1
      BY <1>2, <1>3, <3>1, <3>2
    <3>4. i - 1 \in 1..Len(queue'[r]) /\ (i - 1) + 1 = i
      BY <1>2, <3>3
    <3>5. QED
      BY <1>2, <3>2, <3>4
  <2>5. QED
    BY <2>2, <2>3, <2>4
<1>7. Len(sent'[r]) = n /\ kind'[r] = kind[r]
  OBVIOUS
<1> HIDE DEF l, n
<1>8. QED
  BY <1>2, <1>4, <1>5, <1>6, <1>7 DEF QueueFollows, l, n

\* What is told while a request is handled keeps OutFollows, if it is told in order.
LEMMA OneMoreFollows ==
  ASSUME TypeOK, NEW r \in Requests, Follows(r), kind' = kind, pc[r] \in Handling,
         pc'[r] \in Handling, NEW e \in EventSet, Send(r, <<e>>), e.type \in Unclosed(kind[r]),
         kind[r] = "chat" => e = Event("delta", <<Len(out[r]) + 1>>),
         kind[r] # "chat" => e.type # "delta"
  PROVE  OutFollows(r)' /\ EndFollows(r)'
<1> DEFINE n == Len(out[r])
<1>1. /\ n \in Nat /\ Len(out'[r]) = n + 1 /\ out'[r][n + 1] = e
      /\ \A i \in 1..n : out'[r][i] = out[r][i]
  BY SendOne
<1>2. \A i \in 1..Len(out'[r]) : i \in 1..n \/ i = n + 1
  BY <1>1
<1>3. OutFollows(r) /\ "ended" \notin Handling /\ "refused" \notin Handling
  BY DEF Follows, Handling
<1>4. kind[r] # "chat" => \A i \in 1..Len(out'[r]) : out'[r][i].type # "delta"
  BY <1>1, <1>2, <1>3 DEF OutFollows
<1>5. kind[r] = "chat" => \A i \in 1..Len(out'[r]) : out'[r][i] = Event("delta", <<i>>)
  <2> SUFFICES ASSUME kind[r] = "chat", NEW i \in 1..Len(out'[r])
               PROVE  out'[r][i] = Event("delta", <<i>>)
    OBVIOUS
  <2>1. CASE i \in 1..n
    BY <1>1, <1>3, <2>1 DEF OutFollows
  <2>2. CASE i = n + 1
    BY <1>1, <2>2
  <2>3. QED
    BY <1>2, <2>1, <2>2
<1>6. kind[r] \in {"task", "exec"} => Len(out'[r]) >= 1 /\ out'[r][1].type = "working"
  <2>1. kind[r] \in {"task", "exec"} => n >= 1 /\ out[r][1].type = "working"
    BY <1>3 DEF OutFollows
  <2>2. n >= 1 => n + 1 >= 1 /\ 1 \in 1..n
    BY <1>1
  <2>3. QED
    BY <1>1, <2>1, <2>2
<1>7. \A i \in 1..Len(out'[r]) : out'[r][i].type \in Unclosed(kind[r])
  <2>1. \A i \in 1..n : out[r][i].type \in Unclosed(kind[r])
    BY <1>3 DEF OutFollows
  <2>2. QED
    BY <1>1, <1>2, <2>1
<1>8. OutFollows(r)'
  BY <1>3, <1>4, <1>5, <1>6, <1>7 DEF OutFollows
<1>9. EndFollows(r)'
  BY <1>3 DEF EndFollows
<1>10. QED
  BY <1>8, <1>9

\* A delta or a hint is taken from the queue and told.
LEMMA GetDeltaFollows ==
  ASSUME IInv, TypeOK', NEW r \in Requests, GetDelta(r)
  PROVE  Follows(r)'
<1> DEFINE h == Head(queue[r])
           n == Len(out[r])
           k == Taken(r)
           a == Len(accumulated[r])
<1>0. TypeOK /\ Follows(r) /\ "get" \in Handling /\ "loop" \in Handling
  BY DEF IInv, Handling
<1>1. /\ UNCHANGED <<kind, job, sent, done, outcome>> /\ queue[r] # << >>
      /\ queue'[r] = Tail(queue[r]) /\ pc[r] = "get" /\ pc'[r] = "loop"
  BY <1>0 DEF GetDelta, Goto, TypeOK
<1>2. /\ h # Tool => h = k + 1 /\ k + 1 <= Len(sent[r])
      /\ h = Tool => kind[r] = "exec"
      /\ h \in {Tool} \cup 1..MaxDeltas
  BY <1>0, <1>1, HeadIsNext, HeadIsTyped
<1>3. RunFollows(r)'
  <2>1. job[r] # "none" /\ RunFollows(r)
    BY <1>0, <1>1 DEF Follows, RunFollows
  <2>2. QED
    BY <1>1, <2>1 DEF RunFollows
<1>4. /\ n \in Nat /\ a \in Nat /\ k \in Nat
      /\ \A i \in 1..n : Len(out[r][i].text) \in Nat
      /\ \A i \in 1..a : accumulated[r][i] = i
      /\ a <= Len(sent[r]) /\ Len(accumulated'[r]) \in Nat /\ ArtifactsFollow(r)
  <2>1. accumulated'[r] \in Seq(1..MaxDeltas)
    BY DEF TypeOK
  <2>2. Len(accumulated'[r]) \in Nat
    BY <2>1, LenProperties
  <2>3. QED
    BY <1>0, <2>2, Lengths DEF Taken, Follows, QueueFollows
<1>5. "tool" \in Types /\ "artifact" \in Types /\ "delta" \in Types
      /\ "tool" \in Unclosed(kind[r]) /\ "artifact" \in Unclosed(kind[r]) /\ "delta" \in Unclosed(kind[r])
  BY DEF Types, Unclosed
<1>6. CASE h = Tool
  <2>1. Send(r, <<Plain("tool")>>) /\ accumulated' = accumulated /\ kind[r] = "exec"
    BY <1>2, <1>6 DEF GetDelta
  <2>2. Plain("tool") \in EventSet /\ Plain("tool").type = "tool"
    BY <1>5, EventsAreTyped DEF Plain, Event
  <2>3. OutFollows(r)' /\ EndFollows(r)'
    BY <1>0, <1>1, <1>5, <2>1, <2>2, OneMoreFollows
  <2>4. QueueFollows(r)'
    <3>1. Taken(r)' = IF h = Tool THEN k ELSE k + 1
      BY <1>1, <1>6, <2>1 DEF Taken
    <3>2. QED
      BY <1>0, <1>1, <1>4, <2>1, <3>1, TailFollows
  <2>5. ArtifactsFollow(r)'
    <3>1. /\ Len(out'[r]) = n + 1 /\ out'[r][n + 1].type = "tool"
          /\ \A i \in 1..n : out'[r][i] = out[r][i]
      BY <1>0, <2>1, <2>2, SendOne
    <3>2. \A i \in (n + 1)..Len(out'[r]) : i = n + 1
      BY <1>4, <3>1
    <3>3. n + 1 \in Nat /\ n <= n + 1 /\ a <= a
      BY <1>4
    <3>4. QED
      BY <1>4, <2>1, <3>1, <3>2, <3>3, ArtifactsElsewhere
  <2>6. QED
    BY <1>3, <2>3, <2>4, <2>5 DEF Follows
<1>7. CASE h # Tool /\ kind[r] = "chat"
  <2> DEFINE e == Event("delta", <<h>>)
  <2>1. Send(r, <<e>>) /\ accumulated' = accumulated
    BY <1>7 DEF GetDelta
  <2>2. k = n /\ h = n + 1
    BY <1>2, <1>7 DEF Taken
  <2>3. e \in EventSet /\ e.type = "delta" /\ e = Event("delta", <<n + 1>>)
    <3>1. h \in 1..MaxDeltas
      BY <1>2, <1>7
    <3>2. <<h>> \in Seq(1..MaxDeltas)
      BY <3>1, FewAreTyped
    <3>3. e \in EventSet
      BY <1>5, <3>2, EventsAreTyped
    <3>4. e.type = "delta"
      BY DEF Event
    <3>5. e = Event("delta", <<n + 1>>)
      BY <2>2
    <3>6. QED
      BY <3>3, <3>4, <3>5
  <2> HIDE DEF e
  <2>4. OutFollows(r)' /\ EndFollows(r)'
    BY <1>0, <1>1, <1>5, <1>7, <2>1, <2>3, OneMoreFollows
  <2>5. /\ Len(out'[r]) = n + 1 /\ out'[r][n + 1].type = "delta"
        /\ \A i \in 1..n : out'[r][i] = out[r][i]
    BY <1>0, <2>1, <2>3, SendOne
  <2>6. QueueFollows(r)'
    <3>1. Taken(r)' = IF h = Tool THEN k ELSE k + 1
      BY <1>1, <1>7, <2>2, <2>5 DEF Taken
    <3>2. QED
      BY <1>0, <1>1, <1>4, <2>1, <3>1, TailFollows
  <2>7. ArtifactsFollow(r)'
    <3>1. \A i \in (n + 1)..Len(out'[r]) : i = n + 1
      BY <1>4, <2>5
    <3>2. n + 1 \in Nat /\ n <= n + 1 /\ a <= a
      BY <1>4
    <3>3. QED
      BY <1>4, <2>1, <2>5, <3>1, <3>2, ArtifactsElsewhere
  <2>8. QED
    BY <1>3, <2>4, <2>6, <2>7 DEF Follows
<1>8. CASE h # Tool /\ kind[r] # "chat"
  <2> DEFINE e == Event("artifact", accumulated'[r])
  <2>1. Send(r, <<e>>) /\ accumulated'[r] = Append(accumulated[r], h)
    BY <1>0, <1>8 DEF GetDelta, TypeOK
  <2>2. k = a /\ h = a + 1 /\ a + 1 <= Len(sent[r])
    BY <1>2, <1>8 DEF Taken
  <2>3. /\ Len(accumulated'[r]) = a + 1
        /\ \A i \in 1..(a + 1) : accumulated'[r][i] = i
    <3>1. accumulated[r] \in Seq(1..MaxDeltas) /\ h \in 1..MaxDeltas
      BY <1>0, <1>2, <1>8 DEF TypeOK
    <3>2. /\ Len(accumulated'[r]) = a + 1 /\ accumulated'[r][a + 1] = h
          /\ \A i \in 1..a : accumulated'[r][i] = accumulated[r][i]
          /\ \A i \in 1..Len(accumulated'[r]) : i \in 1..a \/ i = a + 1
      BY <2>1, <3>1, AppendedAt
    <3>3. QED
      BY <1>4, <2>2, <3>2
  <2>4. e \in EventSet /\ e.type = "artifact" /\ e.text = accumulated'[r]
    <3>1. accumulated'[r] \in Seq(1..MaxDeltas)
      BY DEF TypeOK
    <3>2. e \in EventSet
      BY <1>5, <3>1, EventsAreTyped
    <3>3. QED
      BY <3>2 DEF Event
  <2> HIDE DEF e
  <2>5. OutFollows(r)' /\ EndFollows(r)'
    BY <1>0, <1>1, <1>5, <1>8, <2>1, <2>4, OneMoreFollows
  <2>6. QueueFollows(r)'
    <3>1. Taken(r)' = IF h = Tool THEN k ELSE k + 1
      BY <1>1, <1>8, <2>2, <2>3 DEF Taken
    <3>2. QED
      BY <1>0, <1>1, <2>2, <2>3, <3>1, TailFollows
  <2>7. ArtifactsFollow(r)'
    <3>1. /\ Len(out'[r]) = n + 1 /\ out'[r][n + 1] = e
          /\ \A i \in 1..n : out'[r][i] = out[r][i]
      BY <1>0, <2>1, <2>4, SendOne
    <3> SUFFICES ASSUME NEW j \in 1..Len(out'[r]), out'[r][j].type = "artifact"
                 PROVE  /\ Len(out'[r][j].text) <= Len(accumulated'[r])
                        /\ \A x \in 1..Len(out'[r][j].text) : out'[r][j].text[x] = x
                        /\ \A i \in 1..(j - 1) : out'[r][i].type = "artifact" =>
                             Len(out'[r][i].text) < Len(out'[r][j].text)
      BY DEF ArtifactsFollow
    <3>2. CASE j \in 1..n
      <4>1. out'[r][j] = out[r][j] /\ \A i \in 1..(j - 1) : out'[r][i] = out[r][i]
        BY <1>4, <3>1, <3>2
      <4>2. Len(out[r][j].text) <= a /\ Len(out[r][j].text) \in Nat
        BY <1>4, <3>2, <4>1 DEF ArtifactsFollow
      <4>3. Len(out[r][j].text) <= Len(accumulated'[r])
        BY <1>4, <2>3, <4>2
      <4>4. QED
        BY <1>4, <3>2, <4>1, <4>3 DEF ArtifactsFollow
    <3>3. CASE j = n + 1
      <4>1. out'[r][j].text = accumulated'[r]
        BY <2>4, <3>1, <3>3
      <4>2. ASSUME NEW i \in 1..(j - 1), out'[r][i].type = "artifact"
            PROVE  Len(out'[r][i].text) < a + 1
        <5>1. i \in 1..n
          BY <1>4, <3>3
        <5>2. Len(out[r][i].text) <= a /\ Len(out[r][i].text) \in Nat /\ out'[r][i] = out[r][i]
          BY <1>4, <3>1, <4>2, <5>1 DEF ArtifactsFollow
        <5>3. QED
          BY <1>4, <5>2
      <4>3. a + 1 <= a + 1
        BY <1>4
      <4>4. QED
        BY <2>3, <4>1, <4>2, <4>3
    <3>4. QED
      BY <1>4, <3>1, <3>2, <3>3
  <2>8. QED
    BY <1>3, <2>5, <2>6, <2>7 DEF Follows
<1>9. QED
  BY <1>6, <1>7, <1>8

\* A token is taken and not told.
LEMMA EnqueueFailsFollows ==
  ASSUME IInv, TypeOK', NEW r \in Requests, EnqueueFails(r)
  PROVE  Follows(r)'
<1> DEFINE h == Head(queue[r])
           a == Len(accumulated[r])
<1>0. TypeOK /\ Follows(r) /\ "get" \in Handling /\ "loop" \in Handling
  BY DEF IInv, Handling
<1>1. /\ UNCHANGED <<kind, job, sent, done, outcome, out>> /\ queue[r] # << >>
      /\ queue'[r] = Tail(queue[r]) /\ pc[r] = "get" /\ pc'[r] = "loop" /\ kind[r] = "exec"
      /\ accumulated'[r] = IF h = Tool THEN accumulated[r] ELSE Append(accumulated[r], h)
  BY <1>0 DEF EnqueueFails, Goto, TypeOK
<1>2. /\ h # Tool => h = a + 1 /\ a + 1 <= Len(sent[r])
      /\ h \in {Tool} \cup 1..MaxDeltas
  BY <1>0, <1>1, HeadIsNext, HeadIsTyped DEF Taken
<1>3. /\ a \in Nat /\ \A i \in 1..a : accumulated[r][i] = i
      /\ a <= Len(sent[r]) /\ \A i \in 1..Len(out[r]) : Len(out[r][i].text) \in Nat
  BY <1>0, Lengths DEF Follows, QueueFollows
<1>4. /\ Len(accumulated'[r]) = IF h = Tool THEN a ELSE a + 1
      /\ \A i \in 1..Len(accumulated'[r]) : accumulated'[r][i] = i
  <2>1. CASE h = Tool
    BY <1>1, <1>3, <2>1
  <2>2. CASE h # Tool
    <3>1. accumulated[r] \in Seq(1..MaxDeltas) /\ h \in 1..MaxDeltas
      BY <1>0, <1>2, <2>2 DEF TypeOK
    <3>2. /\ Len(accumulated'[r]) = a + 1 /\ accumulated'[r][a + 1] = h
          /\ \A i \in 1..a : accumulated'[r][i] = accumulated[r][i]
          /\ \A i \in 1..Len(accumulated'[r]) : i \in 1..a \/ i = a + 1
      BY <1>1, <2>2, <3>1, AppendedAt
    <3>3. QED
      BY <1>2, <1>3, <2>2, <3>2
  <2>3. QED
    BY <2>1, <2>2
<1>5. RunFollows(r)'
  <2>1. job[r] # "none" /\ RunFollows(r)
    BY <1>0, <1>1 DEF Follows, RunFollows
  <2>2. QED
    BY <1>1, <2>1 DEF RunFollows
<1>6. QueueFollows(r)'
  <2>1. Taken(r)' = IF h = Tool THEN Taken(r) ELSE Taken(r) + 1
    BY <1>1, <1>4 DEF Taken
  <2>2. Len(accumulated'[r]) <= Len(sent[r])
    BY <1>2, <1>3, <1>4
  <2>3. QED
    BY <1>0, <1>1, <1>4, <2>1, <2>2, TailFollows
<1>7. OutFollows(r)' /\ EndFollows(r)'
  BY <1>0, <1>1 DEF Follows, OutFollows, EndFollows, Handling
<1>8. ArtifactsFollow(r)'
  <2>1. \A i \in 1..Len(out[r]) :
          Len(out[r][i].text) <= a => Len(out[r][i].text) <= Len(accumulated'[r])
    BY <1>3, <1>4
  <2>2. QED
    BY <1>0, <1>1, <2>1 DEF Follows, ArtifactsFollow
<1>9. QED
  BY <1>5, <1>6, <1>7, <1>8 DEF Follows

-----------------------------------------------------------------------------
(* The invariant is inductive: every step *)

\* The handler, agent or client step of a request keeps what follows for it.
LEMMA OwnStepFollows ==
  ASSUME IInv, TypeOK', NEW r \in Requests,
         \/ Refuse(r) \/ Submit(r) \/ SubmitFails(r) \/ Handle(r) \/ Disconnect(r)
         \/ Cancel(r) \/ Delta(r) \/ ToolCall(r) \/ FinishRun(r) \/ FutureResolves(r)
  PROVE  Follows(r)'
<1>1. CASE FinishRun(r)
  <2>1. TypeOK
    BY DEF IInv
  <2>2. /\ job'[r] = "finished" /\ outcome'[r] # "none" /\ job[r] = "running"
        /\ UNCHANGED <<kind, pc, sent, queue, accumulated, done, out>>
    BY <1>1, <2>1 DEF FinishRun, TypeOK, Raised, Returned
  <2>3. QED
    BY <2>2, RunMoveFollows
<1>2. QED
  BY <1>1, FirstEventsFollow, MoveFollows, CancelFollows, GetDeltaFollows,
     EnqueueFailsFollows, ChatEndsFollow,
     TaskEndsFollow, DeltaFollows, ToolCallFollows DEF Handle

\* A step leaves a request alone.
Alone(q) == /\ kind' = kind /\ pc'[q] = pc[q] /\ job'[q] = job[q] /\ sent'[q] = sent[q]
            /\ queue'[q] = queue[q] /\ accumulated'[q] = accumulated[q]
            /\ done'[q] = done[q] /\ outcome'[q] = outcome[q] /\ out'[q] = out[q]

\* The step of a request leaves every other request alone.
LEMMA OthersAlone ==
  ASSUME TypeOK, NEW r \in Requests, NEW q \in Requests, q # r,
         \/ Refuse(r) \/ Submit(r) \/ SubmitFails(r) \/ Handle(r) \/ Disconnect(r)
         \/ Cancel(r) \/ Delta(r) \/ ToolCall(r) \/ FinishRun(r) \/ FutureResolves(r)
  PROVE  Alone(q)
<1>1. CASE Refuse(r) \/ SubmitFails(r) \/ Poll(r) \/ GetTimeout(r) \/ Aborts(r)
           \/ OnceEnds(r) \/ ExecEnds(r) \/ Disconnect(r) \/ Cancel(r) \/ FutureResolves(r)
  BY <1>1 DEF Refuse, SubmitFails, Poll, GetTimeout, Aborts, OnceEnds, ExecEnds,
       Disconnect, Cancel, FutureResolves, Goto, Send, TypeOK, Alone
<1>2. CASE Submit(r) \/ Delta(r) \/ ToolCall(r) \/ FinishRun(r)
  BY <1>2 DEF Submit, Delta, ToolCall, FinishRun, Goto, Send, TypeOK, Alone
<1>3. CASE GetDelta(r)
  BY <1>3 DEF GetDelta, Goto, Send, TypeOK, Alone
<1>4. CASE ChatEnds(r)
  BY <1>4 DEF ChatEnds, Goto, Send, TypeOK, Alone
<1>5. CASE TaskEnds(r)
  BY <1>5 DEF TaskEnds, Goto, Send, TypeOK, Alone
<1>6. CASE EnqueueFails(r)
  BY <1>6 DEF EnqueueFails, Goto, TypeOK, Alone
<1>7. QED
  BY <1>1, <1>2, <1>3, <1>4, <1>5, <1>6 DEF Handle

\* So what follows for the others still does.
LEMMA OthersFollow ==
  ASSUME IInv, NEW r \in Requests, NEW q \in Requests, q # r,
         \/ Refuse(r) \/ Submit(r) \/ SubmitFails(r) \/ Handle(r) \/ Disconnect(r)
         \/ Cancel(r) \/ Delta(r) \/ ToolCall(r) \/ FinishRun(r) \/ FutureResolves(r)
  PROVE  Follows(q)'
<1>1. TypeOK /\ Follows(q)
  BY DEF IInv
<1>2. Alone(q)
  BY <1>1, OthersAlone
<1>3. QED
  BY <1>1, <1>2, FollowsElsewhere DEF Alone

\* The backlogs, at the steps of a request: Submit appends its run, which no backlog had.
LEMMA BacklogKeeps ==
  ASSUME IInv, NEW r \in Requests,
         \/ Refuse(r) \/ Submit(r) \/ SubmitFails(r) \/ Handle(r) \/ Disconnect(r)
         \/ Cancel(r) \/ Delta(r) \/ ToolCall(r) \/ FinishRun(r) \/ FutureResolves(r)
  PROVE  BacklogWaits'
<1>1. TypeOK /\ BacklogWaits /\ Follows(r)
  BY DEF IInv
<1>2. CASE ~Submit(r)
  <2>1. kind' = kind /\ backlog' = backlog
    BY <1>2 DEF Refuse, SubmitFails, Handle, Poll, GetDelta, EnqueueFails, GetTimeout, Aborts, ChatEnds,
         TaskEnds, OnceEnds, ExecEnds, Disconnect, Cancel, Delta, ToolCall, FinishRun,
         FutureResolves
  <2>2. \/ job' = job
        \/ FinishRun(r)
    BY <1>2 DEF Refuse, SubmitFails, Handle, Poll, GetDelta, EnqueueFails, GetTimeout, Aborts, ChatEnds,
         TaskEnds, OnceEnds, ExecEnds, Disconnect, Cancel, Delta, ToolCall, FutureResolves
  <2>3. \A q \in Requests : job[q] = "waiting" => job'[q] = "waiting"
    BY <1>1, <2>2 DEF FinishRun, TypeOK
  <2>4. QED
    BY <1>1, <2>1, <2>3, BacklogElsewhere
<1>3. CASE Submit(r)
  <2>1. /\ kind' = kind /\ job[r] = "none" /\ job' = [job EXCEPT ![r] = "waiting"]
        /\ backlog' = [backlog EXCEPT ![Pool(r)] = Append(@, r)] /\ Pool(r) \in Pools
    BY <1>1, <1>3 DEF Submit, Follows, RunFollows, Pool, Pools
  <2>2. ASSUME NEW p \in Pools
        PROVE  Backlogged(p)'
    <3>1. backlog[p] \in Seq(Requests)
      BY <1>1 DEF TypeOK
    <3>2. \A i \in 1..Len(backlog[p]) :
            /\ backlog[p][i] \in Requests /\ job[backlog[p][i]] = "waiting"
            /\ backlog[p][i] # r /\ Pool(backlog[p][i]) = p
      BY <1>1, <2>1, <3>1, ElementOfSeq DEF BacklogWaits, Backlogged
    <3>3. \A q \in Requests : job[q] = "waiting" \/ q = r => job'[q] = "waiting"
      BY <1>1, <2>1 DEF TypeOK
    <3>5. CASE p # Pool(r)
      <4>1. backlog'[p] = backlog[p]
        BY <1>1, <2>1, <3>5 DEF TypeOK
      <4>2. QED
        BY <1>1, <2>1, <3>2, <3>3, <4>1 DEF BacklogWaits, Backlogged, Pool
    <3>6. CASE p = Pool(r)
      <4>1. backlog'[p] = Append(backlog[p], r)
        BY <1>1, <2>1, <3>6 DEF TypeOK
      <4>2. /\ backlog'[p][Len(backlog[p]) + 1] = r
            /\ \A i \in 1..Len(backlog[p]) : backlog'[p][i] = backlog[p][i]
            /\ \A i \in 1..Len(backlog'[p]) : i \in 1..Len(backlog[p]) \/ i = Len(backlog[p]) + 1
        BY <3>1, <4>1, AppendedAt
      <4>3. QED
        BY <1>1, <2>1, <3>2, <3>3, <3>6, <4>2 DEF BacklogWaits, Backlogged, Pool
    <3>7. QED
      BY <3>5, <3>6
  <2>3. QED
    BY <2>2 DEF BacklogWaits
<1>4. QED
  BY <1>2, <1>3

\* A thread takes the oldest run of its pool.
LEMMA StartRunKeeps ==
  ASSUME IInv, NEW p \in Pools, StartRun(p)
  PROVE  BacklogWaits' /\ \A q \in Requests : Follows(q)'
<1> DEFINE h == Head(backlog[p])
<1>1. TypeOK /\ BacklogWaits
  BY DEF IInv
<1>2. /\ h \in Requests /\ backlog[p] # << >> /\ h = backlog[p][1]
      /\ Len(Tail(backlog[p])) = Len(backlog[p]) - 1 /\ Len(backlog[p]) \in Nat \ {0}
      /\ \A i \in 1..Len(Tail(backlog[p])) : Tail(backlog[p])[i] = backlog[p][i + 1]
  BY <1>1, OldestIsRequest DEF StartRun
<1>3. /\ job' = [job EXCEPT ![h] = "running"] /\ backlog' = [backlog EXCEPT ![p] = Tail(@)]
      /\ UNCHANGED <<kind, pc, sent, queue, accumulated, done, outcome, out>>
  BY DEF StartRun
<1>4. /\ 1 \in 1..Len(backlog[p])
      /\ \A i \in 1..Len(Tail(backlog[p])) : i + 1 \in 1..Len(backlog[p]) /\ i + 1 # 1
      /\ \A i, j \in 1..Len(Tail(backlog[p])) : i # j => i + 1 # j + 1
  BY <1>2
<1>5. job[h] = "waiting" /\ Pool(h) = p
  BY <1>1, <1>2, <1>4 DEF BacklogWaits, Backlogged
<1>6. ASSUME NEW q \in Requests
      PROVE  Follows(q)'
  <2>1. CASE q = h
    <3>1. job[q] = "waiting" /\ job'[q] = "running"
      BY <1>1, <1>3, <1>5, <2>1 DEF TypeOK
    <3>2. QED
      BY <1>3, <3>1, RunMoveFollows
  <2>2. CASE q # h
    BY <1>1, <1>3, <2>2, FollowsElsewhere DEF IInv, TypeOK
  <2>3. QED
    BY <2>1, <2>2
<1>7. ASSUME NEW o \in Pools
      PROVE  Backlogged(o)'
  <2>1. \A i \in 1..Len(backlog[o]) : backlog[o][i] \in Requests
    <3>1. backlog[o] \in Seq(Requests)
      BY <1>1 DEF TypeOK
    <3>2. QED
      BY <3>1, ElementOfSeq
  <2>2. \A q \in Requests : q # h => job'[q] = job[q]
    BY <1>1, <1>3 DEF TypeOK
  <2>4. CASE o # p
    <3>1. backlog'[o] = backlog[o]
      BY <1>1, <1>3, <2>4 DEF TypeOK
    <3>2. \A i \in 1..Len(backlog[o]) : backlog[o][i] # h
      BY <1>1, <1>5, <2>4 DEF BacklogWaits, Backlogged
    <3>3. QED
      BY <1>1, <1>3, <2>1, <2>2, <3>1, <3>2 DEF BacklogWaits, Backlogged, Pool
  <2>5. CASE o = p
    <3>1. backlog'[o] = Tail(backlog[o])
      BY <1>1, <1>3, <2>5 DEF TypeOK
    <3>2. \A i \in 1..Len(backlog'[o]) :
            /\ i + 1 \in 1..Len(backlog[o]) /\ backlog'[o][i] = backlog[o][i + 1]
            /\ backlog[o][i + 1] # h
      BY <1>1, <1>2, <1>4, <2>5, <3>1 DEF BacklogWaits, Backlogged
    <3>3. QED
      BY <1>1, <1>3, <1>4, <2>1, <2>2, <2>5, <3>1, <3>2 DEF BacklogWaits, Backlogged, Pool
  <2>6. QED
    BY <2>4, <2>5
<1>8. BacklogWaits'
  BY <1>7 DEF BacklogWaits
<1>9. QED
  BY <1>6, <1>8

\* A step keeps the invariant.
LEMMA StepKeeps ==
  ASSUME IInv, [Next]_vars
  PROVE  IInv'
<1>1. TypeOK'
  BY TypeKeeps DEF IInv
<1>2. CASE UNCHANGED vars
  <2>1. BacklogWaits'
    BY <1>2, BacklogElsewhere DEF IInv, vars
  <2>2. \A q \in Requests : Follows(q)'
    BY <1>2, FollowsElsewhere DEF IInv, vars
  <2>3. QED
    BY <1>1, <2>1, <2>2 DEF IInv
<1>3. ASSUME NEW p \in Pools, StartRun(p)
      PROVE  IInv'
  BY <1>1, <1>3, StartRunKeeps DEF IInv
<1>4. ASSUME NEW r \in Requests,
             \/ Refuse(r) \/ Submit(r) \/ SubmitFails(r) \/ Handle(r) \/ Disconnect(r)
             \/ Cancel(r) \/ Delta(r) \/ ToolCall(r) \/ FinishRun(r) \/ FutureResolves(r)
      PROVE  IInv'
  <2>1. \A q \in Requests : Follows(q)'
    <3>1. Follows(r)'
      BY <1>1, <1>4, OwnStepFollows
    <3>2. \A q \in Requests : q # r => Follows(q)'
      BY <1>4, OthersFollow
    <3>3. QED
      BY <3>1, <3>2
  <2>2. BacklogWaits'
    BY <1>4, BacklogKeeps
  <2>3. QED
    BY <1>1, <2>1, <2>2 DEF IInv
<1>5. QED
  BY <1>2, <1>3, <1>4 DEF Next

\* At the start nothing has been sent, and no run is asked for.
LEMMA StartsRight ==
  ASSUME Init
  PROVE  IInv
<1>1. TypeOK
  BY StartsTyped
<1>2. Len(<< >>) = 0 /\ 1..0 = {} /\ "new" \notin Handling
  BY DEF Handling
<1>3. BacklogWaits
  BY <1>2 DEF Init, BacklogWaits, Backlogged
<1>4. ASSUME NEW r \in Requests
      PROVE  Follows(r)
  <2>1. /\ pc[r] = "new" /\ job[r] = "none" /\ sent[r] = << >> /\ queue[r] = << >>
        /\ accumulated[r] = << >> /\ out[r] = << >> /\ ~done[r] /\ outcome[r] = "none"
    BY DEF Init
  <2>2. RunFollows(r)
    BY <2>1 DEF RunFollows
  <2>3. QueueFollows(r)
    BY <1>2, <2>1 DEF QueueFollows
  <2>4. OutFollows(r) /\ ArtifactsFollow(r) /\ EndFollows(r)
    BY <1>2, <2>1 DEF OutFollows, ArtifactsFollow, EndFollows
  <2>5. QED
    BY <2>2, <2>3, <2>4 DEF Follows
<1>5. QED
  BY <1>1, <1>3, <1>4 DEF IInv

\* The invariant holds in every state of the streams.
THEOREM Invariance == Spec => []IInv
<1>1. Init => IInv
  BY StartsRight
<1>2. IInv /\ [Next]_vars => IInv'
  BY StepKeeps
<1>3. QED
  BY <1>1, <1>2, PTL DEF Spec

-----------------------------------------------------------------------------
(* What the invariant is for *)

\* A stream is closed once, by its last events; an exec that was cancelled is, besides,
\* told canceled.
THEOREM ClosesOnce == Spec => []StreamClosesOnce
<1>1. IInv => StreamClosesOnce
  <2> SUFFICES ASSUME IInv, NEW r \in Requests
               PROVE  LET n == Len(out[r])
                          at(types) == {i \in 1..n : out[r][i].type \in types}
                          canceled  == at({"canceled"})
                          closing   == at({"stop", "DONE", "completed", "failed", "canceled"})
                      IN IF pc[r] = "ended"
                           THEN /\ kind[r] = "chat" =>
                                     closing = {n - 1, n} /\ out[r][n].type = "DONE"
                                /\ kind[r] \in {"task", "exec"} =>
                                     /\ closing \ canceled = {n} /\ out[r][1].type = "working"
                                     /\ kind[r] = "task" => canceled = {}
                                     /\ outcome[r] = "final" /\ sent[r] = << >> =>
                                          at({"final"}) # {}
                           ELSE pc[r] # "refused" =>
                                  closing = canceled /\ (canceled # {} => kind[r] = "exec")
    BY DEF StreamClosesOnce
  <2> DEFINE n == Len(out[r])
             at(types) == {i \in 1..n : out[r][i].type \in types}
             Final    == {"stop", "DONE", "completed", "failed"}
             canceled == at({"canceled"})
             closing  == at({"stop", "DONE", "completed", "failed", "canceled"})
  <2>1. OutFollows(r) /\ EndFollows(r) /\ n \in Nat
    BY Lengths DEF IInv, Follows
  <2>2. \A t \in Unclosed(kind[r]) :
          t \notin Final /\ (kind[r] # "exec" => t # "canceled")
    BY DEF Unclosed
  <2>3. CASE pc[r] = "ended" /\ kind[r] = "chat"
    <3>1. /\ n >= 2 /\ out[r][n - 1].type = "stop" /\ out[r][n].type = "DONE"
          /\ \A i \in 1..(n - 2) : out[r][i].type \in Unclosed(kind[r])
      BY <2>1, <2>3 DEF EndFollows
    <3>2. /\ \A i \in 1..n : i \in 1..(n - 2) \/ i = n - 1 \/ i = n
          /\ n - 1 \in 1..n /\ n \in 1..n
      <4> HIDE DEF n
      <4>1. QED
        BY <2>1, <3>1
    <3>3. closing = {n - 1, n}
      BY <2>2, <2>3, <3>1, <3>2
    <3>4. QED
      BY <2>3, <3>1, <3>3
  <2>4. CASE pc[r] = "ended" /\ kind[r] \in {"task", "exec"}
    <3>1. /\ n >= 2 /\ out[r][1].type = "working" /\ out[r][n].type \in {"completed", "failed"}
          /\ \A i \in 1..(n - 1) : out[r][i].type \in Unclosed(kind[r])
          /\ outcome[r] = "final" /\ sent[r] = << >> => \E i \in 1..n : out[r][i].type = "final"
      BY <2>1, <2>4 DEF EndFollows
    <3>2. /\ \A i \in 1..n : i \in 1..(n - 1) \/ i = n
          /\ n \in 1..n
      <4> HIDE DEF n
      <4>1. QED
        BY <2>1, <3>1
    <3>3. closing \ canceled = {n}
      BY <2>2, <3>1, <3>2
    <3>4. kind[r] = "task" => canceled = {}
      BY <2>2, <3>1, <3>2
    <3>5. outcome[r] = "final" /\ sent[r] = << >> => at({"final"}) # {}
      BY <3>1
    <3>6. QED
      BY <2>4, <3>1, <3>3, <3>4, <3>5
  <2>5. CASE pc[r] \notin {"ended", "refused"}
    <3>1. closing = canceled /\ (canceled # {} => kind[r] = "exec")
      BY <2>1, <2>2, <2>5 DEF OutFollows
    <3>2. QED
      BY <2>5, <3>1
  <2>6. QED
    BY <2>3, <2>4, <2>5
<1>2. QED
  BY <1>1, Invariance, PTL

\* One numbered text is a beginning of another that is not shorter.
LEMMA NumberedPrefix ==
  ASSUME NEW s \in Seq(1..MaxDeltas), NEW t \in Seq(1..MaxDeltas), Len(s) <= Len(t),
         \A i \in 1..Len(s) : s[i] = i, \A i \in 1..Len(t) : t[i] = i
  PROVE  IsPrefix(s, t) /\ (Len(s) < Len(t) => IsStrictPrefix(s, t))
<1> DEFINE n == Len(s)
           a == SubSeq(s, 1, n)
           b == SubSeq(t, 1, n)
<1>1. n \in Nat /\ Len(t) \in Nat
  BY LenProperties
<1>2. \A i \in 1..n : s[i] \in 1..MaxDeltas /\ i \in 1..Len(t) /\ t[i] \in 1..MaxDeltas
  <2>1. \A i \in 1..n : i \in 1..Len(t)
    BY <1>1
  <2>2. \A i \in 1..n : s[i] \in 1..MaxDeltas
    BY ElementOfSeq
  <2>3. \A i \in 1..Len(t) : t[i] \in 1..MaxDeltas
    BY ElementOfSeq
  <2>4. QED
    BY <2>1, <2>2, <2>3
<1>3. /\ a \in Seq(1..MaxDeltas) /\ Len(a) = n /\ \A i \in 1..n : a[i] = s[i]
  <2>1. /\ a \in Seq(1..MaxDeltas)
        /\ Len(a) = IF 1 <= n THEN n - 1 + 1 ELSE 0
        /\ \A i \in 1..n - 1 + 1 : a[i] = s[1 + i - 1]
    BY <1>1, <1>2, SubSeqProperties
  <2> HIDE DEF n, a
  <2>2. QED
    BY <1>1, <2>1
<1>4. /\ b \in Seq(1..MaxDeltas) /\ Len(b) = n /\ \A i \in 1..n : b[i] = t[i]
  <2>1. /\ b \in Seq(1..MaxDeltas)
        /\ Len(b) = IF 1 <= n THEN n - 1 + 1 ELSE 0
        /\ \A i \in 1..n - 1 + 1 : b[i] = t[1 + i - 1]
    BY <1>1, <1>2, SubSeqProperties
  <2> HIDE DEF n, b
  <2>2. QED
    BY <1>1, <2>1
<1>5. \A i \in 1..n : a[i] = b[i]
  BY <1>2, <1>3, <1>4
<1> HIDE DEF a, b
<1>6. a = b
  BY <1>3, <1>4, <1>5, SeqEqual
<1>7. IsPrefix(s, t)
  BY <1>6 DEF IsPrefix, a, b
<1>8. Len(s) < Len(t) => s # t
  BY <1>1
<1>9. QED
  BY <1>7, <1>8 DEF IsStrictPrefix

\* The artifacts of a task or exec grow, and are text its agent produced.
THEOREM ArtifactsGrow == Spec => []TaskArtifactsGrow
<1>1. IInv => TaskArtifactsGrow
  <2> SUFFICES ASSUME IInv, NEW r \in Requests,
                      NEW j \in DOMAIN out[r], out[r][j].type = "artifact"
               PROVE  /\ IsPrefix(out[r][j].text, sent[r])
                      /\ \A i \in DOMAIN out[r] : out[r][i].type = "artifact" =>
                           (i < j => IsStrictPrefix(out[r][i].text, out[r][j].text))
    BY DEF TaskArtifactsGrow
  <2>1. TypeOK /\ ArtifactsFollow(r) /\ QueueFollows(r)
    BY DEF IInv, Follows
  <2>2. out[r] \in Seq(EventSet) /\ sent[r] \in Seq(1..MaxDeltas)
    BY <2>1 DEF TypeOK, EventSet
  <2>3. DOMAIN out[r] = 1..Len(out[r]) /\ Len(out[r]) \in Nat
    BY <2>2, LenProperties
  <2>4. \A i \in 1..Len(out[r]) : out[r][i].text \in Seq(1..MaxDeltas)
    <3>1. \A i \in 1..Len(out[r]) : out[r][i] \in EventSet
      BY <2>2, ElementOfSeq
    <3>2. QED
      BY <3>1 DEF EventSet
  <2>5. ASSUME NEW i \in 1..Len(out[r]), out[r][i].type = "artifact"
        PROVE  /\ out[r][i].text \in Seq(1..MaxDeltas)
               /\ Len(out[r][i].text) <= Len(sent[r])
               /\ \A k \in 1..Len(out[r][i].text) : out[r][i].text[k] = k
    <3>1. Len(out[r][i].text) <= Len(accumulated[r]) /\ Len(accumulated[r]) <= Len(sent[r])
      BY <2>1, <2>5 DEF ArtifactsFollow, QueueFollows
    <3>2. /\ Len(out[r][i].text) \in Nat /\ Len(accumulated[r]) \in Nat /\ Len(sent[r]) \in Nat
      BY <2>1, Lengths
    <3>3. QED
      BY <2>1, <2>4, <2>5, <3>1, <3>2 DEF ArtifactsFollow
  <2>6. IsPrefix(out[r][j].text, sent[r])
    <3>1. \A i \in 1..Len(sent[r]) : sent[r][i] = i
      BY <2>1 DEF QueueFollows
    <3>2. QED
      BY <2>2, <2>3, <2>5, <3>1, NumberedPrefix
  <2>7. ASSUME NEW i \in DOMAIN out[r], out[r][i].type = "artifact", i < j
        PROVE  IsStrictPrefix(out[r][i].text, out[r][j].text)
    <3>1. i \in 1..(j - 1) /\ i \in 1..Len(out[r]) /\ j \in 1..Len(out[r])
      BY <2>3, <2>7
    <3>2. Len(out[r][i].text) < Len(out[r][j].text)
      BY <2>1, <2>7, <3>1 DEF ArtifactsFollow
    <3>3. Len(out[r][i].text) <= Len(out[r][j].text)
      BY <2>1, <3>1, <3>2, Lengths
    <3>4. QED
      BY <2>5, <2>7, <3>1, <3>2, <3>3, NumberedPrefix
  <2>8. QED
    BY <2>6, <2>7
<1>2. QED
  BY <1>1, Invariance, PTL

-----------------------------------------------------------------------------
(* A chat implements the text pipe *)

\* The text of a sequence of events, as ChatText tells it, and of n deltas.
TextOf(w) == [i \in {d \in DOMAIN w : w[d].type = "delta"} |-> Head(w[i].text)]
Count(n)  == [i \in 1..n |-> i]

\* Events that begin with n numbered deltas and have no others hold a text of n deltas.
LEMMA TextIsCount ==
  ASSUME NEW w \in Seq(EventSet), NEW n \in Nat, n <= Len(w),
         \A i \in 1..n : w[i] = Event("delta", <<i>>),
         \A i \in 1..Len(w) : i \in 1..n \/ w[i].type # "delta"
  PROVE  TextOf(w) = Count(n)
<1>1. DOMAIN w = 1..Len(w) /\ Len(w) \in Nat
  BY LenProperties
<1>2. \A i \in 1..n : i \in DOMAIN w
  BY <1>1
<1>3. \A i \in 1..n : w[i].type = "delta" /\ w[i].text = <<i>>
  <2>1. \A i \in 1..n : Event("delta", <<i>>).type = "delta" /\ Event("delta", <<i>>).text = <<i>>
    BY DEF Event
  <2>2. QED
    BY <2>1
<1>4. {d \in DOMAIN w : w[d].type = "delta"} = 1..n
  BY <1>1, <1>2, <1>3
<1>5. \A i \in 1..n : Head(<<i>>) = i
  OBVIOUS
<1>6. QED
  BY <1>3, <1>4, <1>5 DEF TextOf, Count

\* Events without a delta hold no text.
LEMMA NoText ==
  ASSUME NEW w \in Seq(EventSet), \A i \in 1..Len(w) : w[i].type # "delta"
  PROVE  TextOf(w) = << >>
<1>1. DOMAIN w = 1..Len(w)
  BY LenProperties
<1>2. {d \in DOMAIN w : w[d].type = "delta"} = {}
  BY <1>1
<1>3. TextOf(w) \in Seq({}) /\ Len(TextOf(w)) = 0
  <2>1. TextOf(w) = [i \in 1..0 |-> Head(w[i].text)]
    BY <1>2 DEF TextOf
  <2>2. \A i \in 1..0 : Head(w[i].text) \in {}
    OBVIOUS
  <2>3. QED
    BY <2>1, <2>2, IsASeq
<1>4. QED
  BY <1>3, EmptySeq

\* What n deltas are, as a sequence.
LEMMA CountIsSeq ==
  ASSUME NEW n \in Nat, n <= MaxDeltas
  PROVE  /\ Count(n) \in Seq(1..MaxDeltas) /\ Len(Count(n)) = n
         /\ \A i \in 1..n : Count(n)[i] = i
<1>1. \A i \in 1..n : i \in 1..MaxDeltas
  BY StreamAssumption
<1>2. QED
  BY <1>1, IsASeq DEF Count

\* The deltas an agent has produced are as many numbers, and the first n of them n.
LEMMA SentIsCount ==
  ASSUME IInv, NEW r \in Requests
  PROVE  /\ Len(sent[r]) \in 0..MaxDeltas /\ sent[r] = Count(Len(sent[r]))
         /\ \A n \in 0..Len(sent[r]) : SubSeq(sent[r], 1, n) = Count(n)
<1> DEFINE s == sent[r]
           l == Len(s)
<1>1. s \in Seq(1..MaxDeltas) /\ l \in Nat /\ \A i \in 1..l : s[i] = i
  BY LenProperties DEF IInv, TypeOK, Follows, QueueFollows
<1>2. l <= MaxDeltas
  <2>1. CASE l = 0
    BY <2>1, StreamAssumption
  <2>2. CASE l # 0
    <3>1. l \in 1..l
      BY <1>1, <2>2
    <3>2. s[l] \in 1..MaxDeltas /\ s[l] = l
      BY <1>1, <3>1, ElementOfSeq
    <3>3. QED
      BY <3>2, StreamAssumption
  <2>3. QED
    BY <2>1, <2>2
<1> HIDE DEF s, l
<1>3. s = Count(l)
  <2>1. /\ Count(l) \in Seq(1..MaxDeltas) /\ Len(Count(l)) = l
        /\ \A i \in 1..l : Count(l)[i] = i
    BY <1>1, <1>2, CountIsSeq
  <2>2. Len(s) = l
    BY DEF l
  <2>3. \A i \in 1..Len(s) : s[i] = Count(l)[i]
    BY <1>1, <2>1, <2>2
  <2>4. QED
    BY <1>1, <2>1, <2>2, <2>3, SeqEqual
<1>4. ASSUME NEW n \in 0..l
      PROVE  SubSeq(s, 1, n) = Count(n)
  <2> DEFINE p == SubSeq(s, 1, n)
  <2>1. n \in Nat /\ n <= MaxDeltas /\ \A i \in 1..n : i \in 1..l /\ i \in 1..MaxDeltas
    BY <1>1, <1>2, StreamAssumption
  <2>2. /\ Count(n) \in Seq(1..MaxDeltas) /\ Len(Count(n)) = n
        /\ \A i \in 1..n : Count(n)[i] = i
    BY <2>1, CountIsSeq
  <2>3. /\ p \in Seq(1..MaxDeltas) /\ Len(p) = n /\ \A i \in 1..n : p[i] = s[i]
    <3>1. /\ p \in Seq(1..MaxDeltas)
          /\ Len(p) = IF 1 <= n THEN n - 1 + 1 ELSE 0
          /\ \A i \in 1..n - 1 + 1 : p[i] = s[1 + i - 1]
      BY <1>1, <2>1, SubSeqProperties
    <3> HIDE DEF p
    <3>2. QED
      BY <2>1, <3>1
  <2> HIDE DEF p
  <2>4. \A i \in 1..Len(p) : p[i] = Count(n)[i]
    BY <1>1, <2>1, <2>2, <2>3
  <2>5. p = Count(n)
    BY <2>2, <2>3, <2>4, SeqEqual
  <2>6. QED
    BY <2>5 DEF p
<1>5. l \in 0..MaxDeltas
  BY <1>1, <1>2, StreamAssumption
<1>6. QED
  BY <1>3, <1>4, <1>5 DEF s, l

\* What the pipe sees of a request.
Made(r) == IF kind[r] = "chat" THEN sent[r] ELSE << >>

\* The pipe's steps, told of the one request that moves.
LEMMA PipeMove ==
  ASSUME NEW r \in Requests, kind' = kind,
         \A q \in Requests \ {r} : Alone(q),
         \/ ChatText(r)' = ChatText(r) /\ Made(r)' = Made(r) /\ ChatStatus(r)' = ChatStatus(r)
         \/ /\ ChatStatus(r) = "open" /\ ChatStatus(r)' = "broken"
            /\ ChatText(r)' = ChatText(r) /\ Made(r)' = Made(r)
         \/ /\ ChatStatus(r) = "open" /\ ChatStatus(r)' = "closed"
            /\ ChatText(r)' = Made(r) /\ Made(r)' = Made(r)
         \/ /\ ChatStatus(r) = "open" /\ ChatStatus(r)' = "open" /\ Made(r)' = Made(r)
            /\ \E n \in 1..MaxDeltas :
                 /\ Len(ChatText(r)) + n <= Len(Made(r))
                 /\ ChatText(r)' = SubSeq(Made(r), 1, Len(ChatText(r)) + n)
         \/ /\ ChatStatus(r) # "closed" /\ ChatStatus(r)' = ChatStatus(r)
            /\ Len(Made(r)) < MaxDeltas
            /\ \E d \in 1..MaxDeltas : Made(r)' = Append(Made(r), d)
            /\ ChatText(r)' = ChatText(r)
  PROVE  [Pipe!Next]_(Pipe!vars)
<1> DEFINE made == [q \in Requests |-> IF kind[q] = "chat" THEN sent[q] ELSE << >>]
           text == [q \in Requests |-> ChatText(q)]
           stat == [q \in Requests |-> ChatStatus(q)]
<1>1. \A q \in Requests \ {r} :
        ChatText(q)' = ChatText(q) /\ Made(q)' = Made(q) /\ ChatStatus(q)' = ChatStatus(q)
  BY DEF Alone, ChatText, Made, ChatStatus
<1>2. /\ made = [q \in Requests |-> Made(q)] /\ made' = [q \in Requests |-> Made(q)']
      /\ text' = [q \in Requests |-> ChatText(q)'] /\ stat' = [q \in Requests |-> ChatStatus(q)']
  BY DEF Made
<1>3. /\ made[r] = Made(r) /\ text[r] = ChatText(r) /\ stat[r] = ChatStatus(r)
      /\ made' = [made EXCEPT ![r] = Made(r)'] /\ text' = [text EXCEPT ![r] = ChatText(r)']
      /\ stat' = [stat EXCEPT ![r] = ChatStatus(r)']
      /\ (Made(r)' = Made(r) => made' = made) /\ (ChatText(r)' = ChatText(r) => text' = text)
      /\ (ChatStatus(r)' = ChatStatus(r) => stat' = stat)
  BY <1>1, <1>2
<1> HIDE DEF made, text, stat
<1>4. CASE ChatText(r)' = ChatText(r) /\ Made(r)' = Made(r) /\ ChatStatus(r)' = ChatStatus(r)
  BY <1>3, <1>4 DEF Pipe!vars, made, text, stat
<1>5. CASE /\ ChatStatus(r) = "open" /\ ChatStatus(r)' = "broken"
           /\ ChatText(r)' = ChatText(r) /\ Made(r)' = Made(r)
  <2>1. Pipe!Break(r)
    <3>1. /\ stat[r] = "open" /\ stat' = [stat EXCEPT ![r] = "broken"]
          /\ made' = made /\ text' = text
      BY <1>3, <1>5
    <3>2. QED
      BY <3>1 DEF Pipe!Break, made, text, stat
  <2>2. QED
    BY <2>1 DEF Pipe!Next
<1>6. CASE /\ ChatStatus(r) = "open" /\ ChatStatus(r)' = "closed"
           /\ ChatText(r)' = Made(r) /\ Made(r)' = Made(r)
  <2>1. Pipe!Close(r)
    <3>1. /\ stat[r] = "open" /\ stat' = [stat EXCEPT ![r] = "closed"]
          /\ made' = made /\ text' = [text EXCEPT ![r] = made[r]]
      BY <1>3, <1>6
    <3>2. QED
      BY <3>1 DEF Pipe!Close, made, text, stat
  <2>2. QED
    BY <2>1 DEF Pipe!Next
<1>7. CASE /\ ChatStatus(r) = "open" /\ ChatStatus(r)' = "open" /\ Made(r)' = Made(r)
           /\ \E n \in 1..MaxDeltas :
                /\ Len(ChatText(r)) + n <= Len(Made(r))
                /\ ChatText(r)' = SubSeq(Made(r), 1, Len(ChatText(r)) + n)
  <2>1. Pipe!Receive(r)
    <3>1. PICK n \in 1..MaxDeltas :
                /\ Len(ChatText(r)) + n <= Len(Made(r))
                /\ ChatText(r)' = SubSeq(Made(r), 1, Len(ChatText(r)) + n)
      BY <1>7
    <3>2. /\ stat[r] = "open" /\ stat' = stat /\ made' = made
          /\ Len(text[r]) + n <= Len(made[r])
          /\ text' = [text EXCEPT ![r] = SubSeq(made[r], 1, Len(text[r]) + n)]
      BY <1>3, <1>7, <3>1
    <3>3. QED
      BY <3>2 DEF Pipe!Receive, made, text, stat
  <2>2. QED
    BY <2>1 DEF Pipe!Next
<1>8. CASE /\ ChatStatus(r) # "closed" /\ ChatStatus(r)' = ChatStatus(r)
           /\ Len(Made(r)) < MaxDeltas
           /\ \E d \in 1..MaxDeltas : Made(r)' = Append(Made(r), d)
           /\ ChatText(r)' = ChatText(r)
  <2>1. Pipe!Produce(r)
    <3>1. PICK d \in 1..MaxDeltas : Made(r)' = Append(Made(r), d)
      BY <1>8
    <3>2. /\ stat[r] # "closed" /\ stat' = stat /\ text' = text /\ Len(made[r]) < MaxDeltas
          /\ made' = [made EXCEPT ![r] = Append(made[r], d)]
      BY <1>3, <1>8, <3>1
    <3>3. QED
      BY <3>2 DEF Pipe!Produce, made, text, stat
  <2>2. QED
    BY <2>1 DEF Pipe!Next
<1>9. QED
  BY <1>4, <1>5, <1>6, <1>7, <1>8

\* A chat that is handled has been told its first deltas, and no other request a delta.
LEMMA TextIsTold ==
  ASSUME IInv, NEW r \in Requests
  PROVE  /\ kind[r] # "chat" => ChatText(r) = << >>
         /\ kind[r] = "chat" /\ pc[r] \in Handling =>
              ChatText(r) = Count(Len(out[r])) /\ Len(out[r]) \in 0..Len(sent[r])
         /\ pc[r] = "new" => ChatText(r) = << >> /\ sent[r] = << >>
<1>1. TypeOK /\ OutFollows(r) /\ QueueFollows(r) /\ RunFollows(r)
  BY DEF IInv, Follows
<1>2. out[r] \in Seq(EventSet) /\ Len(out[r]) \in Nat /\ Len(queue[r]) \in Nat
  BY <1>1, Lengths DEF TypeOK, EventSet
<1>3. ChatText(r) = TextOf(out[r])
  BY DEF ChatText, TextOf
<1>4. kind[r] # "chat" => ChatText(r) = << >>
  BY <1>1, <1>2, <1>3, NoText DEF OutFollows
<1>5. ASSUME kind[r] = "chat", pc[r] \in Handling
      PROVE  ChatText(r) = Count(Len(out[r])) /\ Len(out[r]) \in 0..Len(sent[r])
  <2>1. \A i \in 1..Len(out[r]) : out[r][i] = Event("delta", <<i>>)
    BY <1>1, <1>5 DEF OutFollows
  <2>2. Len(out[r]) <= Len(out[r])
    BY <1>2
  <2>3. ChatText(r) = Count(Len(out[r]))
    BY <1>2, <1>3, <2>1, <2>2, TextIsCount
  <2>4. Len(sent[r]) = Len(out[r]) + Len(queue[r])
    BY <1>1, <1>5 DEF QueueFollows, Taken
  <2>5. Len(out[r]) \in 0..Len(sent[r])
    <3>1. \A x, y \in Nat : x \in 0..(x + y)
      OBVIOUS
    <3>2. QED
      BY <1>2, <2>4, <3>1
  <2>6. QED
    BY <2>3, <2>5
<1>6. ASSUME pc[r] = "new"
      PROVE  ChatText(r) = << >> /\ sent[r] = << >>
  <2>1. out[r] = << >> /\ sent[r] = << >>
    BY <1>1, <1>6 DEF RunFollows
  <2>2. \A i \in 1..Len(out[r]) : out[r][i].type # "delta"
    BY <2>1
  <2>3. QED
    BY <1>2, <1>3, <2>1, <2>2, NoText
<1>7. QED
  BY <1>4, <1>5, <1>6

\* A chat that is answered at once is told no text.
LEMMA FirstHasNoText ==
  ASSUME IInv, TypeOK', NEW r \in Requests, Refuse(r) \/ Submit(r) \/ SubmitFails(r),
         kind[r] = "chat"
  PROVE  ChatText(r)' = << >>
<1>1. TypeOK /\ out[r] = << >> /\ Len(<< >>) = 0 /\ 0 + 1 = 1 /\ 0 + 2 = 2
  BY DEF IInv, Follows, RunFollows, Refuse, Submit, SubmitFails
<1>2. out'[r] \in Seq(EventSet)
  BY DEF TypeOK, EventSet
<1>3. ChatText(r)' = TextOf(out'[r])
  BY DEF ChatText, TextOf
<1>4. \A i \in 1..Len(out'[r]) : out'[r][i].type # "delta"
  <2>1. CASE Refuse(r)
    <3>1. Send(r, <<Plain("error")>>) /\ "error" \in Types
      BY <2>1 DEF Refuse, Types
    <3>2. Len(out'[r]) = 1 /\ out'[r][1].type = "error"
      BY <1>1, <3>1, SendPlain
    <3>3. QED
      BY <3>2
  <2>2. CASE Submit(r)
    <3>1. Send(r, << >>)
      BY <2>2 DEF Submit
    <3>2. out'[r] = << >> \o << >>
      BY <1>1, <3>1 DEF Send, TypeOK
    <3>3. QED
      BY <3>2
  <2>3. CASE SubmitFails(r)
    <3>1. Send(r, <<Plain("stop"), Plain("DONE")>>) /\ "stop" \in Types /\ "DONE" \in Types
      BY <2>3 DEF SubmitFails, Types
    <3>2. Len(out'[r]) = 2 /\ out'[r][1].type = "stop" /\ out'[r][2].type = "DONE"
      <4>1. /\ Len(out'[r]) = Len(out[r]) + 2
            /\ out'[r][Len(out[r]) + 1].type = "stop" /\ out'[r][Len(out[r]) + 2].type = "DONE"
        BY <1>1, <3>1, SendTwoPlain
      <4>2. QED
        BY <1>1, <4>1
    <3>3. QED
      BY <3>2
  <2>4. QED
    BY <2>1, <2>2, <2>3
<1>5. QED
  BY <1>2, <1>3, <1>4, NoText

\* A request that is not a chat has no text before or after a step of it.
LEMMA OthersHaveNoText ==
  ASSUME IInv, IInv', NEW r \in Requests, kind' = kind, kind[r] # "chat"
  PROVE  ChatText(r) = << >> /\ ChatText(r)' = << >> /\ Made(r) = << >> /\ Made(r)' = << >>
<1>1. ChatText(r) = << >>
  BY TextIsTold
<1>2. ChatText(r)' = << >>
  <2>1. out'[r] \in Seq(EventSet) /\ \A i \in 1..Len(out'[r]) : out'[r][i].type # "delta"
    BY DEF IInv, Follows, OutFollows, TypeOK, EventSet
  <2>2. ChatText(r)' = TextOf(out'[r])
    BY DEF ChatText, TextOf
  <2>3. QED
    BY <2>1, <2>2, NoText
<1>3. QED
  BY <1>1, <1>2 DEF Made

\* The steps of requests that are not chats move the pipe's status at most.
LEMMA OtherKindsMove ==
  ASSUME IInv, IInv', NEW r \in Requests, kind[r] # "chat",
         \/ Refuse(r) \/ Submit(r) \/ SubmitFails(r) \/ Handle(r) \/ Disconnect(r)
         \/ Cancel(r) \/ Delta(r) \/ ToolCall(r) \/ FinishRun(r) \/ FutureResolves(r)
  PROVE  [Pipe!Next]_(Pipe!vars)
<1>1. TypeOK /\ RunFollows(r)
  BY DEF IInv, Follows
<1>2. kind' = kind
  BY DEF Refuse, Submit, SubmitFails, Handle, Poll, GetDelta, EnqueueFails, GetTimeout, Aborts, ChatEnds,
       TaskEnds, OnceEnds, ExecEnds, Disconnect, Cancel, Delta, ToolCall, FinishRun,
       FutureResolves
<1>3. ChatText(r)' = ChatText(r) /\ Made(r)' = Made(r) /\ ChatText(r)' = Made(r)
  BY <1>2, OthersHaveNoText
<1>4. \/ ChatStatus(r)' = ChatStatus(r)
      \/ ChatStatus(r) = "open" /\ ChatStatus(r)' \in {"broken", "closed"}
  <2>1. CASE pc[r] \in {"new"} \cup Handling
    BY <2>1 DEF ChatStatus, Handling
  <2>2. CASE pc[r] \notin {"new"} \cup Handling
    <3>1. pc' = pc
      BY <2>2 DEF Refuse, Submit, SubmitFails, Handle, Poll, GetDelta, EnqueueFails, GetTimeout, Aborts,
           ChatEnds, TaskEnds, OnceEnds, ExecEnds, Disconnect, Cancel, Delta, ToolCall,
           FinishRun, FutureResolves, Handling
    <3>2. pc[r] = "ended" => outcome'[r] = outcome[r]
      <4>1. pc[r] = "ended" => job[r] # "running"
        BY <1>1 DEF RunFollows
      <4>2. QED
        BY <2>2, <4>1 DEF Refuse, Submit, SubmitFails, Handle, Poll, GetDelta, EnqueueFails, GetTimeout,
             Aborts, ChatEnds, TaskEnds, OnceEnds, ExecEnds, Disconnect, Cancel, Delta,
             ToolCall, FinishRun, FutureResolves, Handling
    <3>3. QED
      BY <3>1, <3>2 DEF ChatStatus
  <2>3. QED
    BY <2>1, <2>2
<1>5. \A q \in Requests \ {r} : Alone(q)
  BY <1>1, OthersAlone
<1>6. QED
  BY <1>2, <1>3, <1>4, <1>5, PipeMove

\* A chat's delta that is forwarded is received.
LEMMA GetIsReceive ==
  ASSUME IInv, NEW r \in Requests, GetDelta(r), kind[r] = "chat"
  PROVE  \E n \in 1..MaxDeltas :
           /\ Len(ChatText(r)) + n <= Len(sent[r])
           /\ ChatText(r)' = SubSeq(sent[r], 1, Len(ChatText(r)) + n)
<1> DEFINE h == Head(queue[r])
           l == Len(out[r])
<1>1. TypeOK /\ pc[r] \in Handling /\ queue[r] # << >> /\ OutFollows(r)
  BY DEF IInv, GetDelta, Handling, Follows
<1>2. h # Tool
  BY <1>1, HeadIsNext
<1>3. h = l + 1 /\ l + 1 <= Len(sent[r])
  BY <1>1, <1>2, HeadIsNext DEF Taken
<1>4. l \in Nat /\ Len(sent[r]) \in 0..MaxDeltas /\ Len(sent[r]) \in Nat
  BY <1>1, Lengths, SentIsCount
<1>5. Event("delta", <<h>>) \in EventSet /\ Send(r, <<Event("delta", <<h>>)>>)
  <2>1. h \in 1..MaxDeltas
    BY <1>1, HeadIsTyped
  <2>2. Event("delta", <<h>>) \in EventSet
    BY <2>1, FewAreTyped, EventsAreTyped DEF Types
  <2>3. QED
    BY <1>2, <2>2 DEF GetDelta
<1>6. /\ Len(out'[r]) = l + 1 /\ out'[r][l + 1] = Event("delta", <<l + 1>>)
      /\ \A i \in 1..l : out'[r][i] = Event("delta", <<i>>)
  <2>1. /\ Len(out'[r]) = l + 1 /\ out'[r][l + 1] = Event("delta", <<h>>)
        /\ \A i \in 1..l : out'[r][i] = out[r][i]
    BY <1>1, <1>5, SendOne
  <2>2. \A i \in 1..l : out[r][i] = Event("delta", <<i>>)
    BY <1>1 DEF OutFollows
  <2>3. QED
    BY <1>3, <2>1, <2>2
<1>7. TextOf(out'[r]) = Count(l + 1)
  <2>1. out'[r] \in Seq(EventSet)
    BY <1>1, <1>5, FewAreTyped, SendAppends DEF TypeOK, EventSet
  <2>2. \A i \in 1..(l + 1) : i \in 1..l \/ i = l + 1
    BY <1>4
  <2>3. \A i \in 1..(l + 1) : out'[r][i] = Event("delta", <<i>>)
    BY <1>6, <2>2
  <2>4. l + 1 \in Nat /\ l + 1 <= Len(out'[r])
    BY <1>4, <1>6
  <2>5. \A i \in 1..Len(out'[r]) : i \in 1..(l + 1) \/ out'[r][i].type # "delta"
    BY <1>6
  <2> HIDE DEF l
  <2>6. QED
    BY <2>1, <2>3, <2>4, <2>5, TextIsCount
<1>8. ChatText(r) = Count(l) /\ Len(Count(l)) = l
  <2>1. l <= MaxDeltas
    BY <1>3, <1>4, StreamAssumption
  <2>2. QED
    BY <1>1, <1>4, <2>1, TextIsTold, CountIsSeq
<1>9. SubSeq(sent[r], 1, l + 1) = Count(l + 1) /\ 1 \in 1..MaxDeltas
  <2>1. l + 1 \in 0..Len(sent[r]) /\ 1 \in 1..MaxDeltas
    BY <1>3, <1>4, StreamAssumption
  <2>2. QED
    BY <2>1, SentIsCount
<1>10. ChatText(r)' = TextOf(out'[r])
  BY DEF ChatText, TextOf
<1> HIDE DEF l
<1>11. QED
  BY <1>3, <1>7, <1>8, <1>9, <1>10 DEF l

\* A chat that ends has been told all, unless its run raised.
LEMMA EndIsAll ==
  ASSUME IInv, TypeOK', NEW r \in Requests, ChatEnds(r)
  PROVE  ChatText(r)' = IF outcome[r] = "runtime_error" THEN ChatText(r) ELSE sent[r]
<1>1. /\ TypeOK /\ pc[r] \in Handling /\ kind[r] = "chat"
  BY DEF IInv, ChatEnds, Handling
<1>2. PICK k \in Nat, x \in {0, 1} :
           /\ Len(out'[r]) = k + x + 2
           /\ \A i \in 1..k : out'[r][i] = Event("delta", <<i>>)
           /\ x = 1 => out'[r][k + 1].type = "error"
           /\ out'[r][k + x + 1].type = "stop" /\ out'[r][k + x + 2].type = "DONE"
           /\ k = IF outcome[r] = "runtime_error" THEN Len(out[r]) ELSE Len(sent[r])
  BY ChatCloses
<1>3. TextOf(out'[r]) = Count(k)
  <2>1. out'[r] \in Seq(EventSet)
    BY DEF TypeOK, EventSet
  <2>2. k <= Len(out'[r])
    BY <1>2
  <2>3. \A i \in 1..Len(out'[r]) : i \in 1..k \/ out'[r][i].type # "delta"
    <3>1. \A i \in 1..(k + x + 2) :
            \/ i \in 1..k \/ (x = 1 /\ i = k + 1) \/ i = k + x + 1 \/ i = k + x + 2
      OBVIOUS
    <3>2. QED
      BY <1>2, <3>1
  <2>4. QED
    BY <1>2, <2>1, <2>2, <2>3, TextIsCount
<1>4. ChatText(r)' = TextOf(out'[r])
  BY DEF ChatText, TextOf
<1>5. QED
  BY <1>1, <1>2, <1>3, <1>4, TextIsTold, SentIsCount

\* The steps of a chat are the pipe's steps, or leave it alone.
LEMMA ChatsMove ==
  ASSUME IInv, IInv', NEW r \in Requests, kind[r] = "chat",
         \/ Refuse(r) \/ Submit(r) \/ SubmitFails(r) \/ Handle(r) \/ Disconnect(r)
         \/ Cancel(r) \/ Delta(r) \/ ToolCall(r) \/ FinishRun(r) \/ FutureResolves(r)
  PROVE  [Pipe!Next]_(Pipe!vars)
<1>1. TypeOK /\ RunFollows(r) /\ TypeOK'
  BY DEF IInv, Follows
<1>2. \A q \in Requests \ {r} : Alone(q)
  BY <1>1, OthersAlone
<1>3. CASE Refuse(r) \/ Submit(r) \/ SubmitFails(r)
  <2>1. /\ kind' = kind /\ sent' = sent /\ outcome' = outcome /\ pc[r] = "new"
        /\ pc'[r] \in {"refused", "ended"} \cup Handling
        /\ outcome[r] = "none"
    BY <1>1, <1>3 DEF Refuse, Submit, SubmitFails, Goto, TypeOK, RunFollows, Handling
  <2>2. ChatText(r)' = ChatText(r) /\ Made(r)' = Made(r)
    BY <1>1, <1>3, <2>1, TextIsTold, FirstHasNoText DEF Made
  <2>3. ChatStatus(r) = "open" /\ ChatStatus(r)' \in {"open", "broken"}
    BY <2>1 DEF ChatStatus, Returned, Handling
  <2>4. QED
    BY <1>2, <2>1, <2>2, <2>3, PipeMove
<1>4. CASE Poll(r) \/ GetTimeout(r) \/ Aborts(r) \/ Disconnect(r)
  <2>1. /\ kind' = kind /\ sent' = sent /\ outcome' = outcome /\ out' = out
        /\ pc[r] \in Handling /\ pc'[r] \in {"aborted", "gone"} \cup Handling
    BY <1>1, <1>4 DEF Poll, GetTimeout, Aborts, Disconnect, Goto, TypeOK, Handling
  <2>2. ChatText(r)' = ChatText(r) /\ Made(r)' = Made(r)
    BY <2>1 DEF Made, ChatText
  <2>3. ChatStatus(r) = "open" /\ ChatStatus(r)' \in {"open", "broken"}
    BY <2>1 DEF ChatStatus, Handling
  <2>4. QED
    BY <1>2, <2>1, <2>2, <2>3, PipeMove
<1>5. CASE FinishRun(r) \/ FutureResolves(r)
  <2>1. /\ kind' = kind /\ sent' = sent /\ out' = out /\ pc' = pc
        /\ pc[r] = "ended" => outcome'[r] = outcome[r]
    BY <1>1, <1>5 DEF FinishRun, FutureResolves, RunFollows, TypeOK
  <2>2. ChatText(r)' = ChatText(r) /\ Made(r)' = Made(r) /\ ChatStatus(r)' = ChatStatus(r)
    BY <2>1 DEF Made, ChatText, ChatStatus
  <2>3. QED
    BY <1>2, <2>1, <2>2, PipeMove
<1>6. CASE Delta(r)
  <2>1. /\ UNCHANGED <<kind, pc, outcome, out>> /\ job[r] = "running"
        /\ Len(sent[r]) < MaxDeltas /\ sent'[r] = Append(sent[r], Len(sent[r]) + 1)
    BY <1>1, <1>6 DEF Delta, TypeOK
  <2>2. ChatText(r)' = ChatText(r) /\ ChatStatus(r)' = ChatStatus(r)
    BY <2>1 DEF ChatText, ChatStatus
  <2>3. ChatStatus(r) # "closed"
    BY <1>1, <2>1 DEF ChatStatus, RunFollows
  <2>4. Len(sent[r]) + 1 \in 1..MaxDeltas
    BY <1>1, <2>1, Lengths, StreamAssumption
  <2>5. Made(r) = sent[r] /\ Made(r)' = Append(sent[r], Len(sent[r]) + 1)
    BY <2>1 DEF Made
  <2>6. QED
    BY <1>2, <2>1, <2>2, <2>3, <2>4, <2>5, PipeMove
<1>7. CASE GetDelta(r)
  <2>1. /\ kind' = kind /\ sent' = sent /\ outcome' = outcome
        /\ pc[r] \in Handling /\ pc'[r] \in Handling
    BY <1>1, <1>7 DEF GetDelta, Goto, TypeOK, Handling
  <2>2. ChatStatus(r) = "open" /\ ChatStatus(r)' = "open"
    BY <2>1 DEF ChatStatus, Handling
  <2>3. Made(r) = sent[r] /\ Made(r)' = Made(r)
    BY <2>1 DEF Made
  <2>4. \E n \in 1..MaxDeltas :
           /\ Len(ChatText(r)) + n <= Len(Made(r))
           /\ ChatText(r)' = SubSeq(Made(r), 1, Len(ChatText(r)) + n)
    BY <1>7, <2>3, GetIsReceive
  <2>5. QED
    BY <1>2, <2>1, <2>2, <2>3, <2>4, PipeMove
<1>8. CASE ChatEnds(r)
  <2>1. /\ kind' = kind /\ sent' = sent /\ outcome' = outcome /\ done[r]
        /\ pc[r] \in Handling /\ pc'[r] = "ended" /\ outcome[r] # "exception"
    BY <1>1, <1>8 DEF ChatEnds, Goto, TypeOK, Handling
  <2>2. outcome[r] \in Returned \cup {"runtime_error"}
    BY <1>1, <2>1 DEF RunFollows, TypeOK, Raised
  <2>3. Made(r) = sent[r] /\ Made(r)' = Made(r) /\ ChatStatus(r) = "open"
    BY <2>1 DEF Made, ChatStatus, Handling
  <2>4. ChatText(r)' = IF outcome[r] = "runtime_error" THEN ChatText(r) ELSE sent[r]
    BY <1>1, <1>8, EndIsAll
  <2>5. ChatStatus(r)' = IF outcome[r] = "runtime_error" THEN "broken" ELSE "closed"
    <3>1. outcome'[r] = outcome[r] /\ pc'[r] = "ended" /\ "runtime_error" \notin Returned
      BY <2>1 DEF Returned
    <3>2. pc'[r] \notin {"new"} \cup Handling
      BY <3>1 DEF Handling
    <3>3. CASE outcome[r] = "runtime_error"
      BY <3>1, <3>2, <3>3 DEF ChatStatus
    <3>4. CASE outcome[r] \in Returned
      BY <3>1, <3>2, <3>4 DEF ChatStatus
    <3>5. QED
      BY <2>2, <3>1, <3>3, <3>4
  <2>6. QED
    BY <1>2, <2>1, <2>3, <2>4, <2>5, PipeMove
<1>9. ~(EnqueueFails(r) \/ TaskEnds(r) \/ OnceEnds(r) \/ ExecEnds(r) \/ Cancel(r) \/ ToolCall(r))
  BY DEF EnqueueFails, TaskEnds, OnceEnds, ExecEnds, Cancel, ToolCall
<1>10. QED
  BY <1>3, <1>4, <1>5, <1>6, <1>7, <1>8, <1>9 DEF Handle

\* Every step is a step of the pipe or leaves it alone.
LEMMA StepIsPipeStep ==
  ASSUME IInv, IInv', [Next]_vars
  PROVE  [Pipe!Next]_(Pipe!vars)
<1>1. CASE UNCHANGED vars
  BY <1>1 DEF vars, Pipe!vars, ChatText, ChatStatus
<1>2. ASSUME NEW p \in Pools, StartRun(p)
      PROVE  [Pipe!Next]_(Pipe!vars)
  BY <1>2 DEF StartRun, Pipe!vars, ChatText, ChatStatus
<1>3. QED
  BY <1>1, <1>2, OtherKindsMove, ChatsMove DEF Next

\* A chat implements the text pipe: its client gets the agent's deltas in order, each
\* once, and all of them before the stream closes normally.
THEOREM Implements == Spec => ChatImplementsPipe
<1>1. Init => Pipe!Init
  <2> SUFFICES ASSUME Init
               PROVE  Pipe!Init
    OBVIOUS
  <2>1. IInv
    BY StartsRight
  <2>2. \A r \in Requests : /\ sent[r] = << >> /\ ChatText(r) = << >>
                            /\ ChatStatus(r) = "open"
    BY <2>1, TextIsTold DEF Init, ChatStatus
  <2>3. QED
    BY <2>2 DEF Pipe!Init
<1>2. IInv /\ IInv' /\ [Next]_vars => [Pipe!Next]_(Pipe!vars)
  BY StepIsPipeStep
<1>3. QED
  BY <1>1, <1>2, Invariance, PTL DEF Spec, ChatImplementsPipe, Pipe!Spec

-----------------------------------------------------------------------------
(* Nobody waits for nothing *)

\* A handler that waits has a run, and a run that waits is in its pool's backlog.
Attended(r) ==
  /\ pc[r] \in Handling => job[r] # "none"
  /\ job[r] = "waiting" => \E i \in 1..Len(backlog[Pool(r)]) : backlog[Pool(r)][i] = r

\* A thread takes one run from the backlog and leaves the others in it.
LEMMA StartRunAttends ==
  ASSUME TypeOK, NEW p \in Pools, StartRun(p), NEW r \in Requests, Attended(r)
  PROVE  Attended(r)'
<1> DEFINE q == Pool(r)
           b == backlog[q]
<1>1. /\ backlog \in [Pools -> Seq(Requests)] /\ q \in Pools /\ b \in Seq(Requests)
      /\ pc' = pc /\ Pool(r)' = Pool(r) /\ Len(b) \in Nat
  <2>1. backlog \in [Pools -> Seq(Requests)] /\ q \in Pools
    BY DEF TypeOK, Pool, Pools
  <2>2. pc' = pc /\ Pool(r)' = Pool(r)
    BY DEF StartRun, Pool
  <2>3. b \in Seq(Requests)
    BY <2>1
  <2>4. QED
    BY <2>1, <2>2, <2>3
<1>2. backlog[p] # << >> /\ backlog' = [backlog EXCEPT ![p] = Tail(@)]
  BY DEF StartRun
<1>3. /\ Head(backlog[p]) \in Requests /\ Head(backlog[p]) = backlog[p][1]
      /\ Len(Tail(backlog[p])) = Len(backlog[p]) - 1
      /\ \A k \in 1..Len(Tail(backlog[p])) : Tail(backlog[p])[k] = backlog[p][k + 1]
  BY <1>1, <1>2, HeadTailProperties
<1>4. /\ job'[Head(backlog[p])] = "running"
      /\ \A s \in Requests : s # Head(backlog[p]) => job'[s] = job[s]
  BY <1>3 DEF StartRun, TypeOK
<1>5. job'[r] # "none" \/ job'[r] = job[r]
  BY <1>4
<1>6. ASSUME job'[r] = "waiting"
      PROVE  \E i \in 1..Len(backlog'[q]) : backlog'[q][i] = r
  <2>1. job[r] = "waiting" /\ r # backlog[p][1]
    BY <1>3, <1>4, <1>6
  <2>2. PICK i \in 1..Len(b) : b[i] = r
    BY <2>1 DEF Attended
  <2>3. CASE q # p
    <3>1. backlog'[q] = b
      BY <1>1, <1>2, <2>3
    <3>2. QED
      BY <2>2, <3>1
  <2>4. CASE q = p
    <3>1. backlog'[q] = Tail(backlog[p]) /\ b = backlog[p]
      BY <1>1, <1>2, <2>4
    <3>2. i # 1 /\ i - 1 \in 1..(Len(b) - 1) /\ (i - 1) + 1 = i
      BY <1>1, <2>1, <2>2, <3>1
    <3>3. QED
      BY <1>3, <2>2, <3>1, <3>2
  <2>5. QED
    BY <2>3, <2>4
<1>7. QED
  BY <1>1, <1>5, <1>6 DEF Attended

\* A request that is submitted is the last of its pool's backlog.
LEMMA SubmitAttends ==
  ASSUME TypeOK, NEW s \in Requests, Submit(s), NEW r \in Requests, Attended(r)
  PROVE  Attended(r)'
<1> DEFINE b == backlog[Pool(s)]
<1>1. /\ backlog \in [Pools -> Seq(Requests)] /\ Pool(s) \in Pools /\ Pool(r) \in Pools
      /\ b \in Seq(Requests) /\ Pool(r)' = Pool(r) /\ Len(b) \in Nat
  BY DEF Submit, TypeOK, Pool, Pools
<1>2. /\ Len(Append(b, s)) = Len(b) + 1 /\ Append(b, s)[Len(b) + 1] = s
      /\ \A i \in 1..Len(b) : Append(b, s)[i] = b[i]
  BY <1>1, AppendProperties
<1>3. backlog'[Pool(s)] = Append(b, s) /\ \A q \in Pools : q # Pool(s) => backlog'[q] = backlog[q]
  BY <1>1 DEF Submit
<1>4. /\ job'[s] = "waiting"
      /\ r # s => job'[r] = job[r] /\ pc'[r] = pc[r]
  BY DEF Submit, Goto, TypeOK
<1>5. CASE r = s
  <2>1. Len(b) + 1 \in 1..(Len(b) + 1)
    BY <1>1
  <2>2. QED
    BY <1>1, <1>2, <1>3, <1>4, <1>5, <2>1 DEF Attended
<1>6. CASE r # s
  <2>1. CASE Pool(r) # Pool(s)
    BY <1>1, <1>3, <1>4, <1>6, <2>1 DEF Attended
  <2>2. CASE Pool(r) = Pool(s)
    <3>1. \A i \in 1..Len(b) : i \in 1..(Len(b) + 1)
      BY <1>1
    <3>2. QED
      BY <1>1, <1>2, <1>3, <1>4, <1>6, <2>2, <3>1 DEF Attended
  <2>3. QED
    BY <2>1, <2>2
<1>7. QED
  BY <1>5, <1>6

\* The other steps leave the backlogs alone, and no handler loses its run.
LEMMA OthersAttend ==
  ASSUME TypeOK, NEW s \in Requests, NEW r \in Requests, Attended(r),
         \/ Refuse(s) \/ SubmitFails(s) \/ Handle(s) \/ Disconnect(s) \/ Cancel(s)
         \/ Delta(s) \/ ToolCall(s) \/ FinishRun(s) \/ FutureResolves(s)
  PROVE  Attended(r)'
<1>1. backlog' = backlog /\ Pool(r)' = Pool(r)
  BY DEF Refuse, SubmitFails, Handle, Poll, GetDelta, EnqueueFails, GetTimeout, Aborts, ChatEnds, TaskEnds,
    OnceEnds, ExecEnds, Disconnect, Cancel, Delta, ToolCall, FinishRun, FutureResolves, Pool
<1>2. job'[r] = job[r] \/ job'[r] = "finished"
  BY DEF Refuse, SubmitFails, Handle, Poll, GetDelta, EnqueueFails, GetTimeout, Aborts, ChatEnds, TaskEnds,
    OnceEnds, ExecEnds, Disconnect, Cancel, Delta, ToolCall, FinishRun, FutureResolves, TypeOK
<1>3. pc'[r] \in Handling => pc[r] \in Handling
  BY DEF Refuse, SubmitFails, Handle, Poll, GetDelta, EnqueueFails, GetTimeout, Aborts, ChatEnds, TaskEnds,
    OnceEnds, ExecEnds, Disconnect, Cancel, Delta, ToolCall, FinishRun, FutureResolves, Goto,
    Handling, TypeOK
<1>4. QED
  BY <1>1, <1>2, <1>3 DEF Attended

\* No handler waits for a run that nobody has, and no run waits outside the backlog from
\* which the threads of its pool take theirs (run_in_executor, ThreadPoolExecutor): what
\* EveryHandlerEnds rests on before any fairness.
THEOREM NobodyIsForgotten ==
  Spec => [](\A r \in Requests :
               /\ pc[r] \in Handling => job[r] # "none"
               /\ job[r] = "waiting" =>
                    \E i \in 1..Len(backlog[Pool(r)]) : backlog[Pool(r)][i] = r)
<1> DEFINE All == \A r \in Requests : Attended(r)
<1>1. Init => All
  BY DEF Init, Attended, Handling
<1>2. TypeOK /\ All /\ [Next]_vars => All'
  <2>1. SUFFICES ASSUME TypeOK, All, [Next]_vars, NEW r \in Requests
                 PROVE  Attended(r)'
    OBVIOUS
  <2>2. CASE UNCHANGED vars
    BY <2>1, <2>2 DEF vars, Attended, Pool
  <2>3. QED
    BY <2>1, <2>2, StartRunAttends, SubmitAttends, OthersAttend DEF Next
<1>3. All => \A r \in Requests :
               /\ pc[r] \in Handling => job[r] # "none"
               /\ job[r] = "waiting" =>
                    \E i \in 1..Len(backlog[Pool(r)]) : backlog[Pool(r)][i] = r
  BY DEF Attended
<1> HIDE DEF All
<1>4. QED
  BY <1>1, <1>2, <1>3, TypeCorrect, PTL DEF Spec
=============================================================================
