------------------------------- MODULE TextPipe -------------------------------
(***************************************************************************)
(* What a streaming answer promises its client: the text it has received   *)
(* is at all times a prefix of the text the agent has produced, and when   *)
(* the stream closes normally nothing is missing.  A stream may break.     *)
(***************************************************************************)
EXTENDS Naturals, Sequences

CONSTANTS Streams, MaxDeltas

VARIABLES produced,   \* the deltas the agent has produced for each stream
          received,   \* the deltas its client has received
          status      \* "open", "closed" (complete) or "broken"

vars == <<produced, received, status>>

Init ==
  /\ produced = [s \in Streams |-> << >>]
  /\ received = [s \in Streams |-> << >>]
  /\ status = [s \in Streams |-> "open"]

\* The agent goes on although its client may have left.
Produce(s) ==
  /\ Len(produced[s]) < MaxDeltas /\ status[s] # "closed"
  /\ \E d \in 1..MaxDeltas : produced' = [produced EXCEPT ![s] = Append(@, d)]
  /\ UNCHANGED <<received, status>>

Receive(s) ==
  /\ status[s] = "open"
  /\ \E n \in 1..MaxDeltas :
       /\ Len(received[s]) + n <= Len(produced[s])
       /\ received' = [received EXCEPT ![s] = SubSeq(produced[s], 1, Len(@) + n)]
  /\ UNCHANGED <<produced, status>>

\* The last deltas may come together with the end of the stream.
Close(s) ==
  /\ status[s] = "open"
  /\ received' = [received EXCEPT ![s] = produced[s]]
  /\ status' = [status EXCEPT ![s] = "closed"]
  /\ UNCHANGED produced

Break(s) ==
  /\ status[s] = "open"
  /\ status' = [status EXCEPT ![s] = "broken"]
  /\ UNCHANGED <<produced, received>>

Next == \E s \in Streams : Produce(s) \/ Receive(s) \/ Close(s) \/ Break(s)

Spec == Init /\ [][Next]_vars
=============================================================================
