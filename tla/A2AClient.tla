------------------------------ MODULE A2AClient ------------------------------
(***************************************************************************)
(* hermes_adapter/a2a/client.py: a2a_discover and a2a_call, run by the     *)
(* threads of an agent that calls other agents.  They share the card cache *)
(* of one URL.  A call is sent by tasks/send, or by tasks/sendSubscribe    *)
(* whose events are read until a terminal status or the end of the stream. *)
(* The remote agent is external: it may answer, fail, fall silent, break   *)
(* off at any time, and be replaced by one with another card.              *)
(***************************************************************************)
EXTENDS Naturals, Sequences

CONSTANTS Calls,
          TTL,       \* _CARD_TTL, in ticks
          MaxFetch,  \* longest fetch of a card, in ticks: assumed, as httpx's timeout
                     \* is one of each connect and read, not of the whole fetch
          MaxTime,   \* bound on the clock
          MaxTexts,  \* bound on the artifacts of one stream
          None       \* no card in the cache

ASSUME ClientAssumption == /\ TTL \in Nat \ {0} /\ MaxFetch \in Nat
                           /\ MaxTime \in Nat /\ MaxTexts \in Nat
                           /\ None \notin [card : [streaming : BOOLEAN, served : Nat], expires : Nat]

VARIABLES
  now,      \* time.monotonic()
  cache,    \* the cached card, with its expiry
  pc,       \* where each call is
  card,     \* the card it has fetched or found
  begun,    \* when it began to fetch
  age,      \* how long ago the card it went by had been served
  texts,    \* the artifacts its stream has been sent
  wire,     \* the events on their way to it
  remote,   \* whether its stream is open, ended, or broken
  got,      \* the last artifact it has read
  reply     \* what it returned

vars == <<now, cache, pc, card, begun, age, texts, wire, remote, got, reply>>

NoCard == [streaming |-> FALSE, served |-> 0]
Cards  == [streaming : BOOLEAN, served : 0..MaxTime]

\* One SSE event: the artifact that holds all text so far, or 0 for none, and whether
\* its status is completed, failed or canceled.
Events == [text : 0..MaxTexts, terminal : BOOLEAN]

TypeOK ==
  /\ now \in 0..MaxTime
  /\ cache = None \/ cache \in [card : Cards, expires : Nat]
  /\ pc \in [Calls -> {"idle", "fetch", "store", "send", "stream", "returned"}]
  /\ card \in [Calls -> Cards]
  /\ begun \in [Calls -> 0..MaxTime]
  /\ age \in [Calls -> 0..MaxTime]
  /\ texts \in [Calls -> 0..MaxTexts]
  /\ wire \in [Calls -> Seq(Events)]
  /\ remote \in [Calls -> {"open", "ended", "broken"}]
  /\ got \in [Calls -> 0..MaxTexts]
  /\ reply \in [Calls -> {"none", "card", "answer", "text", "error"}]
  /\ \A c \in Calls : pc[c] = "returned" <=> reply[c] # "none"

-----------------------------------------------------------------------------
Goto(c, l) == pc' = [pc EXCEPT ![c] = l]

Return(c, r) == /\ Goto(c, "returned")
                /\ reply' = [reply EXCEPT ![c] = r]

Init ==
  /\ now = 0
  /\ cache = None
  /\ pc = [c \in Calls |-> "idle"]
  /\ card = [c \in Calls |-> NoCard]
  /\ begun = [c \in Calls |-> 0]
  /\ age = [c \in Calls |-> 0]
  /\ texts = [c \in Calls |-> 0]
  /\ wire = [c \in Calls |-> << >>]
  /\ remote = [c \in Calls |-> "open"]
  /\ got = [c \in Calls |-> 0]
  /\ reply = [c \in Calls |-> "none"]

\* Time passes; a fetch lasts MaxFetch at most.
Tick ==
  /\ now < MaxTime
  /\ \A c \in Calls : pc[c] \in {"fetch", "store"} => now < begun[c] + MaxFetch
  /\ now' = now + 1
  /\ UNCHANGED <<cache, pc, card, begun, age, texts, wire, remote, got, reply>>

-----------------------------------------------------------------------------
\* The card.

\* What is done by a card: discover returns it, a call goes by its streaming flag.
GoBy(c, k) ==
  /\ age' = [age EXCEPT ![c] = now - k.served]
  /\ \/ Return(c, "card")
     \/ /\ Goto(c, IF k.streaming THEN "stream" ELSE "send")
        /\ UNCHANGED reply

FindsCard(c) ==
  /\ pc[c] = "idle"
  /\ cache # None /\ now < cache.expires
  /\ GoBy(c, cache.card)
  /\ UNCHANGED <<now, cache, card, begun, texts, wire, remote, got>>

\* No card, or one that has expired.
Fetches(c) ==
  /\ pc[c] = "idle"
  /\ cache = None \/ (cache # None /\ now >= cache.expires)
  /\ Goto(c, "fetch")
  /\ begun' = [begun EXCEPT ![c] = now]
  /\ UNCHANGED <<now, cache, card, age, texts, wire, remote, got, reply>>

\* Whichever agent answers at the URL by now.
AgentServesCard(c) ==
  /\ pc[c] = "fetch"
  /\ Goto(c, "store")
  /\ \E s \in BOOLEAN : card' = [card EXCEPT ![c] = [streaming |-> s, served |-> now]]
  /\ UNCHANGED <<now, cache, begun, age, texts, wire, remote, got, reply>>

\* The expiry counts from here, whatever another thread has stored since.
StoresCard(c) ==
  /\ pc[c] = "store"
  /\ cache' = [card |-> card[c], expires |-> now + TTL]
  /\ GoBy(c, card[c])
  /\ card' = [card EXCEPT ![c] = NoCard]
  /\ begun' = [begun EXCEPT ![c] = 0]
  /\ UNCHANGED <<now, texts, wire, remote, got>>

\* Mutant: a fetch that fails falls back on the cache, expired or not.
FetchFails_GoesByStale(c) ==
  /\ pc[c] \in {"fetch", "store"}
  /\ IF cache # None
       THEN GoBy(c, cache.card)
       ELSE /\ \/ Return(c, "error")
               \/ Goto(c, "send") /\ UNCHANGED reply
            /\ UNCHANGED age
  /\ UNCHANGED <<now, cache, card, begun, texts, wire, remote, got>>

\* Nothing is cached; a call goes on without streaming, discover tells the error.
FetchFails(c) ==
  /\ pc[c] \in {"fetch", "store"}
  /\ \/ Return(c, "error")
     \/ Goto(c, "send") /\ UNCHANGED reply
  /\ card' = [card EXCEPT ![c] = NoCard]
  /\ begun' = [begun EXCEPT ![c] = 0]
  /\ UNCHANGED <<now, cache, age, texts, wire, remote, got>>

\* stream is given: no card is needed.
Forced(c) ==
  /\ pc[c] = "idle"
  /\ \E l \in {"send", "stream"} : Goto(c, l)
  /\ UNCHANGED <<now, cache, card, begun, age, texts, wire, remote, got, reply>>

-----------------------------------------------------------------------------
\* tasks/send: one answer with a text; a failure, a JSON-RPC error, an answer without
\* text and 120 s of silence are errors.
SendEnds(c) ==
  /\ pc[c] = "send"
  /\ \E r \in {"answer", "error"} : Return(c, r)
  /\ UNCHANGED <<now, cache, card, begun, age, texts, wire, remote, got>>

\* tasks/sendSubscribe: the remote agent sends an event, none after a terminal one.
RemoteSends(c, e) ==
  /\ pc[c] = "stream" /\ remote[c] = "open"
  /\ e.text = 0 => e.terminal
  /\ e.text # 0 => e.text = texts[c] + 1
  /\ wire' = [wire EXCEPT ![c] = Append(@, e)]
  /\ texts' = [texts EXCEPT ![c] = IF e.text = 0 THEN @ ELSE e.text]
  /\ remote' = [remote EXCEPT ![c] = IF e.terminal THEN "ended" ELSE "open"]
  /\ UNCHANGED <<now, cache, pc, card, begun, age, got, reply>>

\* It closes the stream, or the connection breaks.
RemoteStops(c) ==
  /\ pc[c] = "stream" /\ remote[c] = "open"
  /\ \E how \in {"ended", "broken"} : remote' = [remote EXCEPT ![c] = how]
  /\ UNCHANGED <<now, cache, pc, card, begun, age, texts, wire, got, reply>>

\* What a stream returns at its end: the last artifact, or an error when there is none.
Result(artifact) == IF artifact = 0 THEN "error" ELSE "text"

\* Mutant: the status is looked at before the artifacts.
ReadsEvent_StatusFirst(c) ==
  /\ pc[c] = "stream" /\ wire[c] # << >>
  /\ LET e == Head(wire[c])
     IN IF e.terminal
          THEN Return(c, Result(got[c])) /\ UNCHANGED got
          ELSE /\ got' = [got EXCEPT ![c] = IF e.text = 0 THEN @ ELSE e.text]
               /\ UNCHANGED <<pc, reply>>
  /\ wire' = [wire EXCEPT ![c] = Tail(@)]
  /\ UNCHANGED <<now, cache, card, begun, age, texts, remote>>

\* The loop over the lines of the answer, left at a terminal status.
ReadsEvent(c) ==
  /\ pc[c] = "stream" /\ wire[c] # << >>
  /\ LET e == Head(wire[c])
         last == IF e.text = 0 THEN got[c] ELSE e.text
     IN /\ got' = [got EXCEPT ![c] = last]
        /\ IF e.terminal THEN Return(c, Result(last)) ELSE UNCHANGED <<pc, reply>>
  /\ wire' = [wire EXCEPT ![c] = Tail(@)]
  /\ UNCHANGED <<now, cache, card, begun, age, texts, remote>>

\* The stream has ended; a status was not asked for.
ReadsEnd(c) ==
  /\ pc[c] = "stream" /\ wire[c] = << >> /\ remote[c] = "ended"
  /\ Return(c, Result(got[c]))
  /\ UNCHANGED <<now, cache, card, begun, age, texts, wire, remote, got>>

\* Mutant: the error is noted and the loop goes on.
StreamFails_GoesOn(c) ==
  /\ pc[c] = "stream"
  /\ remote[c] = "broken" \/ (wire[c] = << >> /\ remote[c] = "open")
  /\ reply' = [reply EXCEPT ![c] = "error"]
  /\ UNCHANGED <<now, cache, pc, card, begun, age, texts, wire, remote, got>>

\* The connection breaks, or nothing comes for 120 s: the text so far is dropped.
StreamFails(c) ==
  /\ pc[c] = "stream"
  /\ remote[c] = "broken" \/ (wire[c] = << >> /\ remote[c] = "open")
  /\ Return(c, "error")
  /\ wire' = [wire EXCEPT ![c] = << >>]
  /\ UNCHANGED <<now, cache, card, begun, age, texts, remote, got>>

Answer(c) == SendEnds(c) \/ ReadsEvent(c) \/ ReadsEnd(c) \/ StreamFails(c)

Next == \/ Tick
        \/ \E c \in Calls : \/ FindsCard(c) \/ Fetches(c) \/ AgentServesCard(c)
                            \/ StoresCard(c) \/ FetchFails(c) \/ Forced(c)
                            \/ \E e \in Events : RemoteSends(c, e)
                            \/ RemoteStops(c)
                            \/ Answer(c)

Spec == Init /\ [][Next]_vars

\* The threads run, httpx times out, and the remote agent owes nothing.
FairSpec == /\ Spec
            /\ \A c \in Calls : WF_vars(FetchFails(c)) /\ WF_vars(Answer(c))

-----------------------------------------------------------------------------
\* The card that a call goes by was served no longer ago than one TTL and one fetch,
\* however threads overtake each other between fetching and storing.
CardIsRecent ==
  \A c \in Calls : age[c] < TTL + MaxFetch \/ age[c] = 0

\* Every call whose card is being fetched or whose stream is read returns though the
\* agent falls silent anywhere, and a text it returns is all the agent has sent on a
\* stream that ended, with or without a terminal status: neither an earlier artifact,
\* nor what came before the connection broke.
CallsReturnAllText ==
  \A c \in Calls :
    pc[c] \in {"fetch", "store", "send", "stream"} ~>
      pc[c] = "returned" /\ (reply[c] = "text" => got[c] = texts[c] /\ remote[c] = "ended")
=============================================================================
