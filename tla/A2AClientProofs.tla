---------------------------- MODULE A2AClientProofs ----------------------------
(***************************************************************************)
(* Proofs about A2AClient, for any number of calls and any TTL, timeout    *)
(* and clock: its type invariant, that a card a call goes by is recent,    *)
(* and that a text it returns is all its agent has sent.                   *)
(***************************************************************************)
EXTENDS A2AClient, SequenceTheorems, TLAPS

-----------------------------------------------------------------------------
(* The inductive invariant *)

\* A card was served before now and is thrown away one TTL after it was stored, which
\* its fetch delays by no more than a timeout.
CacheIsFresh ==
  cache # None => /\ cache.card.served <= now
                  /\ cache.expires <= cache.card.served + MaxFetch + TTL

\* A fetch is under way for no longer than its timeout, and its card is served meanwhile.
FetchesAreShort ==
  \A c \in Calls :
    /\ pc[c] \in {"fetch", "store"} => begun[c] <= now /\ now <= begun[c] + MaxFetch
    /\ pc[c] = "store" => begun[c] <= card[c].served /\ card[c].served <= now

IInv == TypeOK /\ CacheIsFresh /\ FetchesAreShort /\ CardIsRecent

-----------------------------------------------------------------------------
\* The constants as the provers need them.
LEMMA Constants ==
  /\ TTL \in Nat /\ TTL > 0 /\ MaxFetch \in Nat /\ MaxTime \in Nat /\ MaxTexts \in Nat
  BY ClientAssumption

\* What a call returns is a reply.
LEMMA ReturnTyped ==
  ASSUME TypeOK, NEW c \in Calls, NEW r \in {"card", "answer", "text", "error"}, Return(c, r)
  PROVE  /\ pc' \in [Calls -> {"idle", "fetch", "store", "send", "stream", "returned"}]
         /\ reply' \in [Calls -> {"none", "card", "answer", "text", "error"}]
         /\ \A d \in Calls : pc'[d] = "returned" <=> reply'[d] # "none"
  BY DEF TypeOK, Return, Goto

\* Going by a card that is no older than it may be keeps the types and leaves no other
\* trace than its age.
LEMMA GoByTyped ==
  ASSUME TypeOK, NEW c \in Calls, NEW k \in Cards, k.served <= now, GoBy(c, k),
         pc[c] # "returned"
  PROVE  /\ pc' \in [Calls -> {"idle", "fetch", "store", "send", "stream", "returned"}]
         /\ reply' \in [Calls -> {"none", "card", "answer", "text", "error"}]
         /\ \A d \in Calls : pc'[d] = "returned" <=> reply'[d] # "none"
         /\ age' = [age EXCEPT ![c] = now - k.served]
         /\ age' \in [Calls -> 0..MaxTime]
         /\ pc'[c] \notin {"fetch", "store"} /\ \A d \in Calls \ {c} : pc'[d] = pc[d]
<1>1. now - k.served \in 0..MaxTime
  BY Constants DEF TypeOK, Cards
<1>2. age' = [age EXCEPT ![c] = now - k.served] /\ age' \in [Calls -> 0..MaxTime]
  BY <1>1 DEF GoBy, TypeOK
<1>3. CASE Return(c, "card")
  BY <1>2, <1>3 DEF Return, Goto, TypeOK
<1>4. CASE Goto(c, IF k.streaming THEN "stream" ELSE "send") /\ UNCHANGED reply
  BY <1>2, <1>4 DEF Goto, TypeOK
<1>5. QED
  BY <1>3, <1>4 DEF GoBy

\* Every step keeps the invariant.
LEMMA Step ==
  ASSUME IInv, [Next]_vars
  PROVE  IInv'
<1> USE DEF IInv
<1>1. CASE Tick
  <2>1. TypeOK' /\ now' = now + 1
    BY <1>1, Constants DEF Tick, TypeOK
  <2>2. CacheIsFresh'
    BY <1>1, Constants DEF Tick, TypeOK, CacheIsFresh, Cards
  <2>3. FetchesAreShort'
    BY <1>1, Constants DEF Tick, TypeOK, FetchesAreShort, Cards
  <2>4. QED
    BY <1>1, <2>1, <2>2, <2>3 DEF Tick, CardIsRecent
<1>2. ASSUME NEW c \in Calls, FindsCard(c)
      PROVE  IInv'
  <2>1. /\ cache.card \in Cards /\ cache.card.served <= now
        /\ now < cache.card.served + MaxFetch + TTL /\ pc[c] = "idle"
    BY <1>2, Constants DEF FindsCard, TypeOK, CacheIsFresh, Cards
  <2> DEFINE k == cache.card
  <2>2. /\ pc' \in [Calls -> {"idle", "fetch", "store", "send", "stream", "returned"}]
        /\ reply' \in [Calls -> {"none", "card", "answer", "text", "error"}]
        /\ \A d \in Calls : pc'[d] = "returned" <=> reply'[d] # "none"
        /\ age' = [age EXCEPT ![c] = now - k.served]
        /\ age' \in [Calls -> 0..MaxTime]
        /\ pc'[c] \notin {"fetch", "store"} /\ \A d \in Calls \ {c} : pc'[d] = pc[d]
    BY <1>2, <2>1, GoByTyped DEF FindsCard
  <2>3. now - k.served < TTL + MaxFetch
    BY <2>1, Constants DEF TypeOK, Cards
  <2>4. CardIsRecent'
    BY <2>2, <2>3 DEF CardIsRecent, TypeOK
  <2>5. TypeOK' /\ CacheIsFresh' /\ FetchesAreShort'
    BY <1>2, <2>2 DEF FindsCard, TypeOK, CacheIsFresh, FetchesAreShort
  <2>6. QED
    BY <2>4, <2>5
<1>3. ASSUME NEW c \in Calls, Fetches(c)
      PROVE  IInv'
  <2>1. TypeOK'
    BY <1>3 DEF Fetches, Goto, TypeOK
  <2>2. FetchesAreShort'
    BY <1>3, Constants DEF Fetches, Goto, TypeOK, FetchesAreShort
  <2>3. QED
    BY <1>3, <2>1, <2>2 DEF Fetches, CacheIsFresh, CardIsRecent
<1>4. ASSUME NEW c \in Calls, AgentServesCard(c)
      PROVE  IInv'
  <2>1. PICK s \in BOOLEAN : card' = [card EXCEPT ![c] = [streaming |-> s, served |-> now]]
    BY <1>4 DEF AgentServesCard
  <2>2. TypeOK'
    BY <1>4, <2>1 DEF AgentServesCard, Goto, TypeOK, Cards
  <2>3. FetchesAreShort'
    BY <1>4, <2>1, Constants DEF AgentServesCard, Goto, TypeOK, FetchesAreShort
  <2>4. QED
    BY <1>4, <2>2, <2>3 DEF AgentServesCard, CacheIsFresh, CardIsRecent
<1>5. ASSUME NEW c \in Calls, StoresCard(c)
      PROVE  IInv'
  <2> DEFINE k == card[c]
  <2>1. /\ k \in Cards /\ k.served <= now /\ now <= k.served + MaxFetch /\ pc[c] = "store"
    BY <1>5, Constants DEF StoresCard, TypeOK, FetchesAreShort, Cards
  <2>2. /\ pc' \in [Calls -> {"idle", "fetch", "store", "send", "stream", "returned"}]
        /\ reply' \in [Calls -> {"none", "card", "answer", "text", "error"}]
        /\ \A d \in Calls : pc'[d] = "returned" <=> reply'[d] # "none"
        /\ age' = [age EXCEPT ![c] = now - k.served]
        /\ age' \in [Calls -> 0..MaxTime]
        /\ pc'[c] \notin {"fetch", "store"} /\ \A d \in Calls \ {c} : pc'[d] = pc[d]
    BY <1>5, <2>1, GoByTyped DEF StoresCard
  <2>3. now - k.served < TTL + MaxFetch
    BY <2>1, Constants DEF TypeOK, Cards
  <2>4. CardIsRecent'
    BY <2>2, <2>3 DEF CardIsRecent, TypeOK
  <2>5. CacheIsFresh' /\ cache' \in [card : Cards, expires : Nat]
    BY <1>5, <2>1, Constants DEF StoresCard, CacheIsFresh, TypeOK, Cards
  <2>6. TypeOK'
    BY <1>5, <2>2, <2>5, Constants DEF StoresCard, TypeOK, Cards, NoCard
  <2>7. FetchesAreShort'
    BY <1>5, <2>2 DEF StoresCard, TypeOK, FetchesAreShort
  <2>8. QED
    BY <2>4, <2>5, <2>6, <2>7
<1>6. ASSUME NEW c \in Calls, FetchFails(c)
      PROVE  IInv'
  <2>1. TypeOK'
    <3>1. /\ pc' \in [Calls -> {"idle", "fetch", "store", "send", "stream", "returned"}]
          /\ reply' \in [Calls -> {"none", "card", "answer", "text", "error"}]
          /\ \A d \in Calls : pc'[d] = "returned" <=> reply'[d] # "none"
      <4>1. CASE Return(c, "error")
        BY <4>1, ReturnTyped
      <4>2. CASE Goto(c, "send") /\ UNCHANGED reply
        BY <1>6, <4>2 DEF FetchFails, Goto, TypeOK
      <4>3. QED
        BY <1>6, <4>1, <4>2 DEF FetchFails
    <3>2. card' \in [Calls -> Cards] /\ begun' \in [Calls -> 0..MaxTime]
      BY <1>6, Constants DEF FetchFails, TypeOK, Cards, NoCard
    <3>3. QED
      BY <1>6, <3>1, <3>2 DEF FetchFails, TypeOK
  <2>2. FetchesAreShort'
    BY <1>6 DEF FetchFails, Return, Goto, TypeOK, FetchesAreShort
  <2>3. QED
    BY <1>6, <2>1, <2>2 DEF FetchFails, CacheIsFresh, CardIsRecent
<1>7. ASSUME NEW c \in Calls, Forced(c)
      PROVE  IInv'
  <2>1. TypeOK'
    BY <1>7 DEF Forced, Goto, TypeOK
  <2>2. FetchesAreShort'
    BY <1>7 DEF Forced, Goto, TypeOK, FetchesAreShort
  <2>3. QED
    BY <1>7, <2>1, <2>2 DEF Forced, CacheIsFresh, CardIsRecent
<1>8. ASSUME NEW c \in Calls, NEW e \in Events, RemoteSends(c, e)
      PROVE  IInv'
  <2>1. Append(wire[c], e) \in Seq(Events)
    BY DEF TypeOK
  <2>2. TypeOK'
    BY <1>8, <2>1 DEF RemoteSends, TypeOK, Events
  <2>3. QED
    BY <1>8, <2>2 DEF RemoteSends, CacheIsFresh, FetchesAreShort, CardIsRecent
<1>9. ASSUME NEW c \in Calls, RemoteStops(c)
      PROVE  IInv'
  <2>1. TypeOK'
    BY <1>9 DEF RemoteStops, TypeOK
  <2>2. QED
    BY <1>9, <2>1 DEF RemoteStops, CacheIsFresh, FetchesAreShort, CardIsRecent
<1>10. ASSUME NEW c \in Calls, SendEnds(c) \/ ReadsEnd(c) \/ StreamFails(c)
       PROVE  IInv'
  <2>1. PICK r \in {"answer", "text", "error"} : Return(c, r)
    BY <1>10 DEF SendEnds, ReadsEnd, StreamFails, Result
  <2>2. wire' \in [Calls -> Seq(Events)]
    <3>1. << >> \in Seq(Events)
      OBVIOUS
    <3>2. wire' = wire \/ wire' = [wire EXCEPT ![c] = << >>]
      BY <1>10 DEF SendEnds, ReadsEnd, StreamFails
    <3>3. QED
      BY <3>1, <3>2 DEF TypeOK
  <2>3. TypeOK'
    BY <1>10, <2>1, <2>2, ReturnTyped DEF SendEnds, ReadsEnd, StreamFails, TypeOK
  <2>4. FetchesAreShort'
    BY <1>10 DEF SendEnds, ReadsEnd, StreamFails, Return, Goto, TypeOK, FetchesAreShort
  <2>5. QED
    BY <1>10, <2>3, <2>4 DEF SendEnds, ReadsEnd, StreamFails, CacheIsFresh, CardIsRecent
<1>11. ASSUME NEW c \in Calls, ReadsEvent(c)
       PROVE  IInv'
  <2>1. /\ Head(wire[c]) \in Events /\ Tail(wire[c]) \in Seq(Events)
        /\ \A g : Result(g) \in {"text", "error"}
    BY <1>11 DEF ReadsEvent, TypeOK, Result
  <2> DEFINE e == Head(wire[c])
             last == IF e.text = 0 THEN got[c] ELSE e.text
  <2>2. /\ pc' \in [Calls -> {"idle", "fetch", "store", "send", "stream", "returned"}]
        /\ reply' \in [Calls -> {"none", "card", "answer", "text", "error"}]
        /\ \A d \in Calls : pc'[d] = "returned" <=> reply'[d] # "none"
    <3>1. CASE Return(c, Result(last))
      BY <2>1, <3>1, ReturnTyped
    <3>2. CASE UNCHANGED <<pc, reply>>
      BY <3>2 DEF TypeOK
    <3>3. QED
      BY <1>11, <3>1, <3>2 DEF ReadsEvent
  <2>3. last \in 0..MaxTexts
    BY <2>1 DEF TypeOK, Events
  <2>4. TypeOK'
    BY <1>11, <2>1, <2>2, <2>3 DEF ReadsEvent, TypeOK
  <2>5. FetchesAreShort'
    BY <1>11 DEF ReadsEvent, Return, Goto, TypeOK, FetchesAreShort
  <2>6. QED
    BY <1>11, <2>4, <2>5 DEF ReadsEvent, CacheIsFresh, CardIsRecent
<1>12. CASE UNCHANGED vars
  BY <1>12 DEF vars, TypeOK, CacheIsFresh, FetchesAreShort, CardIsRecent
<1>13. QED
  BY <1>1, <1>2, <1>3, <1>4, <1>5, <1>6, <1>7, <1>8, <1>9, <1>10, <1>11, <1>12
    DEF Next, Answer

\* The invariant holds throughout.
THEOREM Invariance == Spec => []IInv
<1>1. Init => IInv
  BY Constants DEF Init, IInv, TypeOK, CacheIsFresh, FetchesAreShort, CardIsRecent, Cards, NoCard
<1>2. QED
  BY <1>1, Step, PTL DEF Spec

\* Every variable keeps its type, and a call has a reply exactly when it has returned.
THEOREM TypeCorrect == Spec => []TypeOK
<1>1. IInv => TypeOK
  BY DEF IInv
<1>2. QED
  BY <1>1, Invariance, PTL

\* No call goes by a card older than a TTL and a fetch.
THEOREM Recent == Spec => []CardIsRecent
<1>1. IInv => CardIsRecent
  BY DEF IInv
<1>2. QED
  BY <1>1, Invariance, PTL

-----------------------------------------------------------------------------
(* The text of a stream *)

\* The events on the wire follow on what has been read: each holds one text more, but a
\* terminal one, which is the last and may hold none.  A text that was returned is all
\* there is, and nothing more can come.
Stream(c) ==
  LET w == wire[c] IN
  /\ pc[c] \notin {"stream", "returned"} =>
       w = << >> /\ texts[c] = 0 /\ got[c] = 0 /\ remote[c] = "open"
  /\ pc[c] = "stream" =>
       /\ \A i \in 1..Len(w) :
            /\ w[i].text # 0 => w[i].text = got[c] + i
            /\ w[i].text = 0 => w[i].terminal
            /\ w[i].terminal => i = Len(w) /\ remote[c] = "ended"
       /\ texts[c] = got[c] + (IF Len(w) > 0 /\ w[Len(w)].text = 0 THEN Len(w) - 1 ELSE Len(w))
  /\ reply[c] = "text" => got[c] = texts[c] /\ remote[c] = "ended"

StreamInv == \A c \in Calls : Stream(c)

\* Until its stream is open a call has no text, and its remote agent sends nothing.
LEMMA BeforeStream ==
  ASSUME TypeOK, StreamInv, NEW c \in Calls,
         \/ FindsCard(c) \/ Fetches(c) \/ AgentServesCard(c) \/ StoresCard(c) \/ FetchFails(c)
         \/ Forced(c) \/ SendEnds(c)
  PROVE  StreamInv'
<1>1. pc[c] \notin {"stream", "returned"} /\ Stream(c) /\ reply[c] # "text"
  BY DEF FindsCard, Fetches, AgentServesCard, StoresCard, FetchFails, Forced, SendEnds, StreamInv, TypeOK
<1>2. UNCHANGED <<texts, wire, remote, got>>
  BY DEF FindsCard, Fetches, AgentServesCard, StoresCard, FetchFails, Forced, SendEnds
<1>3. /\ reply'[c] # "text"
      /\ \A d \in Calls \ {c} : pc'[d] = pc[d] /\ reply'[d] = reply[d]
  BY <1>1 DEF FindsCard, Fetches, AgentServesCard, StoresCard, FetchFails, Forced, SendEnds, GoBy,
    Return, Goto, TypeOK
<1>4. Len(wire[c]) = 0 /\ texts[c] = 0 /\ got[c] = 0
  BY <1>1 DEF Stream
<1>5. Stream(c)'
  BY <1>1, <1>2, <1>3, <1>4 DEF Stream
<1>6. QED
  BY <1>2, <1>3, <1>5 DEF StreamInv, Stream

\* The types of one call, as the provers need them.
LEMMA CallTypes ==
  ASSUME TypeOK, NEW c \in Calls
  PROVE  /\ wire[c] \in Seq(Events) /\ Len(wire[c]) \in Nat
         /\ got[c] \in Nat /\ texts[c] \in Nat
         /\ \A i \in 1..Len(wire[c]) : wire[c][i].text \in Nat /\ wire[c][i].terminal \in BOOLEAN
         /\ pc[c] = "stream" => reply[c] = "none"
<1>1. wire[c] \in Seq(Events) /\ Len(wire[c]) \in Nat
  BY DEF TypeOK
<1>2. \A i \in 1..Len(wire[c]) : wire[c][i] \in Events
  BY <1>1
<1>3. got[c] \in Nat /\ texts[c] \in Nat
  BY Constants DEF TypeOK
<1>4. \A e \in Events : e.text \in Nat /\ e.terminal \in BOOLEAN
  BY Constants DEF Events
<1>5. QED
  BY <1>1, <1>2, <1>3, <1>4 DEF TypeOK

\* What the remote agent sends follows on what it has sent.
LEMMA SendsStream ==
  ASSUME TypeOK, StreamInv, NEW c \in Calls, NEW e \in Events, RemoteSends(c, e)
  PROVE  StreamInv'
<1> DEFINE w == wire[c]
           n == Len(w)
<1>1. /\ w \in Seq(Events) /\ n \in Nat /\ got[c] \in Nat /\ texts[c] \in Nat /\ e.text \in Nat
      /\ e.terminal \in BOOLEAN /\ pc[c] = "stream" /\ remote[c] = "open" /\ Stream(c)
  <2>1. pc[c] = "stream" /\ remote[c] = "open" /\ Stream(c)
    BY DEF RemoteSends, StreamInv
  <2>2. e.text \in Nat /\ e.terminal \in BOOLEAN
    BY Constants DEF Events
  <2>3. QED
    BY <2>1, <2>2, CallTypes
<1>2. /\ wire'[c] = Append(w, e) /\ pc' = pc /\ got' = got /\ reply' = reply
      /\ texts'[c] = (IF e.text = 0 THEN texts[c] ELSE e.text)
      /\ remote'[c] = (IF e.terminal THEN "ended" ELSE "open")
      /\ e.text # 0 => e.text = texts[c] + 1
      /\ e.text = 0 => e.terminal
  BY DEF RemoteSends, TypeOK
<1>3. /\ Len(wire'[c]) = n + 1 /\ wire'[c][n + 1] = e
      /\ \A i \in 1..n : wire'[c][i] = w[i]
      /\ wire'[c] # << >>
  BY <1>1, <1>2, AppendProperties
<1>4. \A i \in 1..n : w[i].text = got[c] + i /\ ~w[i].terminal /\ w[i].text # 0
  BY <1>1, CallTypes DEF Stream
<1>5. texts[c] = got[c] + n
  <2>1. n > 0 => n \in 1..n
    BY <1>1
  <2>2. n > 0 => w[n].text # 0
    BY <1>1, <1>4, <2>1
  <2>3. QED
    BY <1>1, <2>2 DEF Stream
<1>6. reply[c] # "text"
  BY <1>1 DEF TypeOK
<1>7. Stream(c)'
  <2>1. \A i \in 1..(n + 1) : i \in 1..n \/ i = n + 1
    BY <1>1
  <2>2. wire'[c] # << >> /\ pc'[c] = "stream" /\ got'[c] = got[c] /\ reply'[c] # "text"
    BY <1>1, <1>2, <1>3, <1>6
  <2>3. \A i \in 1..(n + 1) :
          /\ wire'[c][i].text # 0 => wire'[c][i].text = got[c] + i
          /\ wire'[c][i].text = 0 => wire'[c][i].terminal
          /\ wire'[c][i].terminal => i = n + 1 /\ remote'[c] = "ended"
    <3>1. SUFFICES ASSUME NEW i \in 1..(n + 1)
                   PROVE  /\ wire'[c][i].text # 0 => wire'[c][i].text = got[c] + i
                          /\ wire'[c][i].text = 0 => wire'[c][i].terminal
                          /\ wire'[c][i].terminal => i = n + 1 /\ remote'[c] = "ended"
      OBVIOUS
    <3>2. CASE i \in 1..n
      BY <1>3, <1>4, <3>2
    <3>3. CASE i = n + 1
      <4>1. wire'[c][i] = e /\ texts[c] + 1 = got[c] + i
        BY <1>1, <1>3, <1>5, <3>3
      <4>2. QED
        BY <1>2, <3>3, <4>1
    <3>4. QED
      BY <2>1, <3>2, <3>3
  <2>4. texts'[c] = got[c] + (IF wire'[c][n + 1].text = 0 THEN n ELSE n + 1)
    <3>1. CASE e.text = 0
      BY <1>2, <1>3, <1>5, <3>1
    <3>2. CASE e.text # 0
      <4>1. texts'[c] = got[c] + n + 1
        BY <1>2, <1>5, <3>2
      <4>2. QED
        BY <1>1, <1>3, <3>2, <4>1
    <3>3. QED
      BY <3>1, <3>2
  <2>5. QED
    BY <1>1, <1>3, <2>2, <2>3, <2>4 DEF Stream
<1>8. \A d \in Calls \ {c} : wire'[d] = wire[d] /\ texts'[d] = texts[d] /\ remote'[d] = remote[d]
  BY DEF RemoteSends, TypeOK
<1>9. QED
  <2>1. \A d \in Calls \ {c} : Stream(d)'
    BY <1>2, <1>8 DEF StreamInv, Stream
  <2>2. QED
    BY <1>7, <2>1 DEF StreamInv

\* Reading an event shifts the rest of the wire by one; a terminal event is its last.
LEMMA ReadsStream ==
  ASSUME TypeOK, StreamInv, NEW c \in Calls, ReadsEvent(c)
  PROVE  StreamInv'
<1> DEFINE w == wire[c]
           n == Len(w)
           e == Head(w)
           last == IF e.text = 0 THEN got[c] ELSE e.text
<1>1. /\ w \in Seq(Events) /\ w # << >> /\ n \in Nat \ {0} /\ got[c] \in Nat /\ texts[c] \in Nat
      /\ pc[c] = "stream" /\ Stream(c) /\ e = w[1] /\ e \in Events
  BY CallTypes DEF ReadsEvent, StreamInv
<1>2. /\ wire'[c] = Tail(w) /\ got'[c] = last /\ texts' = texts /\ remote' = remote
      /\ \A d \in Calls \ {c} : wire'[d] = wire[d] /\ got'[d] = got[d]
  BY DEF ReadsEvent, TypeOK
<1>3. /\ Len(wire'[c]) = n - 1
      /\ \A i \in 1..(n - 1) : wire'[c][i] = w[i + 1]
  BY <1>1, <1>2, HeadTailProperties
<1>4. \A i \in 1..n : /\ w[i].text # 0 => w[i].text = got[c] + i
                      /\ w[i].text = 0 => w[i].terminal
                      /\ w[i].terminal => i = n /\ remote[c] = "ended"
  BY <1>1 DEF Stream
<1>5. texts[c] = got[c] + (IF w[n].text = 0 THEN n - 1 ELSE n)
  BY <1>1 DEF Stream
<1>6. 1 \in 1..n /\ n \in 1..n /\ e.text \in Nat
  BY <1>1 DEF Events
<1> HIDE DEF n
<1>7. CASE e.terminal
  <2>1. n = 1 /\ remote[c] = "ended"
    BY <1>1, <1>4, <1>6, <1>7
  <2>2. last = texts[c]
    BY <1>1, <1>4, <1>5, <1>6, <2>1
  <2>3. /\ pc'[c] = "returned"
        /\ \A d \in Calls \ {c} : pc'[d] = pc[d] /\ reply'[d] = reply[d]
    BY <1>7 DEF ReadsEvent, Return, Goto, TypeOK
  <2>4. QED
    BY <1>2, <2>1, <2>2, <2>3 DEF StreamInv, Stream
<1>8. CASE ~e.terminal
  <2>1. pc' = pc /\ reply' = reply /\ reply[c] # "text"
    BY <1>1, <1>8 DEF ReadsEvent, TypeOK
  <2>2. e.text # 0 /\ last = got[c] + 1
    BY <1>1, <1>4, <1>6, <1>8
  <2>3. \A i \in 1..(n - 1) :
          /\ wire'[c][i].text # 0 => wire'[c][i].text = last + i
          /\ wire'[c][i].text = 0 => wire'[c][i].terminal
          /\ wire'[c][i].terminal => i = n - 1 /\ remote[c] = "ended"
    <3>1. SUFFICES ASSUME NEW i \in 1..(n - 1)
                   PROVE  /\ wire'[c][i].text # 0 => wire'[c][i].text = last + i
                          /\ wire'[c][i].text = 0 => wire'[c][i].terminal
                          /\ wire'[c][i].terminal => i = n - 1 /\ remote[c] = "ended"
      OBVIOUS
    <3>2. i + 1 \in 1..n /\ got[c] + (i + 1) = last + i /\ (i + 1 = n => i = n - 1)
      <4>1. n \in Nat /\ got[c] \in Nat /\ i \in Nat /\ 1 <= i /\ i <= n - 1
        BY <1>1
      <4>2. QED
        BY <2>2, <4>1
    <3>3. wire'[c][i] = w[i + 1]
      BY <1>3
    <3>4. QED
      BY <1>4, <3>2, <3>3
  <2>4. texts[c] = last + (IF n - 1 > 0 /\ wire'[c][n - 1].text = 0 THEN n - 2 ELSE n - 1)
    <3>1. CASE n = 1
      <4>1. w[n].text # 0 /\ n - 1 = 0
        BY <1>1, <2>2, <3>1
      <4>2. QED
        BY <1>1, <1>5, <2>2, <4>1
    <3>2. CASE n # 1
      <4>1. n - 1 \in 1..(n - 1) /\ n - 1 > 0
        BY <1>1, <3>2
      <4>2. wire'[c][n - 1] = w[n]
        BY <1>1, <1>3, <4>1
      <4>3. CASE w[n].text = 0
        BY <1>1, <1>5, <2>2, <4>1, <4>2, <4>3
      <4>4. CASE w[n].text # 0
        BY <1>1, <1>5, <2>2, <4>2, <4>4
      <4>5. QED
        BY <4>3, <4>4
    <3>3. QED
      BY <3>1, <3>2
  <2>5. (n - 1) - 1 = n - 2
    BY <1>1
  <2>6. Stream(c)'
    <3>1. /\ pc'[c] = "stream" /\ reply'[c] # "text" /\ Len(wire'[c]) = n - 1
          /\ got'[c] = last /\ texts'[c] = texts[c] /\ remote'[c] = remote[c]
      BY <1>1, <1>2, <1>3, <2>1
    <3>2. QED
      BY <2>3, <2>4, <2>5, <3>1 DEF Stream
  <2>7. \A d \in Calls \ {c} : Stream(d)'
    BY <1>2, <2>1 DEF StreamInv, Stream
  <2>8. QED
    BY <2>6, <2>7 DEF StreamInv
<1>9. QED
  BY <1>7, <1>8

\* A stream that stops, and one that is given up, say nothing new.
LEMMA StopsStream ==
  ASSUME TypeOK, StreamInv, NEW c \in Calls, RemoteStops(c) \/ ReadsEnd(c) \/ StreamFails(c)
  PROVE  StreamInv'
<1>1. pc[c] = "stream" /\ Stream(c) /\ reply[c] # "text" /\ got[c] \in Nat /\ texts[c] \in Nat
  BY CallTypes DEF RemoteStops, ReadsEnd, StreamFails, StreamInv
<1>2. CASE RemoteStops(c)
  <2>1. \A i \in 1..Len(wire[c]) : ~wire[c][i].terminal
    BY <1>1, <1>2 DEF RemoteStops, Stream
  <2>2. Stream(c)'
    BY <1>1, <1>2, <2>1 DEF RemoteStops, Stream
  <2>3. \A d \in Calls \ {c} : remote'[d] = remote[d]
    BY <1>2 DEF RemoteStops, TypeOK
  <2>4. QED
    BY <1>2, <2>2, <2>3 DEF RemoteStops, StreamInv, Stream
<1>3. CASE ReadsEnd(c)
  <2>1. got[c] = texts[c] /\ remote[c] = "ended"
    <3>1. wire[c] = << >> /\ Len(wire[c]) = 0 /\ remote[c] = "ended"
      BY <1>3 DEF ReadsEnd
    <3>2. QED
      BY <1>1, <3>1 DEF Stream
  <2>2. /\ pc'[c] = "returned" /\ UNCHANGED <<texts, wire, remote, got>>
        /\ \A d \in Calls \ {c} : pc'[d] = pc[d] /\ reply'[d] = reply[d]
    BY <1>3 DEF ReadsEnd, Return, Goto, TypeOK
  <2>3. QED
    BY <2>1, <2>2 DEF StreamInv, Stream
<1>4. CASE StreamFails(c)
  <2>1. /\ pc'[c] = "returned" /\ reply'[c] = "error" /\ UNCHANGED <<texts, remote, got>>
        /\ \A d \in Calls \ {c} : pc'[d] = pc[d] /\ reply'[d] = reply[d] /\ wire'[d] = wire[d]
    BY <1>4 DEF StreamFails, Return, Goto, TypeOK
  <2>2. QED
    BY <2>1 DEF StreamInv, Stream
<1>5. QED
  BY <1>2, <1>3, <1>4

\* A streamed call that returns a text returns all the agent has sent on a stream that
\* has ended, with a terminal status or, which the code does not tell apart, without one
\* (_call_streaming): the safety half of CallsReturnAllText.
THEOREM TextIsAll ==
  Spec => [](\A c \in Calls : reply[c] = "text" => got[c] = texts[c] /\ remote[c] = "ended")
<1>1. Init => StreamInv
  BY DEF Init, StreamInv, Stream
<1>2. TypeOK /\ StreamInv /\ [Next]_vars => StreamInv'
  <2>1. SUFFICES ASSUME TypeOK, StreamInv, [Next]_vars
                 PROVE  StreamInv'
    OBVIOUS
  <2>2. CASE Tick \/ UNCHANGED vars
    BY <2>1, <2>2 DEF Tick, vars, StreamInv, Stream
  <2>3. QED
    BY <2>1, <2>2, BeforeStream, SendsStream, ReadsStream, StopsStream DEF Next, Answer
<1>3. StreamInv => \A c \in Calls : reply[c] = "text" => got[c] = texts[c] /\ remote[c] = "ended"
  BY DEF StreamInv, Stream
<1>4. QED
  BY <1>1, <1>2, <1>3, TypeCorrect, PTL DEF Spec
=============================================================================
