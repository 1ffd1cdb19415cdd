--------------------------- MODULE ProxyRelayProofs ---------------------------
(***************************************************************************)
(* Proofs about ProxyRelay, for any number of calls and chunks: its type   *)
(* invariant, that the relay implements TextPipe, and that a call that has *)
(* ended has left nothing open, but for the exits outside its try.         *)
(***************************************************************************)
EXTENDS ProxyRelay, SequenceTheorems, TLAPS

-----------------------------------------------------------------------------
(* The inductive invariant *)

\* What the agent has got are the first chunks, in order.
ReceivedIsPrefix ==
  \A r \in Calls :
    /\ Len(produced[r]) <= MaxChunks /\ Len(received[r]) <= Len(produced[r])
    /\ \A i \in 1..Len(produced[r]) : produced[r][i] = i
    /\ \A i \in 1..Len(received[r]) : received[r][i] = i

\* As long as the agent is there, the chunk in the handler's hand and those in aiohttp's
\* buffer follow on what it has got, and that is all there is.
NothingIsLost ==
  \A r \in Calls :
    ~gone[r] =>
      /\ Len(received[r]) + Len(chunk[r]) + Len(buffer[r]) = Len(produced[r])
      /\ \A i \in 1..Len(chunk[r]) : chunk[r][i] = Len(received[r]) + i
      /\ \A i \in 1..Len(buffer[r]) : buffer[r][i] = Len(received[r]) + Len(chunk[r]) + i

\* The handler has a chunk in its hand exactly while it writes.
HandIsFull ==
  \A r \in Calls : /\ pc[r] = "write" => chunk[r] # << >>
                   /\ pc[r] \notin {"write", "over"} => chunk[r] = << >>

\* Nothing comes from the upstream of a call that has ended well.
EofIsClosed == \A r \in Calls : how[r] = "eof" => session[r] = "closed"

IInv == TypeOK /\ ReceivedIsPrefix /\ NothingIsLost /\ HandIsFull /\ EofIsClosed

-----------------------------------------------------------------------------
(* Typing *)

\* What an end leaves.
LEMMA OverTyped ==
  ASSUME TypeOK, NEW r \in Calls, pc[r] # "over",
         NEW h \in {"refused", "unreachable", "late", "unprepared", "eof", "cut"}, Over(r, h)
  PROVE  /\ pc' \in [Calls -> {"new", "body", "over"} \cup Relaying]
         /\ how' \in [Calls -> {"none", "refused", "unreachable", "late", "unprepared", "eof", "cut"}]
         /\ \A s \in Calls : pc'[s] = "over" <=> how'[s] # "none"
         /\ \A s \in Calls \ {r} : pc'[s] = pc[s] /\ how'[s] = how[s]
         /\ pc'[r] = "over" /\ how'[r] = h
  BY DEF TypeOK, Over, Relaying

\* An Over step, which is all of these, moves no chunk and leaves the invariant.
LEMMA OverKeeps ==
  ASSUME IInv, NEW r \in Calls, pc[r] # "over",
         NEW h \in {"refused", "unreachable", "late", "unprepared", "eof", "cut"}, Over(r, h),
         UNCHANGED session \/ Close(r), h = "eof" => Close(r),
         UNCHANGED <<upstream, produced, buffer, chunk, received, gone>>
  PROVE  IInv'
<1>1. /\ session' \in [Calls -> {"none", "open", "closed"}]
      /\ \A s \in Calls \ {r} : session'[s] = session[s]
      /\ h = "eof" => session'[r] = "closed"
  BY DEF IInv, TypeOK, Close
<1>2. /\ pc' \in [Calls -> {"new", "body", "over"} \cup Relaying]
      /\ how' \in [Calls -> {"none", "refused", "unreachable", "late", "unprepared", "eof", "cut"}]
      /\ \A s \in Calls : pc'[s] = "over" <=> how'[s] # "none"
      /\ \A s \in Calls \ {r} : pc'[s] = pc[s] /\ how'[s] = how[s]
      /\ pc'[r] = "over" /\ how'[r] = h
  BY OverTyped DEF IInv
<1>3. TypeOK'
  BY <1>1, <1>2 DEF IInv, TypeOK, Relaying
<1>4. HandIsFull' /\ EofIsClosed'
  BY <1>1, <1>2 DEF IInv, HandIsFull, EofIsClosed
<1>5. ReceivedIsPrefix' /\ NothingIsLost'
  BY DEF IInv, ReceivedIsPrefix, NothingIsLost
<1>6. QED
  BY <1>3, <1>4, <1>5 DEF IInv

\* A step of the handler that moves no chunk.
LEMMA GotoKeeps ==
  ASSUME IInv, NEW r \in Calls, pc[r] \notin {"over", "write"},
         NEW l \in {"body", "request", "prepare", "read"}, Goto(r, l),
         \/ l # "body" /\ session[r] = "open" /\ UNCHANGED <<session, upstream>>
         \/ l = "body" /\ UNCHANGED <<session, upstream>>
         \/ /\ session' = [session EXCEPT ![r] = "open"]
            /\ upstream' = [upstream EXCEPT ![r] = "asked"],
         UNCHANGED <<produced, buffer, chunk, received, gone, how>>
  PROVE  IInv'
<1>1. /\ pc' \in [Calls -> {"new", "body", "over"} \cup Relaying]
      /\ pc'[r] = l /\ \A s \in Calls \ {r} : pc'[s] = pc[s]
  BY DEF IInv, TypeOK, Goto, Relaying
<1>2. /\ session' \in [Calls -> {"none", "open", "closed"}]
      /\ upstream' \in [Calls -> {"idle", "asked", "streaming", "ended", "broken"}]
      /\ \A s \in Calls \ {r} : session'[s] = session[s]
      /\ l # "body" => session'[r] = "open"
  BY DEF IInv, TypeOK
<1>3. TypeOK'
  BY <1>1, <1>2 DEF IInv, TypeOK, Relaying
<1>4. HandIsFull'
  BY <1>1 DEF IInv, HandIsFull
<1>5. EofIsClosed'
  BY <1>2 DEF IInv, TypeOK, EofIsClosed
<1>6. ReceivedIsPrefix' /\ NothingIsLost'
  BY DEF IInv, ReceivedIsPrefix, NothingIsLost
<1>7. QED
  BY <1>3, <1>4, <1>5, <1>6 DEF IInv

-----------------------------------------------------------------------------
(* The steps that move chunks *)

\* iter_any hands over the buffer.
LEMMA ReadChunkKeeps ==
  ASSUME IInv, NEW r \in Calls, ReadChunk(r)
  PROVE  IInv'
<1>1. /\ pc' \in [Calls -> {"new", "body", "over"} \cup Relaying]
      /\ pc'[r] = "write" /\ \A s \in Calls \ {r} : pc'[s] = pc[s]
  BY DEF ReadChunk, Goto, IInv, TypeOK, Relaying
<1>2. << >> \in Chunks /\ Len(<< >>) = 0
  BY DEF Chunks
<1>3. /\ chunk' \in [Calls -> Chunks] /\ buffer' \in [Calls -> Chunks]
      /\ chunk'[r] = buffer[r] /\ buffer'[r] = << >> /\ chunk[r] = << >>
      /\ \A s \in Calls \ {r} : chunk'[s] = chunk[s] /\ buffer'[s] = buffer[s]
  BY <1>2 DEF ReadChunk, IInv, TypeOK, HandIsFull
<1>4. TypeOK'
  BY <1>1, <1>3 DEF ReadChunk, IInv, TypeOK, Relaying
<1>5. ReceivedIsPrefix' /\ EofIsClosed'
  BY DEF ReadChunk, IInv, ReceivedIsPrefix, EofIsClosed
<1>6. HandIsFull'
  BY <1>1, <1>3 DEF ReadChunk, IInv, HandIsFull
<1>7. NothingIsLost'
  <2> SUFFICES ASSUME NEW s \in Calls, ~gone[s]
               PROVE  /\ Len(received[s]) + Len(chunk'[s]) + Len(buffer'[s]) = Len(produced[s])
                      /\ \A i \in 1..Len(chunk'[s]) : chunk'[s][i] = Len(received[s]) + i
                      /\ \A i \in 1..Len(buffer'[s]) :
                           buffer'[s][i] = Len(received[s]) + Len(chunk'[s]) + i
    BY DEF ReadChunk, NothingIsLost
  <2>1. Len(received[s]) \in Nat /\ Len(buffer[s]) \in Nat
    BY DEF IInv, TypeOK, Chunks
  <2>2. CASE s = r
    <3>1. /\ Len(received[s]) + 0 + Len(buffer[s]) = Len(produced[s])
          /\ \A i \in 1..Len(buffer[s]) : buffer[s][i] = Len(received[s]) + 0 + i
      BY <1>2, <1>3, <2>2 DEF IInv, NothingIsLost
    <3>2. chunk'[s] = buffer[s] /\ Len(buffer'[s]) = 0
      BY <1>2, <1>3, <2>2
    <3> DEFINE a == Len(received[s])
               b == Len(buffer[s])
    <3> HIDE DEF a, b
    <3>3. /\ a \in Nat /\ b \in Nat /\ a + b + 0 = Len(produced[s])
          /\ \A i \in 1..b : buffer[s][i] = a + i
      <4>1. a \in Nat /\ b \in Nat /\ a + 0 + b = Len(produced[s])
        BY <2>1, <3>1 DEF a, b
      <4>2. \A i \in 1..b : buffer[s][i] = a + 0 + i
        BY <3>1 DEF a, b
      <4>3. QED
        BY <4>1, <4>2
    <3>4. /\ Len(received[s]) = a /\ Len(chunk'[s]) = b /\ Len(buffer'[s]) = 0
          /\ \A i \in 1..b : chunk'[s][i] = a + i
      BY <3>2, <3>3 DEF a, b
    <3>5. \A x : x \notin 1..0
      OBVIOUS
    <3>6. QED
      BY <3>3, <3>4, <3>5
  <2>3. CASE s # r
    BY <1>3, <2>3 DEF IInv, NothingIsLost
  <2>4. QED
    BY <2>2, <2>3
<1>8. QED
  BY <1>4, <1>5, <1>6, <1>7 DEF IInv

\* What a chunk makes of what the agent has got.
LEMMA WriteSends ==
  ASSUME IInv, NEW r \in Calls, pc[r] = "write", ~gone[r]
  PROVE  /\ received[r] \o chunk[r] \in Chunks
         /\ Len(received[r] \o chunk[r]) = Len(received[r]) + Len(chunk[r])
         /\ Len(received[r]) + Len(chunk[r]) <= Len(produced[r])
         /\ \A i \in 1..Len(received[r]) + Len(chunk[r]) : (received[r] \o chunk[r])[i] = i
         /\ Len(received[r]) \in Nat /\ Len(chunk[r]) \in Nat \ {0} /\ Len(buffer[r]) \in Nat
         /\ Len(produced[r]) \in Nat
<1>1. /\ received[r] \in Chunks /\ chunk[r] \in Chunks /\ buffer[r] \in Chunks
      /\ produced[r] \in Chunks /\ chunk[r] # << >>
  BY DEF IInv, TypeOK, HandIsFull
<1>2. /\ Len(received[r]) \in Nat /\ Len(chunk[r]) \in Nat \ {0} /\ Len(buffer[r]) \in Nat
      /\ Len(produced[r]) \in Nat
  BY <1>1, EmptySeq, LenProperties DEF Chunks
<1>3. /\ received[r] \o chunk[r] \in Chunks
      /\ Len(received[r] \o chunk[r]) = Len(received[r]) + Len(chunk[r])
      /\ \A i \in 1..Len(received[r]) + Len(chunk[r]) :
           (received[r] \o chunk[r])[i] =
              IF i <= Len(received[r]) THEN received[r][i] ELSE chunk[r][i - Len(received[r])]
  BY <1>1, ConcatProperties DEF Chunks
<1>4. /\ \A i \in 1..Len(received[r]) : received[r][i] = i
      /\ \A i \in 1..Len(chunk[r]) : chunk[r][i] = Len(received[r]) + i
      /\ Len(received[r]) + Len(chunk[r]) + Len(buffer[r]) = Len(produced[r])
  BY DEF IInv, ReceivedIsPrefix, NothingIsLost
<1> DEFINE a == Len(received[r])
           b == Len(chunk[r])
           c == Len(buffer[r])
           d == Len(produced[r])
           q == received[r] \o chunk[r]
<1> HIDE DEF a, b, c, d, q
<1>5. /\ a \in Nat /\ b \in Nat \ {0} /\ c \in Nat /\ d \in Nat /\ a + b + c = d
      /\ \A i \in 1..a + b : q[i] = IF i <= a THEN received[r][i] ELSE chunk[r][i - a]
      /\ \A i \in 1..a : received[r][i] = i
      /\ \A i \in 1..b : chunk[r][i] = a + i
  BY <1>2, <1>3, <1>4 DEF a, b, c, d, q
<1>6. a + b <= d
  BY <1>5
<1>7. ASSUME NEW i \in 1..a + b
      PROVE  q[i] = i
  <2>1. CASE i <= a
    BY <1>5, <2>1
  <2>2. CASE i > a
    <3>1. i - a \in 1..b
      BY <1>5, <2>2
    <3>2. chunk[r][i - a] = a + (i - a)
      BY <1>5, <3>1
    <3>3. QED
      BY <1>5, <2>2, <3>2
  <2>3. QED
    BY <1>5, <2>1, <2>2
<1>8. QED
  BY <1>2, <1>3, <1>6, <1>7 DEF a, b, c, d, q

\* response.write sends it.
LEMMA WriteKeeps ==
  ASSUME IInv, NEW r \in Calls, Write(r)
  PROVE  IInv'
<1>1. /\ pc' \in [Calls -> {"new", "body", "over"} \cup Relaying]
      /\ pc'[r] = "read" /\ \A s \in Calls \ {r} : pc'[s] = pc[s]
  BY DEF Write, Goto, IInv, TypeOK, Relaying
<1>2. << >> \in Chunks /\ Len(<< >>) = 0
  BY DEF Chunks
<1>3. /\ chunk' \in [Calls -> Chunks] /\ chunk'[r] = << >>
      /\ \A s \in Calls \ {r} : chunk'[s] = chunk[s]
  BY <1>2 DEF Write, IInv, TypeOK
<1>4. /\ received' \in [Calls -> Chunks]
      /\ gone[r] => received'[r] = received[r]
      /\ ~gone[r] => received'[r] = received[r] \o chunk[r]
      /\ \A s \in Calls \ {r} : received'[s] = received[s]
  BY WriteSends DEF Write, IInv, TypeOK
<1>5. TypeOK'
  BY <1>1, <1>3, <1>4 DEF Write, IInv, TypeOK, Relaying
<1>6. HandIsFull' /\ EofIsClosed'
  BY <1>1, <1>3 DEF Write, IInv, HandIsFull, EofIsClosed
<1>7. ReceivedIsPrefix'
  BY <1>4, WriteSends DEF Write, IInv, ReceivedIsPrefix
<1>8. NothingIsLost'
  <2> SUFFICES ASSUME NEW s \in Calls, ~gone[s]
               PROVE  /\ Len(received'[s]) + Len(chunk'[s]) + Len(buffer[s]) = Len(produced[s])
                      /\ \A i \in 1..Len(chunk'[s]) : chunk'[s][i] = Len(received'[s]) + i
                      /\ \A i \in 1..Len(buffer[s]) :
                           buffer[s][i] = Len(received'[s]) + Len(chunk'[s]) + i
    BY DEF Write, NothingIsLost
  <2>1. /\ Len(received[s]) + Len(chunk[s]) + Len(buffer[s]) = Len(produced[s])
        /\ \A i \in 1..Len(chunk[s]) : chunk[s][i] = Len(received[s]) + i
        /\ \A i \in 1..Len(buffer[s]) : buffer[s][i] = Len(received[s]) + Len(chunk[s]) + i
    BY DEF IInv, NothingIsLost
  <2>2. CASE s = r
    <3>1. /\ Len(received'[s]) = Len(received[s]) + Len(chunk[s]) /\ Len(chunk'[s]) = 0
          /\ Len(received'[s]) \in Nat /\ Len(buffer[s]) \in Nat
      BY <1>2, <1>3, <1>4, <2>2, WriteSends DEF Write
    <3> DEFINE a == Len(received[s])
               b == Len(chunk[s])
               c == Len(buffer[s])
               d == Len(produced[s])
    <3> HIDE DEF a, b, c, d
    <3>2. a + b + 0 + c = d /\ \A i \in 1..c : buffer[s][i] = a + b + 0 + i
      <4>1. /\ a \in Nat /\ b \in Nat /\ c \in Nat /\ a + b + c = d
            /\ \A i \in 1..c : buffer[s][i] = a + b + i
        BY <2>1, <2>2, <3>1, WriteSends DEF Write, a, b, c, d
      <4>2. QED
        BY <4>1
    <3>3. /\ Len(received'[s]) = a + b /\ Len(chunk'[s]) = 0
          /\ Len(buffer[s]) = c /\ Len(produced[s]) = d
      BY <3>1 DEF a, b, c, d
    <3>4. \A x : x \notin 1..0
      OBVIOUS
    <3>5. QED
      BY <3>2, <3>3, <3>4
  <2>3. CASE s # r
    BY <1>3, <1>4, <2>1, <2>3
  <2>4. QED
    BY <2>2, <2>3
<1>9. QED
  BY <1>5, <1>6, <1>7, <1>8 DEF IInv

\* The upstream sends the next chunk.
LEMMA SendKeeps ==
  ASSUME IInv, NEW r \in Calls, UpstreamSends(r)
  PROVE  IInv'
<1> DEFINE n == Len(produced[r])
<1>1. n \in Nat /\ n + 1 \in 1..MaxChunks
  BY RelayAssumption DEF UpstreamSends, IInv, TypeOK, Chunks
<1>2. ASSUME NEW q \in Chunks
      PROVE  /\ Append(q, n + 1) \in Chunks /\ Len(q) \in Nat
             /\ Len(Append(q, n + 1)) = Len(q) + 1
             /\ \A i \in 1..Len(q) : Append(q, n + 1)[i] = q[i]
             /\ Append(q, n + 1)[Len(q) + 1] = n + 1
  BY <1>1 DEF Chunks
<1>3. /\ produced' \in [Calls -> Chunks] /\ produced'[r] = Append(produced[r], n + 1)
      /\ buffer' \in [Calls -> Chunks] /\ buffer'[r] = Append(buffer[r], n + 1)
      /\ \A s \in Calls \ {r} : produced'[s] = produced[s] /\ buffer'[s] = buffer[s]
  BY <1>2 DEF UpstreamSends, IInv, TypeOK
<1>4. TypeOK'
  BY <1>3 DEF UpstreamSends, IInv, TypeOK
<1>5. HandIsFull' /\ EofIsClosed'
  BY DEF UpstreamSends, IInv, HandIsFull, EofIsClosed
<1>6. /\ produced[r] \in Chunks /\ buffer[r] \in Chunks
      /\ received[r] \in Chunks /\ chunk[r] \in Chunks
      /\ Len(received[r]) \in Nat /\ Len(chunk[r]) \in Nat
  BY <1>2 DEF IInv, TypeOK
<1>7. /\ Len(produced'[r]) = n + 1
      /\ \A i \in 1..n + 1 : produced'[r][i] = i
  <2>1. \A i \in 1..n : produced[r][i] = i
    BY DEF IInv, ReceivedIsPrefix
  <2>2. QED
    BY <1>1, <1>2, <1>3, <1>6, <2>1
<1>8. ReceivedIsPrefix'
  BY <1>1, <1>3, <1>6, <1>7 DEF UpstreamSends, IInv, ReceivedIsPrefix
<1>9. NothingIsLost'
  <2>1. ASSUME ~gone[r]
        PROVE  /\ Len(received[r]) + Len(chunk[r]) + Len(buffer'[r]) = Len(produced'[r])
               /\ \A i \in 1..Len(buffer'[r]) : buffer'[r][i] = Len(received[r]) + Len(chunk[r]) + i
    <3>1. /\ Len(received[r]) + Len(chunk[r]) + Len(buffer[r]) = n
          /\ \A i \in 1..Len(buffer[r]) : buffer[r][i] = Len(received[r]) + Len(chunk[r]) + i
      BY <2>1 DEF IInv, NothingIsLost
    <3>2. /\ Len(buffer'[r]) = Len(buffer[r]) + 1 /\ Len(buffer[r]) \in Nat
          /\ \A i \in 1..Len(buffer[r]) : buffer'[r][i] = buffer[r][i]
          /\ buffer'[r][Len(buffer[r]) + 1] = n + 1
      BY <1>2, <1>3, <1>6
    <3> DEFINE a == Len(received[r])
               b == Len(chunk[r])
               c == Len(buffer[r])
    <3> HIDE DEF a, b, c, n
    <3>3. /\ a \in Nat /\ b \in Nat /\ c \in Nat /\ n \in Nat /\ a + b + c = n
          /\ \A i \in 1..c : buffer'[r][i] = a + b + i
          /\ buffer'[r][c + 1] = n + 1
      BY <1>1, <1>6, <3>1, <3>2 DEF a, b, c
    <3>4. a + b + (c + 1) = n + 1 /\ \A i \in 1..c + 1 : buffer'[r][i] = a + b + i
      <4>1. \A i \in 1..c + 1 : i \in 1..c \/ i = c + 1
        BY <3>3
      <4>2. QED
        BY <3>3, <4>1
    <3>5. QED
      BY <1>7, <3>2, <3>4 DEF a, b, c
  <2>2. QED
    BY <1>3, <2>1 DEF UpstreamSends, IInv, NothingIsLost
<1>10. QED
  BY <1>4, <1>5, <1>8, <1>9 DEF IInv

-----------------------------------------------------------------------------
(* The theorems *)

\* Every step keeps the invariant.
LEMMA Step ==
  ASSUME IInv, [Next]_vars
  PROVE  IInv'
<1>1. ASSUME NEW r \in Calls, Refuse(r) \/ BodyLost(r) \/ PrepareFails(r)
      PROVE  IInv'
  <2>1. PICK h \in {"refused", "unprepared", "cut"} : Over(r, h)
    BY <1>1 DEF Refuse, BodyLost, PrepareFails
  <2>2. /\ pc[r] # "over" /\ UNCHANGED session
        /\ UNCHANGED <<upstream, produced, buffer, chunk, received, gone>>
    BY <1>1 DEF Refuse, BodyLost, PrepareFails
  <2>3. QED
    BY <2>1, <2>2, OverKeeps
<1>2. ASSUME NEW r \in Calls, Unreachable(r) \/ WriteFails(r) \/ UpstreamBroken(r) \/ Eof(r)
      PROVE  IInv'
  <2>1. PICK h \in {"unreachable", "cut", "eof"} : Over(r, h)
    BY <1>2 DEF Unreachable, WriteFails, UpstreamBroken, Eof
  <2>2. /\ pc[r] # "over" /\ Close(r)
        /\ UNCHANGED <<upstream, produced, buffer, chunk, received, gone>>
    BY <1>2 DEF Unreachable, WriteFails, UpstreamBroken, Eof
  <2>3. QED
    BY <2>1, <2>2, OverKeeps
<1>3. ASSUME NEW r \in Calls, Late(r)
      PROVE  IInv'
  <2>1. \/ Over(r, "late") /\ UNCHANGED session
        \/ Over(r, "cut") /\ Close(r)
    BY <1>3 DEF Late
  <2>2. /\ pc[r] # "over"
        /\ UNCHANGED <<upstream, produced, buffer, chunk, received, gone>>
    BY <1>3 DEF Late
  <2>3. QED
    BY <2>1, <2>2, OverKeeps
<1>4. ASSUME NEW r \in Calls, Accept(r)
      PROVE  IInv'
  BY <1>4, GotoKeeps DEF Accept
<1>5. ASSUME NEW r \in Calls, Ask(r)
      PROVE  IInv'
  BY <1>5, GotoKeeps DEF Ask
<1>6. ASSUME NEW r \in Calls, Answered(r) \/ Prepare(r)
      PROVE  IInv'
  <2>1. session[r] = "open"
    BY <1>6 DEF Answered, Prepare, IInv, TypeOK, Relaying
  <2>2. QED
    BY <1>6, <2>1, GotoKeeps DEF Answered, Prepare
<1>7. ASSUME NEW r \in Calls, UpstreamAnswers(r) \/ UpstreamStops(r)
      PROVE  IInv'
  <2>1. TypeOK'
    BY <1>7 DEF UpstreamAnswers, UpstreamStops, IInv, TypeOK
  <2>2. UNCHANGED <<pc, session, produced, buffer, chunk, received, gone, how>>
    BY <1>7 DEF UpstreamAnswers, UpstreamStops
  <2>3. ReceivedIsPrefix' /\ NothingIsLost'
    BY <2>2 DEF IInv, ReceivedIsPrefix, NothingIsLost
  <2>4. HandIsFull' /\ EofIsClosed'
    BY <2>2 DEF IInv, HandIsFull, EofIsClosed
  <2>5. QED
    BY <2>1, <2>3, <2>4 DEF IInv
<1>8. ASSUME NEW r \in Calls, AgentLeaves(r)
      PROVE  IInv'
  <2>1. TypeOK' /\ \A s \in Calls : ~gone'[s] => ~gone[s]
    BY <1>8 DEF AgentLeaves, IInv, TypeOK
  <2>2. QED
    BY <1>8, <2>1 DEF AgentLeaves, IInv, ReceivedIsPrefix, NothingIsLost, HandIsFull, EofIsClosed
<1>9. CASE UNCHANGED vars
  BY <1>9 DEF vars, IInv, TypeOK, ReceivedIsPrefix, NothingIsLost, HandIsFull, EofIsClosed
<1>10. QED
  BY <1>1, <1>2, <1>3, <1>4, <1>5, <1>6, <1>7, <1>8, <1>9, ReadChunkKeeps, WriteKeeps, SendKeeps
    DEF Next, Relay

\* The invariant holds throughout.
THEOREM Invariance == Spec => []IInv
<1>1. Init => IInv
  <2> SUFFICES ASSUME Init
               PROVE  IInv
    OBVIOUS
  <2>1. << >> \in Chunks /\ Len(<< >>) = 0
    BY DEF Chunks
  <2>2. TypeOK
    BY <2>1 DEF Init, TypeOK, Relaying
  <2>3. ReceivedIsPrefix /\ NothingIsLost
    BY <2>1, RelayAssumption DEF Init, ReceivedIsPrefix, NothingIsLost
  <2>4. QED
    BY <2>2, <2>3 DEF Init, IInv, HandIsFull, EofIsClosed
<1>2. QED
  BY <1>1, Step, PTL DEF Spec

\* Every variable keeps its type, a relay has a session open, and a call that is over
\* has ended in some way.
THEOREM TypeCorrect == Spec => []TypeOK
<1>1. IInv => TypeOK
  BY DEF IInv
<1>2. QED
  BY <1>1, Invariance, PTL

\* What an Over step is to the pipe: its stream closes if that was all, else it breaks.
LEMMA OverIsEnd ==
  ASSUME IInv, NEW r \in Calls, pc[r] # "over",
         NEW h \in {"refused", "unreachable", "late", "unprepared", "eof", "cut"}, Over(r, h),
         h = "eof" => received[r] = produced[r],
         UNCHANGED <<produced, received>>
  PROVE  Pipe!Close(r) \/ Pipe!Break(r)
<1> DEFINE st == [s \in Calls |-> Status(s)]
<1>1. /\ \A s \in Calls : pc'[s] = "over" <=> how'[s] # "none"
      /\ \A s \in Calls \ {r} : pc'[s] = pc[s] /\ how'[s] = how[s]
      /\ pc'[r] = "over" /\ how'[r] = h
  BY OverTyped DEF IInv
<1>2. Status(r) = "open"
  BY DEF Status, IInv, TypeOK
<1>3. CASE h = "eof"
  <2>1. st' = [st EXCEPT ![r] = "closed"]
    BY <1>1, <1>3 DEF Status
  <2>2. received' = [received EXCEPT ![r] = produced[r]]
    BY <1>3 DEF IInv, TypeOK
  <2>3. QED
    BY <1>2, <2>1, <2>2 DEF Pipe!Close
<1>4. CASE h # "eof"
  <2>1. st' = [st EXCEPT ![r] = "broken"]
    BY <1>1, <1>4 DEF Status
  <2>2. QED
    BY <1>2, <2>1 DEF Pipe!Break
<1>5. QED
  BY <1>3, <1>4

\* When the loop is through, the agent that is still there has got everything.
LEMMA EofIsAll ==
  ASSUME IInv, NEW r \in Calls, Eof(r), ~gone[r]
  PROVE  received[r] = produced[r]
<1> DEFINE a == Len(received[r])
           d == Len(produced[r])
<1>1. /\ received[r] \in Chunks /\ produced[r] \in Chunks /\ a \in Nat /\ d \in Nat
      /\ Len(chunk[r]) = 0 /\ Len(buffer[r]) = 0
  <2>1. chunk[r] = << >> /\ buffer[r] = << >>
    BY DEF Eof, IInv, HandIsFull
  <2>2. received[r] \in Chunks /\ produced[r] \in Chunks
    BY DEF IInv, TypeOK
  <2>3. QED
    BY <2>1, <2>2 DEF Chunks
<1>2. a + Len(chunk[r]) + Len(buffer[r]) = d
  BY DEF IInv, NothingIsLost
<1>3. a = d
  <2> HIDE DEF a, d
  <2>1. QED
    BY <1>1, <1>2
<1>4. \A i \in 1..a : received[r][i] = produced[r][i]
  BY <1>3 DEF IInv, ReceivedIsPrefix
<1>5. QED
  BY <1>1, <1>3, <1>4, SeqEqual DEF Chunks

\* A write is what the pipe's client receives, or nothing when the agent has left.
LEMMA WriteIsReceive ==
  ASSUME IInv, NEW r \in Calls, Write(r)
  PROVE  Pipe!Receive(r) \/ UNCHANGED Pipe!vars
<1> DEFINE st == [s \in Calls |-> Status(s)]
<1>1. st' = st /\ Status(r) = "open"
  BY DEF Write, Goto, Status, IInv, TypeOK
<1>2. CASE gone[r]
  BY <1>1, <1>2 DEF Write, Pipe!vars
<1>3. CASE ~gone[r]
  <2> DEFINE n == Len(chunk[r])
             a == Len(received[r])
             d == Len(produced[r])
             q == received[r] \o chunk[r]
  <2>1. /\ q \in Chunks /\ Len(q) = a + n /\ a + n <= d /\ \A i \in 1..a + n : q[i] = i
        /\ a \in Nat /\ n \in Nat \ {0} /\ d \in Nat
    BY <1>3, WriteSends DEF Write
  <2>2. /\ d <= MaxChunks /\ produced[r] \in Chunks
        /\ \A i \in 1..d : produced[r][i] = i
    BY DEF IInv, TypeOK, ReceivedIsPrefix
  <2>3. n \in 1..MaxChunks
    <3> HIDE DEF n, a, d
    <3>1. QED
      BY <2>1, <2>2, RelayAssumption
  <2>4. q = SubSeq(produced[r], 1, a + n)
    <3> DEFINE p == SubSeq(produced[r], 1, a + n)
    <3> HIDE DEF n, a, d, q
    <3>1. \A i \in 1..a + n : i \in 1..d /\ produced[r][i] = i /\ i \in 1..MaxChunks
      BY <2>1, <2>2, RelayAssumption
    <3>2. /\ p \in Chunks /\ Len(p) = a + n /\ \A i \in 1..a + n : p[i] = produced[r][i]
      <4>1. /\ p \in Chunks
            /\ Len(p) = IF 1 <= a + n THEN a + n - 1 + 1 ELSE 0
            /\ \A i \in 1..a + n - 1 + 1 : p[i] = produced[r][1 + i - 1]
        BY <2>1, <3>1, SubSeqProperties DEF Chunks
      <4>2. QED
        BY <2>1, <4>1
    <3>3. \A i \in 1..Len(q) : q[i] = p[i]
      BY <2>1, <3>1, <3>2
    <3>4. QED
      BY <2>1, <3>2, <3>3, SeqEqual DEF Chunks
  <2>5. received' = [received EXCEPT ![r] = SubSeq(produced[r], 1, Len(@) + n)]
    BY <1>3, <2>4 DEF Write
  <2>6. produced' = produced
    BY DEF Write
  <2>7. QED
    BY <1>1, <2>1, <2>3, <2>5, <2>6 DEF Pipe!Receive
<1>4. QED
  BY <1>2, <1>3

\* The upstream produces.
LEMMA SendIsProduce ==
  ASSUME IInv, NEW r \in Calls, UpstreamSends(r)
  PROVE  Pipe!Produce(r)
<1> DEFINE st == [s \in Calls |-> Status(s)]
<1>1. st' = st /\ Status(r) # "closed"
  BY DEF UpstreamSends, Status, IInv, EofIsClosed
<1>2. Len(produced[r]) + 1 \in 1..MaxChunks
  BY RelayAssumption DEF UpstreamSends, IInv, TypeOK, Chunks
<1>3. QED
  BY <1>1, <1>2 DEF UpstreamSends, Pipe!Produce

\* Every step is a step of the pipe or leaves it alone.
LEMMA StepIsPipeStep ==
  ASSUME IInv, [Next]_vars
  PROVE  [Pipe!Next]_(Pipe!vars)
<1> DEFINE st == [s \in Calls |-> Status(s)]
<1>1. ASSUME NEW r \in Calls, Refuse(r) \/ BodyLost(r) \/ PrepareFails(r) \/ Unreachable(r)
                             \/ Late(r) \/ WriteFails(r) \/ UpstreamBroken(r) \/ Eof(r)
      PROVE  Pipe!Close(r) \/ Pipe!Break(r)
  <2>1. PICK h \in {"refused", "unreachable", "late", "unprepared", "eof", "cut"} : Over(r, h)
    BY <1>1 DEF Refuse, BodyLost, PrepareFails, Unreachable, Late, WriteFails, UpstreamBroken, Eof
  <2>2. pc[r] # "over" /\ UNCHANGED <<produced, received>>
    BY <1>1 DEF Refuse, BodyLost, PrepareFails, Unreachable, Late, WriteFails, UpstreamBroken, Eof
  <2>3. how'[r] = h
    BY <2>1 DEF Over, IInv, TypeOK
  <2>4. h = "eof" => Eof(r) /\ ~gone[r]
    BY <1>1, <2>3 DEF Refuse, BodyLost, PrepareFails, Unreachable, Late, WriteFails,
      UpstreamBroken, Eof, Over, IInv, TypeOK
  <2>5. QED
    BY <2>1, <2>2, <2>4, OverIsEnd, EofIsAll
<1>2. ASSUME NEW r \in Calls, Accept(r) \/ Ask(r) \/ Answered(r) \/ Prepare(r) \/ ReadChunk(r)
      PROVE  UNCHANGED Pipe!vars
  <2>1. st' = st
    BY <1>2 DEF Accept, Ask, Answered, Prepare, ReadChunk, Goto, Status, IInv, TypeOK
  <2>2. QED
    BY <1>2, <2>1 DEF Accept, Ask, Answered, Prepare, ReadChunk, Pipe!vars
<1>3. ASSUME NEW r \in Calls, UpstreamAnswers(r) \/ UpstreamStops(r) \/ AgentLeaves(r)
      PROVE  UNCHANGED Pipe!vars
  <2>1. st' = st
    BY <1>3 DEF UpstreamAnswers, UpstreamStops, AgentLeaves, Status
  <2>2. QED
    BY <1>3, <2>1 DEF UpstreamAnswers, UpstreamStops, AgentLeaves, Pipe!vars
<1>4. CASE UNCHANGED vars
  BY <1>4 DEF vars, Pipe!vars, Status
<1>5. QED
  BY <1>1, <1>2, <1>3, <1>4, WriteIsReceive, SendIsProduce DEF Next, Relay, Pipe!Next

\* The relay implements the text pipe: its agent gets the upstream's chunks in order, and
\* all of them before its stream ends normally.
THEOREM Implements == Spec => RelayImplementsPipe
<1>1. Init => Pipe!Init
  BY DEF Init, Pipe!Init, Status
<1>2. IInv /\ [Next]_vars => [Pipe!Next]_(Pipe!vars)
  BY StepIsPipeStep
<1>3. QED
  BY <1>1, <1>2, Invariance, PTL DEF Spec, RelayImplementsPipe, Pipe!Spec

-----------------------------------------------------------------------------
(* What an ended call leaves *)

Freed(r) ==
  /\ pc[r] \in {"new", "body"} => session[r] = "none"
  /\ pc[r] = "over" => session[r] # "open" \/ how[r] \in {"late", "unprepared"}

\* A step of one call, and what it leaves of its own session.
LEMMA FreedStep ==
  ASSUME TypeOK, [Next]_vars, \A r \in Calls : Freed(r)
  PROVE  \A r \in Calls : Freed(r)'
<1>1. CASE UNCHANGED vars
  BY <1>1 DEF vars, Freed
<1>2. ASSUME NEW q \in Calls, Accept(q) \/ Refuse(q) \/ BodyLost(q) \/ Ask(q)
      PROVE  \A r \in Calls : Freed(r)'
  BY <1>2 DEF Accept, Refuse, BodyLost, Ask, Over, Goto, Freed, TypeOK
<1>3. ASSUME NEW q \in Calls, Answered(q) \/ Prepare(q) \/ ReadChunk(q) \/ Write(q)
      PROVE  \A r \in Calls : Freed(r)'
  BY <1>3 DEF Answered, Prepare, ReadChunk, Write, Goto, Freed, TypeOK
<1>4. ASSUME NEW q \in Calls, Unreachable(q) \/ WriteFails(q) \/ UpstreamBroken(q) \/ Eof(q)
      PROVE  \A r \in Calls : Freed(r)'
  BY <1>4 DEF Unreachable, WriteFails, UpstreamBroken, Eof, Over, Close, Freed, TypeOK
<1>5. ASSUME NEW q \in Calls, PrepareFails(q) \/ Late(q)
      PROVE  \A r \in Calls : Freed(r)'
  BY <1>5 DEF PrepareFails, Late, Over, Close, Freed, TypeOK
<1>6. ASSUME NEW q \in Calls, \/ UpstreamAnswers(q) \/ UpstreamSends(q) \/ UpstreamStops(q)
                             \/ AgentLeaves(q)
      PROVE  \A r \in Calls : Freed(r)'
  BY <1>6 DEF UpstreamAnswers, UpstreamSends, UpstreamStops, AgentLeaves, Freed
<1>7. QED
  BY <1>1, <1>2, <1>3, <1>4, <1>5, <1>6 DEF Next, Relay

\* A call that is over has no session open, unless the deadline or prepare raised where
\* handle_proxy has no try: the safety half of CallsEndAndFree.
THEOREM EndedIsFree ==
  Spec => [](\A r \in Calls :
               pc[r] = "over" => session[r] # "open" \/ how[r] \in {"late", "unprepared"})
<1>1. Init => \A r \in Calls : Freed(r)
  BY DEF Init, Freed
<1>2. TypeOK /\ (\A r \in Calls : Freed(r)) /\ [Next]_vars => (\A r \in Calls : Freed(r))'
  BY FreedStep
<1>3. (\A r \in Calls : Freed(r)) =>
        \A r \in Calls :
          pc[r] = "over" => session[r] # "open" \/ how[r] \in {"late", "unprepared"}
  BY DEF Freed
<1>4. QED
  BY <1>1, <1>2, <1>3, TypeCorrect, PTL DEF Spec
=============================================================================
