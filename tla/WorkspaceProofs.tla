--------------------------- MODULE WorkspaceProofs ---------------------------
(***************************************************************************)
(* Proofs about the workspace API.  First the symbols cache, for any       *)
(* files, slots, threads and bounds: its types, the bound on staleness and *)
(* that an invalidation sticks.  Then the active-user link, for any users, *)
(* repositories, requests and rebinds: its types, that a write stays where *)
(* it went, and that a commit leaves nothing behind that came before it.   *)
(***************************************************************************)
EXTENDS SymbolsCache, ActiveWorkspace, FiniteSetTheorems, TLAPS

-----------------------------------------------------------------------------
(* The inductive invariant *)

\* Files only get newer: the disk as of an earlier tick is no newer.
DiskGrows ==
  \A t, u \in Time, f \in Files :
    t <= u /\ u <= now => asOf[t][f] <= asOf[u][f] /\ asOf[u][f] <= disk[f]

\* A cached payload was read after its time stamp.
EntriesStamped ==
  \A s \in Slots : \A e \in cache[s] : e.ts <= now /\ AtLeast(e.payload, asOf[e.ts])

\* So was what a walk has read so far.
WalksStamped ==
  \A b \in Builders :
    /\ build[b].start <= now
    /\ build[b].at # "answered" => AtLeast(build[b].payload, asOf[build[b].start])

\* Neither the cache of a slot nor a build for it is older than its last
\* invalidation that met no build.
SettledHolds ==
  \A s \in Slots :
    /\ \A f \in Files : settled[s][f] <= disk[f]
    /\ \A e \in cache[s] : AtLeast(e.payload, settled[s])
    /\ \A b \in Builders :
         build[b].slot = s /\ build[b].at # "answered"
           => AtLeast(build[b].payload, settled[s])

IInv == /\ TypeOK
        /\ DiskGrows
        /\ EntriesStamped
        /\ WalksStamped
        /\ SettledHolds
        /\ BoundedStaleness

-----------------------------------------------------------------------------
(* Typing *)

\* A change keeps the contents well typed and makes no file older.
LEMMA ChangeGrows ==
  ASSUME TypeOK, NEW F \in SUBSET Files, Change(F)
  PROVE  /\ disk' \in Contents
         /\ \A f \in Files : disk[f] <= disk'[f]
  BY DEF TypeOK, Change, Contents

\* Replacing the record of one thread keeps the type of build.
LEMMA BuildStep ==
  ASSUME TypeOK, NEW b \in Builders, NEW r \in Build, r.slot \in Slots,
         build' = [build EXCEPT ![b] = r]
  PROVE  /\ build' \in [Builders -> Build]
         /\ \A c \in Builders : build'[c].at # "answered" => build'[c].slot \in Slots
  BY DEF TypeOK

\* Every step keeps the types.
LEMMA TypeStep ==
  ASSUME TypeOK, [Next]_vars
  PROVE  TypeOK'
<1>1. CASE UNCHANGED vars
  BY <1>1 DEF TypeOK, vars
<1>2. CASE Tick
  BY <1>2, CacheAssumption DEF Tick, TypeOK, Time, Contents
<1>3. ASSUME NEW b \in Builders, NEW s \in Slots, Call(b, s)
      PROVE  TypeOK'
  <2>1. owed' \in [Builders -> Contents]
    BY <1>3 DEF Call, TypeOK
  <2>2. build' \in [Builders -> Build]
    BY <1>3 DEF Call, TypeOK, Build, Unread, Payload
  <2>3. QED
    BY <1>3, <2>1, <2>2 DEF Call, TypeOK
<1>4. ASSUME NEW b \in Builders, Hit(b) \/ Miss(b) \/ Store(b)
      PROVE  TypeOK'
  <2>1. build[b] \in Build /\ (build[b].at # "answered" => build[b].slot \in Slots)
    BY DEF TypeOK
  <2>2. CASE Hit(b)
    <3>1. PICK e \in cache[build[b].slot] :
            build' = [build EXCEPT ![b].at = "answered", ![b].payload = e.payload]
      BY <2>2 DEF Hit
    <3>2. e \in Entry
      BY <2>1, <2>2, <3>1 DEF Hit, TypeOK
    <3> DEFINE r == [build[b] EXCEPT !.at = "answered", !.payload = e.payload]
    <3>3. r \in Build /\ r.at = "answered"
      BY <2>1, <3>2 DEF Build, Entry
    <3>4. build' = [build EXCEPT ![b] = r]
      BY <3>1
    <3> HIDE DEF r
    <3>5. QED
      BY <2>2, <3>3, <3>4 DEF Hit, TypeOK
  <2>3. CASE Miss(b)
    BY <2>3 DEF Miss, TypeOK, Build
  <2>4. CASE Store(b)
    <3>1. [ts |-> build[b].start, payload |-> build[b].payload] \in Entry
      BY <2>1 DEF Build, Entry
    <3>2. cache' \in [Slots -> SUBSET Entry]
      BY <2>4, <3>1 DEF Store, TypeOK
    <3>3. [build[b] EXCEPT !.at = "answered"] \in Build
      BY <2>1 DEF Build
    <3>4. QED
      BY <2>4, <3>2, <3>3 DEF Store, TypeOK
  <2>5. QED
    BY <1>4, <2>2, <2>3, <2>4
<1>5. ASSUME NEW b \in Builders, NEW f \in Files, ReadFile(b, f) \/ SkipFile(b, f)
      PROVE  TypeOK'
  <2>1. build[b] \in Build /\ build[b].at = "walk" /\ build[b].slot \in Slots
    BY <1>5 DEF TypeOK, ReadFile, SkipFile
  <2>2. CASE ReadFile(b, f)
    <3> DEFINE payload == [build[b].payload EXCEPT ![f] = disk[f]]
               r       == [build[b] EXCEPT !.payload = payload, !.read = build[b].read \cup {f}]
    <3>1. payload \in Payload
      BY <2>1 DEF TypeOK, Build, Payload, Contents
    <3>2. r \in Build /\ r.slot = build[b].slot
      BY <2>1, <3>1 DEF Build
    <3>3. build' = [build EXCEPT ![b] = r]
      BY <2>2 DEF ReadFile, TypeOK
    <3> HIDE DEF r
    <3>4. QED
      BY <2>1, <2>2, <3>2, <3>3, BuildStep DEF ReadFile, TypeOK
  <2>3. CASE SkipFile(b, f)
    <3> DEFINE r == [build[b] EXCEPT !.read = build[b].read \cup {f}]
    <3>1. r \in Build /\ r.slot = build[b].slot
      BY <2>1 DEF Build
    <3>2. build' = [build EXCEPT ![b] = r]
      BY <2>3 DEF SkipFile, TypeOK
    <3> HIDE DEF r
    <3>3. QED
      BY <2>1, <2>3, <3>1, <3>2, BuildStep DEF SkipFile, TypeOK
  <2>4. QED
    BY <1>5, <2>2, <2>3
<1>6. ASSUME NEW w \in Writers, NEW s \in Slots, NEW F \in SUBSET Files, WriteFile(w, s, F)
      PROVE  TypeOK'
  BY <1>6, ChangeGrows DEF WriteFile, TypeOK
<1>7. ASSUME NEW w \in Writers, Invalidate(w) \/ WriteFails(w)
      PROVE  TypeOK'
  BY <1>7 DEF Invalidate, WriteFails, Settle, TypeOK
<1>8. ASSUME NEW s \in Slots, Bust(s)
      PROVE  TypeOK'
  BY <1>8 DEF Bust, Settle, TypeOK
<1>9. ASSUME NEW F \in SUBSET Files, ChangeBehind(F)
      PROVE  TypeOK'
  BY <1>9, ChangeGrows DEF ChangeBehind, TypeOK
<1>10. QED
  BY <1>1, <1>2, <1>3, <1>4, <1>5, <1>6, <1>7, <1>8, <1>9 DEF Next

\* Every variable of the cache and its routes keeps its type.
THEOREM TypeCorrect == Spec => []TypeOK
<1>1. Init => TypeOK
  BY CacheAssumption DEF Init, TypeOK, Unread, Time, Contents, Payload, Build
<1>2. TypeOK /\ [Next]_vars => TypeOK'
  BY TypeStep
<1>3. QED
  BY <1>1, <1>2, PTL DEF Spec

-----------------------------------------------------------------------------
(* The bound on staleness and the effect of an invalidation *)

\* The horizon of a time lies no later than it, and no later than any entry
\* that is still young at that time.
LEMMA HorizonBounds ==
  ASSUME NEW t \in Time
  PROVE  /\ Horizon(t) \in Time
         /\ Horizon(t) <= t
         /\ \A ts \in Time : t < ts + TTL => Horizon(t) <= ts
  BY CacheAssumption DEF Horizon, Time

\* A tick keeps the invariant: the past stays as it was, and the present is
\* written down.
LEMMA TickKeeps ==
  ASSUME IInv, Tick
  PROVE  DiskGrows' /\ EntriesStamped' /\ WalksStamped' /\ SettledHolds' /\ BoundedStaleness'
<1>1. /\ now \in Time /\ now' = now + 1 /\ now + 1 \in Time
      /\ \A t \in Time : t <= now => asOf'[t] = asOf[t]
      /\ asOf'[now + 1] = disk
  BY CacheAssumption DEF IInv, TypeOK, Tick, Time
<1>2. DiskGrows'
  <2> SUFFICES ASSUME NEW t \in Time, NEW u \in Time, NEW f \in Files, t <= u, u <= now'
               PROVE  asOf'[t][f] <= asOf'[u][f] /\ asOf'[u][f] <= disk'[f]
    BY DEF DiskGrows, Time
  <2>1. disk[f] \in Nat /\ disk' = disk
    BY DEF IInv, TypeOK, Contents, Tick
  <2>2. CASE u <= now
    BY <1>1, <2>1, <2>2 DEF IInv, DiskGrows, Time
  <2>3. CASE u = now + 1 /\ t <= now
    BY <1>1, <2>1, <2>3 DEF IInv, DiskGrows, Time
  <2>4. CASE u = now + 1 /\ t = now + 1
    BY <1>1, <2>1, <2>4
  <2>5. QED
    BY <1>1, <2>2, <2>3, <2>4 DEF Time
<1>3. EntriesStamped'
  <2>1. \A s \in Slots : \A e \in cache[s] : e.ts \in Time /\ e.ts <= now
    BY DEF IInv, TypeOK, Entry, EntriesStamped
  <2>2. QED
    BY <1>1, <2>1 DEF IInv, EntriesStamped, Tick, Time, AtLeast
<1>4. \A b \in Builders : build[b].start \in Time /\ build[b].start <= now
  BY DEF IInv, TypeOK, Build, WalksStamped
<1>5. WalksStamped'
  BY <1>1, <1>4 DEF IInv, WalksStamped, Tick, Time, AtLeast
<1>6. SettledHolds'
  BY DEF IInv, SettledHolds, Tick, AtLeast
<1>7. BoundedStaleness'
  <2>1. \A b \in Builders : /\ Horizon(build[b].start) \in Time
                            /\ Horizon(build[b].start) <= now
    BY <1>1, <1>4, HorizonBounds DEF Time
  <2>2. build' = build
    BY DEF Tick
  <2>3. \A b \in Builders : asOf'[Horizon(build[b].start)] = asOf[Horizon(build[b].start)]
    BY <1>1, <2>1
  <2>4. QED
    BY <2>2, <2>3 DEF IInv, BoundedStaleness, AtLeast
<1>8. QED
  BY <1>2, <1>3, <1>5, <1>6, <1>7

\* A change of files keeps it: they only get newer.
LEMMA ChangeKeeps ==
  ASSUME IInv, NEW F \in SUBSET Files, Change(F),
         UNCHANGED <<now, cache, build, asOf, settled>>
  PROVE  DiskGrows' /\ EntriesStamped' /\ WalksStamped' /\ SettledHolds' /\ BoundedStaleness'
<1>1. disk' \in Contents /\ \A f \in Files : disk[f] <= disk'[f]
  BY ChangeGrows DEF IInv
<1>2. DiskGrows'
  <2> SUFFICES ASSUME NEW t \in Time, NEW u \in Time, NEW f \in Files, t <= u, u <= now
               PROVE  asOf[t][f] <= asOf[u][f] /\ asOf[u][f] <= disk'[f]
    BY DEF DiskGrows
  <2>1. asOf[t][f] <= asOf[u][f] /\ asOf[u][f] <= disk[f]
    BY DEF IInv, DiskGrows
  <2>2. asOf[u][f] \in Nat /\ disk[f] \in Nat /\ disk'[f] \in Nat /\ disk[f] <= disk'[f]
    BY <1>1 DEF IInv, TypeOK, Contents
  <2>3. QED
    BY <2>1, <2>2
<1>3. \A s \in Slots, f \in Files : settled[s][f] <= disk'[f]
  <2> SUFFICES ASSUME NEW s \in Slots, NEW f \in Files
               PROVE  settled[s][f] <= disk'[f]
    OBVIOUS
  <2>1. settled[s][f] \in Nat /\ disk[f] \in Nat /\ disk'[f] \in Nat /\ disk[f] <= disk'[f]
    BY <1>1 DEF IInv, TypeOK, Contents
  <2>2. settled[s][f] <= disk[f]
    BY DEF IInv, SettledHolds
  <2>3. QED
    BY <2>1, <2>2
<1>4. SettledHolds'
  BY <1>3 DEF IInv, SettledHolds, AtLeast
<1>5. EntriesStamped' /\ WalksStamped' /\ BoundedStaleness'
  BY DEF IInv, EntriesStamped, WalksStamped, BoundedStaleness, AtLeast
<1>6. QED
  BY <1>2, <1>4, <1>5

\* Emptying a slot keeps it; what the slot is settled at moves up only when no
\* build for it is under way.
LEMMA EmptyKeeps ==
  ASSUME IInv, NEW s \in Slots, cache' = [cache EXCEPT ![s] = {}], Settle(s),
         UNCHANGED <<now, disk, build, asOf>>
  PROVE  DiskGrows' /\ EntriesStamped' /\ WalksStamped' /\ SettledHolds' /\ BoundedStaleness'
<1>1. \A r \in Slots : cache'[r] = {} \/ cache'[r] = cache[r]
  BY DEF IInv, TypeOK
<1>2. DiskGrows' /\ WalksStamped' /\ BoundedStaleness'
  BY DEF IInv, DiskGrows, WalksStamped, BoundedStaleness, AtLeast
<1>3. EntriesStamped'
  BY <1>1 DEF IInv, EntriesStamped, AtLeast
<1>4. SettledHolds'
  <2> SUFFICES ASSUME NEW r \in Slots
               PROVE  /\ \A f \in Files : settled'[r][f] <= disk[f]
                      /\ \A e \in cache'[r] : AtLeast(e.payload, settled'[r])
                      /\ \A b \in Builders :
                           build[b].slot = r /\ build[b].at # "answered"
                             => AtLeast(build[b].payload, settled'[r])
    BY DEF SettledHolds, AtLeast
  <2>1. CASE r = s /\ Building(s) = {}
    <3>1. settled'[r] = disk /\ cache'[r] = {}
      BY <2>1 DEF IInv, TypeOK, Settle
    <3>2. \A f \in Files : disk[f] \in Nat
      BY DEF IInv, TypeOK, Contents
    <3>3. QED
      BY <2>1, <3>1, <3>2 DEF Building
  <2>2. CASE r # s \/ Building(s) # {}
    <3>1. settled'[r] = settled[r]
      BY <2>2 DEF IInv, TypeOK, Settle
    <3>2. QED
      BY <1>1, <3>1 DEF IInv, SettledHolds
  <2>3. QED
    BY <2>1, <2>2
<1>5. QED
  BY <1>2, <1>3, <1>4

\* A thread that starts, skips a file, reads one or goes on to the walk keeps
\* it: what it holds is as new as its start and as its slot is settled at.
LEMMA WalkKeeps ==
  ASSUME IInv, NEW b \in Builders, NEW r \in Build,
         build' = [build EXCEPT ![b] = r], r.at # "answered", r.start <= now,
         AtLeast(r.payload, asOf[r.start]),
         r.slot \in Slots /\ AtLeast(r.payload, settled[r.slot]),
         UNCHANGED <<now, disk, cache, asOf, settled>>
  PROVE  DiskGrows' /\ EntriesStamped' /\ WalksStamped' /\ SettledHolds' /\ BoundedStaleness'
<1>1. \A c \in Builders : build'[c] = IF c = b THEN r ELSE build[c]
  BY DEF IInv, TypeOK
<1>2. DiskGrows' /\ EntriesStamped'
  BY DEF IInv, DiskGrows, EntriesStamped, AtLeast
<1>3. WalksStamped'
  BY <1>1 DEF IInv, WalksStamped, AtLeast
<1>4. SettledHolds'
  BY <1>1 DEF IInv, SettledHolds, AtLeast
<1>5. BoundedStaleness'
  BY <1>1 DEF IInv, BoundedStaleness, AtLeast
<1>6. QED
  BY <1>2, <1>3, <1>4, <1>5

\* A thread that answers keeps it, when its answer is as new as the horizon of
\* its start.
LEMMA AnswerKeeps ==
  ASSUME IInv, NEW b \in Builders, NEW r \in Build,
         build' = [build EXCEPT ![b] = r], r.at = "answered", r.start <= now,
         AtLeast(r.payload, asOf[Horizon(r.start)]),
         UNCHANGED <<now, disk, asOf, settled>>
  PROVE  /\ DiskGrows' /\ WalksStamped' /\ BoundedStaleness'
         /\ \A s \in Slots, c \in Builders :
              build'[c].slot = s /\ build'[c].at # "answered"
                => AtLeast(build'[c].payload, settled[s])
<1>1. \A c \in Builders : build'[c] = IF c = b THEN r ELSE build[c]
  BY DEF IInv, TypeOK
<1>2. DiskGrows'
  BY DEF IInv, DiskGrows
<1>3. WalksStamped'
  BY <1>1 DEF IInv, WalksStamped, AtLeast
<1>4. BoundedStaleness'
  BY <1>1 DEF IInv, BoundedStaleness, AtLeast
<1>5. QED
  BY <1>1, <1>2, <1>3, <1>4 DEF IInv, SettledHolds

\* Call, Miss, ReadFile and SkipFile.
LEMMA WalkStepKeeps ==
  ASSUME IInv, NEW b \in Builders,
         \/ \E s \in Slots : Call(b, s)
         \/ Miss(b)
         \/ \E f \in Files : ReadFile(b, f) \/ SkipFile(b, f)
  PROVE  DiskGrows' /\ EntriesStamped' /\ WalksStamped' /\ SettledHolds' /\ BoundedStaleness'
<1> DEFINE old == build[b]
<1>1. old \in Build /\ (old.at # "answered" => old.slot \in Slots) /\ old.start <= now
  BY DEF IInv, TypeOK, WalksStamped
<1>2. old.at # "answered" => /\ AtLeast(old.payload, asOf[old.start])
                             /\ AtLeast(old.payload, settled[old.slot])
  BY <1>1 DEF IInv, WalksStamped, SettledHolds
<1>3. ASSUME NEW s \in Slots, Call(b, s)
      PROVE  DiskGrows' /\ EntriesStamped' /\ WalksStamped' /\ SettledHolds' /\ BoundedStaleness'
  <2> DEFINE r == [slot |-> s, at |-> "look", start |-> now, payload |-> Unread, read |-> {}]
  <2>1. r \in Build /\ r.start <= now
    BY DEF IInv, TypeOK, Build, Unread, Payload, Time
  <2>2. AtLeast(r.payload, asOf[r.start]) /\ AtLeast(r.payload, settled[r.slot])
    BY DEF AtLeast, Unread
  <2>3. QED
    BY <1>3, <2>1, <2>2, WalkKeeps DEF Call
<1>4. CASE Miss(b)
  <2> DEFINE r == [old EXCEPT !.at = "walk"]
  <2>1. /\ r \in Build /\ r.at # "answered" /\ r.slot = old.slot /\ r.start = old.start
        /\ r.payload = old.payload
    BY <1>1 DEF Build
  <2>2. build' = [build EXCEPT ![b] = r] /\ old.at # "answered"
    BY <1>4 DEF Miss, IInv, TypeOK
  <2> HIDE DEF r, old
  <2>3. QED
    BY <1>1, <1>2, <1>4, <2>1, <2>2, WalkKeeps DEF Miss
<1>5. ASSUME NEW f \in Files, ReadFile(b, f)
      PROVE  DiskGrows' /\ EntriesStamped' /\ WalksStamped' /\ SettledHolds' /\ BoundedStaleness'
  <2> DEFINE payload == [old.payload EXCEPT ![f] = disk[f]]
             r       == [old EXCEPT !.payload = payload, !.read = old.read \cup {f}]
  <2>1. old.at = "walk" /\ old.slot \in Slots /\ old.start \in Time
    BY <1>1, <1>5 DEF ReadFile, Build
  <2>2. /\ payload \in Payload
        /\ \A g \in Files : payload[g] = IF g = f THEN disk[f] ELSE old.payload[g]
    BY <1>1 DEF IInv, TypeOK, Build, Payload, Contents
  <2>3. /\ r \in Build /\ r.at # "answered" /\ r.slot = old.slot /\ r.start = old.start
        /\ r.payload = payload
    BY <1>1, <2>1, <2>2 DEF Build
  <2>4. build' = [build EXCEPT ![b] = r]
    BY <1>5 DEF ReadFile, IInv, TypeOK
  <2>5. asOf[old.start][f] <= disk[f] /\ settled[old.slot][f] <= disk[f]
    BY <1>1, <2>1 DEF IInv, TypeOK, DiskGrows, SettledHolds, Time
  <2>6. AtLeast(payload, asOf[old.start]) /\ AtLeast(payload, settled[old.slot])
    BY <1>2, <2>1, <2>2, <2>5 DEF AtLeast
  <2> HIDE DEF r, payload, old
  <2>7. QED
    BY <1>1, <1>5, <2>1, <2>3, <2>4, <2>6, WalkKeeps DEF ReadFile
<1>6. ASSUME NEW f \in Files, SkipFile(b, f)
      PROVE  DiskGrows' /\ EntriesStamped' /\ WalksStamped' /\ SettledHolds' /\ BoundedStaleness'
  <2> DEFINE r == [old EXCEPT !.read = old.read \cup {f}]
  <2>1. /\ r \in Build /\ r.at = old.at /\ r.slot = old.slot /\ r.start = old.start
        /\ r.payload = old.payload
    BY <1>1 DEF Build
  <2>2. build' = [build EXCEPT ![b] = r] /\ old.at # "answered"
    BY <1>6 DEF SkipFile, IInv, TypeOK
  <2> HIDE DEF r, old
  <2>3. QED
    BY <1>1, <1>2, <1>6, <2>1, <2>2, WalkKeeps DEF SkipFile
<1>7. QED
  BY <1>3, <1>4, <1>5, <1>6

\* Hit: an entry that is young at the start of the request is as new as its
\* horizon.
LEMMA HitKeeps ==
  ASSUME IInv, NEW b \in Builders, Hit(b)
  PROVE  DiskGrows' /\ EntriesStamped' /\ WalksStamped' /\ SettledHolds' /\ BoundedStaleness'
<1> DEFINE old == build[b]
<1>1. old \in Build /\ old.slot \in Slots /\ old.start <= now
  BY DEF IInv, TypeOK, WalksStamped, Hit
<1>2. PICK e \in cache[old.slot] :
        /\ old.start < e.ts + TTL
        /\ build' = [build EXCEPT ![b].at = "answered", ![b].payload = e.payload]
  BY DEF Hit
<1>3. e \in Entry /\ e.ts <= now /\ AtLeast(e.payload, asOf[e.ts])
  BY <1>1 DEF IInv, TypeOK, EntriesStamped
<1> DEFINE r == [old EXCEPT !.at = "answered", !.payload = e.payload]
<1>4. r \in Build /\ r.at = "answered" /\ r.start = old.start /\ r.payload = e.payload
  BY <1>1, <1>3 DEF Build, Entry
<1>5. build' = [build EXCEPT ![b] = r]
  BY <1>2
<1>6. AtLeast(e.payload, asOf[Horizon(old.start)])
  <2>1. e.ts \in Time /\ old.start \in Time /\ e.payload \in Payload
    BY <1>1, <1>3 DEF Entry, Build
  <2>2. Horizon(old.start) \in Time /\ Horizon(old.start) <= e.ts
    BY <1>2, <2>1, HorizonBounds
  <2> SUFFICES ASSUME NEW f \in Files, e.payload[f] # Missing
               PROVE  e.payload[f] >= asOf[Horizon(old.start)][f]
    BY DEF AtLeast
  <2>3. e.payload[f] \in Nat /\ e.payload[f] >= asOf[e.ts][f]
    BY <1>3, <2>1 DEF AtLeast, Payload
  <2>4. asOf[Horizon(old.start)][f] <= asOf[e.ts][f]
    BY <1>3, <2>1, <2>2 DEF IInv, DiskGrows
  <2>5. asOf[e.ts][f] \in Nat /\ asOf[Horizon(old.start)][f] \in Nat
    BY <2>1, <2>2 DEF IInv, TypeOK, Contents
  <2>6. QED
    BY <2>3, <2>4, <2>5
<1> HIDE DEF r, old
<1>7. /\ DiskGrows' /\ WalksStamped' /\ BoundedStaleness'
      /\ \A s \in Slots, c \in Builders :
           build'[c].slot = s /\ build'[c].at # "answered"
             => AtLeast(build'[c].payload, settled[s])
  BY <1>1, <1>4, <1>5, <1>6, AnswerKeeps DEF Hit
<1>8. EntriesStamped' /\ SettledHolds'
  BY <1>7 DEF IInv, EntriesStamped, SettledHolds, Hit, AtLeast
<1>9. QED
  BY <1>7, <1>8

\* Store: the new entry is as new as the start of the walk it came from.
LEMMA StoreKeeps ==
  ASSUME IInv, NEW b \in Builders, Store(b)
  PROVE  DiskGrows' /\ EntriesStamped' /\ WalksStamped' /\ SettledHolds' /\ BoundedStaleness'
<1> DEFINE old == build[b]
           new == [ts |-> old.start, payload |-> old.payload]
           r   == [old EXCEPT !.at = "answered"]
<1>1. old \in Build /\ old.at # "answered" /\ old.slot \in Slots /\ old.start <= now
  BY DEF IInv, TypeOK, WalksStamped, Store
<1>2. AtLeast(old.payload, asOf[old.start]) /\ AtLeast(old.payload, settled[old.slot])
  BY <1>1 DEF IInv, WalksStamped, SettledHolds
<1>3. /\ r \in Build /\ r.at = "answered" /\ r.start = old.start /\ r.payload = old.payload
      /\ old.start \in Time /\ old.payload \in Payload
  BY <1>1 DEF Build
<1>4. build' = [build EXCEPT ![b] = r]
  BY DEF Store
<1>5. AtLeast(old.payload, asOf[Horizon(old.start)])
  <2>1. Horizon(old.start) \in Time /\ Horizon(old.start) <= old.start
    BY <1>3, HorizonBounds
  <2> SUFFICES ASSUME NEW f \in Files, old.payload[f] # Missing
               PROVE  old.payload[f] >= asOf[Horizon(old.start)][f]
    BY DEF AtLeast
  <2>2. old.payload[f] \in Nat /\ old.payload[f] >= asOf[old.start][f]
    BY <1>2, <1>3 DEF AtLeast, Payload
  <2>3. asOf[Horizon(old.start)][f] <= asOf[old.start][f]
    BY <1>1, <1>3, <2>1 DEF IInv, DiskGrows
  <2>4. asOf[old.start][f] \in Nat /\ asOf[Horizon(old.start)][f] \in Nat
    BY <1>3, <2>1 DEF IInv, TypeOK, Contents
  <2>5. QED
    BY <2>2, <2>3, <2>4
<1>6. \A s \in Slots : cache'[s] = IF s = old.slot THEN {new} ELSE cache[s]
  BY <1>1 DEF IInv, TypeOK, Store
<1>7. new.ts = old.start /\ new.payload = old.payload
  OBVIOUS
<1> HIDE DEF r, old, new
<1>8. /\ DiskGrows' /\ WalksStamped' /\ BoundedStaleness'
      /\ \A s \in Slots, c \in Builders :
           build'[c].slot = s /\ build'[c].at # "answered"
             => AtLeast(build'[c].payload, settled[s])
  BY <1>1, <1>3, <1>4, <1>5, AnswerKeeps DEF Store
<1>9. EntriesStamped'
  BY <1>1, <1>2, <1>6, <1>7 DEF IInv, EntriesStamped, Store, AtLeast
<1>10. SettledHolds'
  <2>1. \A s \in Slots : \A e \in cache'[s] : AtLeast(e.payload, settled[s])
    BY <1>1, <1>2, <1>6, <1>7 DEF IInv, SettledHolds
  <2>2. QED
    BY <1>8, <2>1 DEF IInv, SettledHolds, Store, AtLeast
<1>11. QED
  BY <1>8, <1>9, <1>10

\* The invariant holds of every behaviour of the specification.
THEOREM Invariance == Spec => []IInv
<1>1. Init => IInv
  <2> SUFFICES ASSUME Init
               PROVE  IInv
    OBVIOUS
  <2>1. TypeOK
    BY CacheAssumption DEF Init, TypeOK, Unread, Time, Contents, Payload, Build
  <2>2. DiskGrows /\ EntriesStamped /\ WalksStamped
    BY CacheAssumption DEF Init, DiskGrows, EntriesStamped, WalksStamped, Time
  <2>3. SettledHolds /\ BoundedStaleness
    BY DEF Init, SettledHolds, BoundedStaleness
  <2>4. QED
    BY <2>1, <2>2, <2>3 DEF IInv
<1>2. IInv /\ [Next]_vars => IInv'
  <2> SUFFICES ASSUME IInv, [Next]_vars
               PROVE  /\ DiskGrows' /\ EntriesStamped' /\ WalksStamped'
                      /\ SettledHolds' /\ BoundedStaleness'
    BY TypeStep DEF IInv
  <2>1. CASE Tick
    BY <2>1, TickKeeps
  <2>2. CASE \E b \in Builders : \/ \E s \in Slots : Call(b, s)
                                \/ Miss(b)
                                \/ \E f \in Files : ReadFile(b, f) \/ SkipFile(b, f)
    BY <2>2, WalkStepKeeps
  <2>3. CASE \E b \in Builders : Hit(b)
    BY <2>3, HitKeeps
  <2>4. CASE \E b \in Builders : Store(b)
    BY <2>4, StoreKeeps
  <2>5. CASE \E w \in Writers, s \in Slots, F \in SUBSET Files : WriteFile(w, s, F)
    BY <2>5, ChangeKeeps DEF WriteFile
  <2>6. CASE \E F \in SUBSET Files : ChangeBehind(F)
    BY <2>6, ChangeKeeps DEF ChangeBehind
  <2>7. CASE \E w \in Writers : Invalidate(w)
    <3>1. PICK w \in Writers : Invalidate(w)
      BY <2>7
    <3>2. write[w] \in Slots
      BY <3>1 DEF IInv, TypeOK, Invalidate
    <3>3. QED
      BY <3>1, <3>2, EmptyKeeps DEF Invalidate
  <2>8. CASE \E s \in Slots : Bust(s)
    BY <2>8, EmptyKeeps DEF Bust
  <2>9. CASE (\E w \in Writers : WriteFails(w)) \/ UNCHANGED vars
    <3>1. UNCHANGED <<now, disk, cache, build, asOf, settled>>
      BY <2>9 DEF WriteFails, vars
    <3>2. QED
      BY <3>1 DEF IInv, DiskGrows, EntriesStamped, WalksStamped, SettledHolds,
                  BoundedStaleness, AtLeast
  <2>10. QED
    BY <2>1, <2>2, <2>3, <2>4, <2>5, <2>6, <2>7, <2>8, <2>9 DEF Next
<1>3. QED
  BY <1>1, <1>2, PTL DEF Spec

\* Every answer of get_or_build is at least as new as the disk one TTL before
\* its request.
THEOREM Staleness == Spec => []BoundedStaleness
<1>1. IInv => BoundedStaleness
  BY DEF IInv
<1>2. QED
  BY <1>1, Invariance, PTL

\* An answer after an invalidation that met no build is at least as new as the
\* disk was at the invalidation.
THEOREM Sticks == Spec => QuietInvalidateSticks
<1>1. IInv /\ [Next]_vars =>
        [\A b \in Builders :
           build[b].at # "answered" /\ build'[b].at = "answered"
             => AtLeast(build'[b].payload, settled[build[b].slot])]_vars
  <2> SUFFICES ASSUME IInv, Next, NEW b \in Builders,
                      build[b].at # "answered", build'[b].at = "answered"
               PROVE  AtLeast(build'[b].payload, settled[build[b].slot])
    OBVIOUS
  <2>1. /\ build[b].slot \in Slots /\ build[b] \in Build
        /\ AtLeast(build[b].payload, settled[build[b].slot])
        /\ \A e \in cache[build[b].slot] : AtLeast(e.payload, settled[build[b].slot])
    BY DEF IInv, TypeOK, SettledHolds
  <2>2. \E c \in Builders : Hit(c) \/ Store(c)
    BY DEF Next, Tick, Call, Miss, ReadFile, SkipFile, WriteFile, Invalidate, WriteFails, Bust,
           ChangeBehind, IInv, TypeOK, Build
  <2>3. PICK c \in Builders : Hit(c) \/ Store(c)
    BY <2>2
  <2>4. c = b
    BY <2>3 DEF Hit, Store, IInv, TypeOK
  <2>5. CASE Hit(b)
    <3>1. PICK e \in cache[build[b].slot] :
            build' = [build EXCEPT ![b].at = "answered", ![b].payload = e.payload]
      BY <2>5 DEF Hit
    <3>2. build'[b].payload = e.payload
      BY <2>1, <3>1 DEF IInv, TypeOK, Build
    <3>3. QED
      BY <2>1, <3>2
  <2>6. CASE Store(b)
    <3>1. build'[b].payload = build[b].payload
      BY <2>1, <2>6 DEF Store, IInv, TypeOK, Build
    <3>2. QED
      BY <2>1, <3>1
  <2>7. QED
    BY <2>3, <2>4, <2>5, <2>6
<1>2. QED
  BY <1>1, Invariance, PTL DEF Spec, QuietInvalidateSticks
-----------------------------------------------------------------------------
(* The active link: the inductive invariant *)

\* A request touches nothing before its body is read, or git is started.
NewIsBlank == \A r \in Requests : at[r] \in {"new", "body"} => touched[r] = {}

\* Where a request can be, by its kind.
StageByKind ==
  \A r \in Requests :
    /\ at[r] = "body" => req[r].kind # "git"
    /\ at[r] = "run" => req[r].kind \in {"git", "pr"}
    /\ at[r] \in {"add", "adding", "added", "commit"} => req[r].kind = "commit"

\* The index lock is held by an add, in the repo it was started in.
LockIsHeld ==
  /\ \A p \in Places : \A r \in lock[p] : at[r] = "adding" /\ cwd[r] = p
  /\ \A r \in Requests : at[r] = "adding" => cwd[r] \in Repos

\* A directory that is no repo has no index.
ReposStage == \A p \in Places \ Repos : staged[p] = {}

\* The path that was found leads where it led: always from the mount, and from
\* the root as long as no rebind has come.
PathHolds ==
  \A r \in Handled :
    /\ found[r] \in Places
    /\ path[r] = "mount" \/ r \notin mixed => Behind(path[r], r) = found[r]

BeforeIsAnswered ==
  \A r \in Requests : \A w \in before[r] : req[w].kind = "write" /\ at[w] = "ok"

\* A commit that met no rebind runs git where its repo was found.
LoneStays ==
  \A r \in Requests \ mixed :
    at[r] \in {"add", "adding", "added", "commit"} => cwd[r] = found[r]

\* What came before it is staged once its add has ended.
AddedIsStaged ==
  \A r \in Requests \ (mixed \cup unadded) :
    at[r] \in {"added", "commit"} => \A w \in before[r] : w \notin dirty[found[r]]

LinkIInv ==
  /\ LinkTypeOK
  /\ NewIsBlank
  /\ StageByKind
  /\ LockIsHeld
  /\ ReposStage
  /\ PathHolds
  /\ WriteIsKept
  /\ BeforeIsAnswered
  /\ LoneStays
  /\ AddedIsStaged

-----------------------------------------------------------------------------
(* The active link: typing *)

\* The three marks differ, and none is a user.
LEMMA LinkMarks ==
  /\ NoEntry \notin Users /\ Plain \notin Users /\ Bare \notin Users
  /\ NoEntry # Plain /\ NoEntry # Bare /\ Plain # Bare
<1>1. {Bare, NoEntry, Plain} \cap Users = {} /\ Cardinality({Bare, NoEntry, Plain}) = 3
  BY ActiveAssumption
<1>2. ASSUME NEW a, NEW b
      PROVE  Cardinality({a} \cup {b}) # 3
  <2>1. IsFiniteSet({a}) /\ Cardinality({a}) = 1
    BY FS_Singleton
  <2>2. Cardinality({a} \cup {b}) \in {1, 2}
    BY <2>1, FS_AddElement
  <2>3. QED
    BY <2>2
<1>3. NoEntry = Plain => {Bare, NoEntry, Plain} = {Bare} \cup {Plain}
  OBVIOUS
<1>4. NoEntry = Bare => {Bare, NoEntry, Plain} = {Bare} \cup {Plain}
  OBVIOUS
<1>5. Plain = Bare => {Bare, NoEntry, Plain} = {Bare} \cup {NoEntry}
  OBVIOUS
<1>6. QED
  BY <1>1, <1>2, <1>3, <1>4, <1>5

\* Repositories and plain directories are places.
LEMMA PlaceFacts ==
  /\ NoEntry \notin Places
  /\ Repos \subseteq Places
  /\ \A p \in Repos : p[1] # Plain
  /\ \A n \in Users \cup {Bare} : <<Plain, n>> \in Places
<1>1. Plain \notin Users
  BY LinkMarks
<1>2. QED
  BY <1>1, ActiveAssumption DEF Places

\* What exists behind a path is a place.
LEMMA ExistsFacts ==
  ASSUME NEW p, Exists(p)
  PROVE  p \in Places /\ p # NoEntry
  BY PlaceFacts DEF Exists

\* Where a path leads.
LEMMA BehindFacts ==
  ASSUME LinkTypeOK, NEW r \in Requests
  PROVE  /\ active = NoEntry => Behind("active", r) = NoEntry
         /\ active # NoEntry => Behind("active", r) \in Places
         /\ Behind("active", r) \in Places => Behind("active", r)[2] = req[r].name
         /\ <<Plain, req[r].name>> \in Places /\ <<Plain, req[r].name>>[2] = req[r].name
<1>1. req[r].name \in Users \cup {Bare} /\ active \in Users \cup {Plain, NoEntry}
  BY DEF LinkTypeOK
<1>2. QED
  BY <1>1, PlaceFacts DEF Behind, Places

\* The states of a request.
LEMMA Stages ==
  /\ {"body", "run", "add", "adding", "added", "commit"} \subseteq Open
  /\ {"new", "ok", "refused", "failed"} \subseteq Closed
  /\ Open \cap Closed = {}
  BY DEF Open, Closed

\* Moving a request on.
LEMMA LinkGoto ==
  ASSUME LinkTypeOK, NEW r \in Requests, NEW l \in Open \cup Closed, Goto(r, l)
  PROVE  /\ at' \in [Requests -> Open \cup Closed]
         /\ at'[r] = l
         /\ \A q \in Requests \ {r} : at'[q] = at[q]
  BY DEF Goto, LinkTypeOK

\* Touching a place.
LEMMA TouchFacts ==
  ASSUME LinkTypeOK, NEW r \in Requests, NEW p \in Places \cup {NoEntry}, Touch(r, p)
  PROVE  /\ touched' \in [Requests -> SUBSET (Places \cup {NoEntry})]
         /\ touched'[r] = touched[r] \cup {p}
         /\ \A q \in Requests \ {r} : touched'[q] = touched[q]
  BY DEF Touch, LinkTypeOK

\* What a lookup does.
LEMMA FindFacts ==
  ASSUME LinkTypeOK, NEW r \in Requests, NEW v \in {"active", "mount"}, Find(r, v)
  PROVE  /\ at[r] = "new" /\ at'[r] = (IF req[r].kind = "git" THEN "run" ELSE "body")
         /\ at' \in [Requests -> Open \cup Closed]
         /\ Behind(v, r) \in Places
         /\ path' \in [Requests -> {"active", "mount"}] /\ path'[r] = v
         /\ found' \in [Requests -> Places \cup {NoEntry}] /\ found'[r] = Behind(v, r)
         /\ before' \in [Requests -> SUBSET Requests]
         /\ before'[r] = {w \in Requests : at[w] = "ok" /\ req[w].kind = "write"}
         /\ mixed \subseteq mixed' /\ mixed' \subseteq Requests
         /\ \A q \in mixed' \ mixed : req[q].kind # "write"
         /\ cwd' \in [Requests -> Places \cup {NoEntry}]
         /\ req[r].kind = "git" => cwd'[r] = Behind(v, r)
         /\ req[r].kind # "git" => cwd' = cwd /\ touched' = touched
         /\ touched' \in [Requests -> SUBSET (Places \cup {NoEntry})]
         /\ \A q \in Requests \ {r} :
              /\ at'[q] = at[q] /\ path'[q] = path[q] /\ found'[q] = found[q]
              /\ before'[q] = before[q] /\ cwd'[q] = cwd[q] /\ touched'[q] = touched[q]
         /\ UNCHANGED <<active, binds, req, dirty, staged, commits, lock, unadded>>
<1>1. Behind(v, r) \in Places
  BY ExistsFacts DEF Find, Finds
<1>2. /\ at[r] = "new" /\ Goto(r, IF req[r].kind = "git" THEN "run" ELSE "body")
      /\ path' = [path EXCEPT ![r] = v]
      /\ found' = [found EXCEPT ![r] = Behind(v, r)]
      /\ before' = [before EXCEPT ![r] = {w \in Requests : at[w] = "ok" /\ req[w].kind = "write"}]
      /\ UNCHANGED <<active, binds, req, dirty, staged, commits, lock, unadded>>
  BY DEF Find, repo
<1>3. /\ at'[r] = (IF req[r].kind = "git" THEN "run" ELSE "body")
      /\ at' \in [Requests -> Open \cup Closed]
      /\ \A q \in Requests \ {r} : at'[q] = at[q]
  BY <1>2, LinkGoto, Stages
<1>4. /\ path' \in [Requests -> {"active", "mount"}] /\ path'[r] = v
      /\ found' \in [Requests -> Places \cup {NoEntry}] /\ found'[r] = Behind(v, r)
      /\ \A q \in Requests \ {r} : path'[q] = path[q] /\ found'[q] = found[q]
  BY <1>1, <1>2 DEF LinkTypeOK
<1>5. /\ before' \in [Requests -> SUBSET Requests]
      /\ before'[r] = {w \in Requests : at[w] = "ok" /\ req[w].kind = "write"}
      /\ \A q \in Requests \ {r} : before'[q] = before[q]
  <2>1. {w \in Requests : at[w] = "ok" /\ req[w].kind = "write"} \in SUBSET Requests
    OBVIOUS
  <2>2. QED
    BY <1>2, <2>1 DEF LinkTypeOK
<1>6. /\ mixed \subseteq mixed' /\ mixed' \subseteq Requests
      /\ \A q \in mixed' \ mixed : req[q].kind # "write"
  <2> DEFINE beside == {q \in Handled : {req[q].kind, req[r].kind} = {"commit", "git"}}
  <2>1. mixed' = IF beside = {} THEN mixed ELSE mixed \cup beside \cup {r}
    BY DEF Find
  <2>2. \A q \in beside : q \in Requests /\ req[q].kind # "write" /\ req[r].kind # "write"
    BY DEF Handled
  <2>3. mixed \subseteq Requests
    BY DEF LinkTypeOK
  <2> HIDE DEF beside
  <2>4. QED
    BY <2>1, <2>2, <2>3
<1>7. CASE req[r].kind = "git"
  <2>1. cwd' = [cwd EXCEPT ![r] = Behind(v, r)] /\ Touch(r, Behind(v, r))
    BY <1>7 DEF Find
  <2>2. /\ cwd' \in [Requests -> Places \cup {NoEntry}] /\ cwd'[r] = Behind(v, r)
        /\ \A q \in Requests \ {r} : cwd'[q] = cwd[q]
    BY <1>1, <2>1 DEF LinkTypeOK
  <2>3. /\ touched' \in [Requests -> SUBSET (Places \cup {NoEntry})]
        /\ \A q \in Requests \ {r} : touched'[q] = touched[q]
    BY <1>1, <2>1, TouchFacts
  <2>4. QED
    BY <1>1, <1>2, <1>3, <1>4, <1>5, <1>6, <1>7, <2>2, <2>3
<1>8. CASE req[r].kind # "git"
  <2>1. cwd' = cwd /\ touched' = touched
    BY <1>8 DEF Find
  <2>2. QED
    BY <1>1, <1>2, <1>3, <1>4, <1>5, <1>6, <1>8, <2>1 DEF LinkTypeOK
<1>9. QED
  BY <1>7, <1>8

\* What git is started in.
LEMMA StartFacts ==
  ASSUME LinkTypeOK, NEW r \in Requests, NEW l \in Open, Start(r, l)
  PROVE  /\ at' \in [Requests -> Open \cup Closed]
         /\ cwd' \in [Requests -> Places \cup {NoEntry}]
         /\ touched' \in [Requests -> SUBSET (Places \cup {NoEntry})]
         /\ \/ at'[r] = "failed" /\ cwd' = cwd /\ touched' = touched
            \/ at'[r] = l /\ cwd'[r] = Behind(path[r], r) /\ Behind(path[r], r) \in Places
         /\ \A q \in Requests \ {r} :
              at'[q] = at[q] /\ cwd'[q] = cwd[q] /\ touched'[q] = touched[q]
         /\ UNCHANGED <<active, binds, req, path, dirty, staged, commits, lock, found, before,
                        mixed, unadded>>
<1>1. UNCHANGED <<active, binds, req, path, dirty, staged, commits, lock, found, before, mixed,
                  unadded>>
  BY DEF Start, repo
<1>2. CASE Exists(Behind(path[r], r))
  <2>1. /\ Goto(r, l) /\ cwd' = [cwd EXCEPT ![r] = Behind(path[r], r)]
        /\ Touch(r, Behind(path[r], r))
    BY <1>2 DEF Start
  <2>2. Behind(path[r], r) \in Places
    BY <1>2, ExistsFacts
  <2>3. /\ cwd' \in [Requests -> Places \cup {NoEntry}] /\ cwd'[r] = Behind(path[r], r)
        /\ \A q \in Requests \ {r} : cwd'[q] = cwd[q]
    BY <2>1, <2>2 DEF LinkTypeOK
  <2>4. QED
    BY <1>1, <2>1, <2>2, <2>3, LinkGoto, TouchFacts
<1>3. CASE ~Exists(Behind(path[r], r))
  <2>1. Goto(r, "failed") /\ cwd' = cwd /\ touched' = touched
    BY <1>3 DEF Start
  <2>2. QED
    BY <1>1, <2>1, LinkGoto, Stages DEF LinkTypeOK
<1>4. QED
  BY <1>2, <1>3

\* What a write does.
LEMMA PostFacts ==
  ASSUME LinkTypeOK, NEW r \in Requests, PostFile(r),
         path[r] = "mount" => Behind(path[r], r) \in Places
  PROVE  \E p \in Places :
           /\ at[r] = "body" /\ at'[r] = "ok" /\ req[r].kind = "write"
           /\ at' \in [Requests -> Open \cup Closed]
           /\ p = Behind(path[r], r) \/ Behind(path[r], r) = NoEntry
           /\ path[r] = "active" => p[2] = req[r].name
           /\ active' \in Users \cup {Plain, NoEntry}
           /\ active # NoEntry => active' = active
           /\ dirty' \in [Places -> SUBSET Requests]
           /\ dirty'[p] = dirty[p] \cup {r}
           /\ \A q \in Places \ {p} : dirty'[q] = dirty[q]
           /\ touched' \in [Requests -> SUBSET (Places \cup {NoEntry})]
           /\ touched'[r] = touched[r] \cup {p}
           /\ \A q \in Requests \ {r} : at'[q] = at[q] /\ touched'[q] = touched[q]
           /\ UNCHANGED <<binds, req, path, cwd, staged, commits, lock, found, before, mixed, unadded>>
<1> DEFINE gone == Behind(path[r], r) = NoEntry
           p    == IF gone THEN <<Plain, req[r].name>> ELSE Behind(path[r], r)
<1>1. path[r] \in {"active", "mount"}
  BY DEF LinkTypeOK
<1>2. /\ p \in Places
      /\ path[r] = "active" => p[2] = req[r].name
      /\ gone => path[r] = "active" /\ active = NoEntry
  <2>1. CASE path[r] = "active"
    <3>1. /\ Behind("active", r) = NoEntry \/ Behind("active", r) \in Places
          /\ Behind("active", r) \in Places => Behind("active", r)[2] = req[r].name
          /\ <<Plain, req[r].name>> \in Places /\ <<Plain, req[r].name>>[2] = req[r].name
          /\ Behind("active", r) = NoEntry => active = NoEntry
      BY BehindFacts, PlaceFacts
    <3>2. QED
      BY <2>1, <3>1
  <2>2. CASE path[r] = "mount"
    BY <2>2, PlaceFacts
  <2>3. QED
    BY <1>1, <2>1, <2>2
<1>3. /\ at[r] = "body" /\ Goto(r, "ok") /\ req[r].kind = "write"
      /\ active' = (IF gone THEN Plain ELSE active)
      /\ dirty' = [dirty EXCEPT ![p] = @ \cup {r}]
      /\ Touch(r, p)
      /\ UNCHANGED <<binds, req, path, cwd, staged, commits, lock, found, before, mixed, unadded>>
  BY DEF PostFile
<1>4. active' \in Users \cup {Plain, NoEntry} /\ (active # NoEntry => active' = active)
  BY <1>2, <1>3 DEF LinkTypeOK
<1>5. p = Behind(path[r], r) \/ Behind(path[r], r) = NoEntry
  OBVIOUS
<1> HIDE DEF p
<1>6. /\ at' \in [Requests -> Open \cup Closed] /\ at'[r] = "ok"
      /\ \A q \in Requests \ {r} : at'[q] = at[q]
  BY <1>3, LinkGoto, Stages
<1>7. /\ touched' \in [Requests -> SUBSET (Places \cup {NoEntry})]
      /\ touched'[r] = touched[r] \cup {p}
      /\ \A q \in Requests \ {r} : touched'[q] = touched[q]
  BY <1>2, <1>3, TouchFacts
<1>8. /\ dirty' \in [Places -> SUBSET Requests]
      /\ dirty'[p] = dirty[p] \cup {r} /\ \A q \in Places \ {p} : dirty'[q] = dirty[q]
  BY <1>2, <1>3 DEF LinkTypeOK
<1>9. QED
  BY <1>2, <1>3, <1>4, <1>5, <1>6, <1>7, <1>8

\* What a rebind does.
LEMMA RebindFacts ==
  ASSUME LinkTypeOK, NEW to \in Users \cup {Plain, NoEntry}, Rebind(to)
  PROVE  /\ active' = to /\ binds' \in 0..MaxBinds
         /\ UNCHANGED <<req, at, path, cwd, staged, commits, lock, found, touched, before, unadded>>
         /\ mixed' = mixed \cup {r \in Handled : path[r] = "active"}
         /\ mixed' \subseteq Requests
<1>1. binds' \in 0..MaxBinds
  BY ActiveAssumption DEF Rebind, LinkTypeOK
<1>2. QED
  BY <1>1 DEF Rebind, Handled, LinkTypeOK

\* A rebind keeps the types; it empties plain directories at most.
LEMMA RebindTyped ==
  ASSUME LinkTypeOK, NEW to \in Users \cup {Plain, NoEntry}, Rebind(to),
         dirty' \in {dirty, [p \in Places |-> IF p[1] = Plain THEN {} ELSE dirty[p]]}
  PROVE  /\ LinkTypeOK'
         /\ \A p \in Places : /\ dirty'[p] \subseteq dirty[p]
                              /\ p[1] # Plain => dirty'[p] = dirty[p]
<1>1. /\ dirty' \in [Places -> SUBSET Requests]
      /\ \A p \in Places : /\ dirty'[p] \subseteq dirty[p]
                           /\ p[1] # Plain => dirty'[p] = dirty[p]
  BY DEF LinkTypeOK
<1>2. QED
  BY <1>1, RebindFacts DEF LinkTypeOK

\* What every step of a handler leaves alone.
LEMMA HandleFacts ==
  ASSUME LinkIInv, NEW r \in Requests, Handle(r)
  PROVE  /\ req' = req /\ mixed \subseteq mixed' /\ unadded \subseteq unadded'
         /\ at[r] \in Open \cup {"new"}
         /\ \A q \in Requests \ {r} :
              /\ at'[q] = at[q] /\ path'[q] = path[q] /\ cwd'[q] = cwd[q]
              /\ found'[q] = found[q] /\ touched'[q] = touched[q] /\ before'[q] = before[q]
         /\ at[r] # "new" => UNCHANGED <<path, found, before, mixed>>
         /\ \A q \in mixed' \ mixed : req[q].kind # "write"
<1>1. LinkTypeOK
  BY DEF LinkIInv
<1>2. CASE \E v \in {"active", "mount"} : Find(r, v)
  BY <1>1, <1>2, FindFacts
<1>3. CASE StartAdd(r) \/ StartCommit(r) \/ StartPr(r)
  <2>1. PICK l \in {"add", "commit", "run"} : at[r] \in {"body", "added"} /\ Start(r, l)
    BY <1>3 DEF StartAdd, StartCommit, StartPr
  <2>2. QED
    BY <1>1, <2>1, StartFacts, Stages
<1>4. CASE PostFile(r)
  <2>1. path[r] = "mount" => Behind(path[r], r) \in Places
    BY <1>4, Stages DEF PostFile, LinkIInv, PathHolds, Handled
  <2>2. QED
    BY <1>1, <1>4, <2>1, PostFacts, Stages
<1>5. CASE NotFound(r) \/ BadBody(r) \/ AddLocks(r) \/ AddEnds(r) \/ AddFails(r) \/ Commits(r)
           \/ CommitFails(r) \/ GitEnds(r)
  <2>1. /\ at[r] \in Open \cup {"new"} /\ unadded \subseteq unadded'
        /\ UNCHANGED <<req, path, cwd, found, touched, before, mixed>>
    BY <1>5, Stages DEF NotFound, BadBody, AddLocks, AddEnds, AddFails, Commits, CommitFails,
      GitEnds, ghost
  <2>2. \E l \in {"refused", "adding", "added", "ok", "failed"} : Goto(r, l)
    BY <1>5 DEF NotFound, BadBody, AddLocks, AddEnds, AddFails, Commits, CommitFails, GitEnds
  <2>3. QED
    BY <1>1, <2>1, <2>2, LinkGoto, Stages
<1>6. QED
  BY <1>2, <1>3, <1>4, <1>5 DEF Handle

\* Where a request is after a step, by where it was.
LEMMA StageStep ==
  ASSUME LinkIInv, NEW r \in Requests, Handle(r)
  PROVE  \/ at'[r] \in {"refused", "failed"}
         \/ at'[r] = "ok" /\ (PostFile(r) \/ Commits(r) \/ GitEnds(r))
         \/ /\ at[r] = "new" /\ at'[r] = (IF req[r].kind = "git" THEN "run" ELSE "body")
            /\ \E v \in {"active", "mount"} : Find(r, v)
         \/ at[r] = "body" /\ at'[r] = "add" /\ StartAdd(r)
         \/ at[r] = "body" /\ at'[r] = "run" /\ StartPr(r)
         \/ at[r] = "add" /\ at'[r] = "adding" /\ AddLocks(r)
         \/ at[r] \in {"add", "adding"} /\ at'[r] = "added" /\ AddFails(r)
         \/ at[r] = "adding" /\ at'[r] = "added" /\ AddEnds(r)
         \/ at[r] = "added" /\ at'[r] = "commit" /\ StartCommit(r)
<1>1. LinkTypeOK
  BY DEF LinkIInv
<1>2. CASE \E v \in {"active", "mount"} : Find(r, v)
  BY <1>1, <1>2, FindFacts
<1>3. CASE StartAdd(r)
  BY <1>1, <1>3, StartFacts, Stages DEF StartAdd
<1>4. CASE StartCommit(r)
  BY <1>1, <1>4, StartFacts, Stages DEF StartCommit
<1>5. CASE StartPr(r)
  BY <1>1, <1>5, StartFacts, Stages DEF StartPr
<1>6. CASE AddLocks(r) \/ AddEnds(r) \/ AddFails(r)
  BY <1>1, <1>6, LinkGoto, Stages DEF AddLocks, AddEnds, AddFails
<1>7. CASE NotFound(r) \/ BadBody(r) \/ CommitFails(r)
  BY <1>1, <1>7, LinkGoto, Stages DEF NotFound, BadBody, CommitFails
<1>8. CASE PostFile(r) \/ Commits(r)
  BY <1>1, <1>8, LinkGoto, Stages DEF PostFile, Commits
<1>9. CASE GitEnds(r)
  BY <1>1, <1>9, LinkGoto, Stages DEF GitEnds
<1>10. QED
  BY <1>2, <1>3, <1>4, <1>5, <1>6, <1>7, <1>8, <1>9 DEF Handle

\* What git does to the repo it was started in.
LEMMA GitFacts ==
  ASSUME LinkIInv, NEW r \in Requests, AddLocks(r) \/ AddEnds(r) \/ AddFails(r) \/ Commits(r)
  PROVE  /\ cwd[r] \in Places
         /\ {dirty', staged', lock'} \subseteq [Places -> SUBSET Requests]
         /\ commits' \in [Places -> SUBSET SUBSET Requests]
         /\ \A p \in Places : /\ dirty'[p] \subseteq dirty[p]
                              /\ \A w : Holds(p, w) => Holds(p, w)'
         /\ \A p \in Places \ {cwd[r]} : staged'[p] = staged[p] /\ lock'[p] = lock[p]
         /\ lock'[cwd[r]] \subseteq lock[cwd[r]] \cup (IF AddLocks(r) THEN {r} ELSE {})
         /\ AddEnds(r) \/ AddFails(r) => r \notin lock'[cwd[r]]
         /\ AddEnds(r) => dirty'[cwd[r]] = {}
         /\ AddEnds(r) \/ staged'[cwd[r]] \subseteq staged[cwd[r]]
         /\ Commits(r) => commits'[cwd[r]] = commits[cwd[r]] \cup {staged[cwd[r]]}
         /\ UNCHANGED <<active, binds, req, path, cwd, found, touched, before, mixed>>
<1>1. LinkTypeOK /\ cwd[r] \in Places
  BY DEF LinkIInv, LinkTypeOK, AddLocks, AddEnds, AddFails, Commits
<1>2. UNCHANGED <<active, binds, req, path, cwd, found, touched, before, mixed>>
  BY DEF AddLocks, AddEnds, AddFails, Commits, ghost
<1>3. CASE AddLocks(r)
  <2>1. UNCHANGED <<dirty, staged, commits>> /\ lock' = [lock EXCEPT ![cwd[r]] = {r}]
    BY <1>3 DEF AddLocks
  <2>2. ~AddEnds(r) /\ ~AddFails(r) /\ ~Commits(r)
    <3>1. at[r] = "add" /\ Goto(r, "adding")
      BY <1>3 DEF AddLocks
    <3>2. at'[r] = "adding"
      BY <1>1, <3>1, LinkGoto, Stages
    <3>3. AddFails(r) => at'[r] = "added"
      BY <1>1, LinkGoto, Stages DEF AddFails
    <3>4. QED
      BY <3>1, <3>2, <3>3 DEF AddEnds, Commits
  <2>3. /\ {dirty', staged', lock'} \subseteq [Places -> SUBSET Requests]
        /\ commits' \in [Places -> SUBSET SUBSET Requests]
        /\ \A p \in Places \ {cwd[r]} : lock'[p] = lock[p]
        /\ lock'[cwd[r]] = {r}
    BY <1>1, <2>1 DEF LinkTypeOK
  <2>4. QED
    BY <1>1, <1>2, <1>3, <2>1, <2>2, <2>3 DEF Holds
<1>4. CASE AddEnds(r)
  <2>1. /\ dirty' = [dirty EXCEPT ![cwd[r]] = {}] /\ commits' = commits
        /\ staged' = [staged EXCEPT ![cwd[r]] = @ \cup dirty[cwd[r]]]
        /\ lock' = [lock EXCEPT ![cwd[r]] = {}]
        /\ ~Commits(r)
    BY <1>4 DEF AddEnds, Commits
  <2>2. \A p \in Places : \A w : Holds(p, w) => Holds(p, w)'
    BY <1>1, <2>1 DEF LinkTypeOK, Holds
  <2>3. QED
    BY <1>1, <1>2, <1>4, <2>1, <2>2 DEF LinkTypeOK
<1>5. CASE AddFails(r)
  <2>1. /\ UNCHANGED <<dirty, staged, commits>> /\ ~Commits(r)
        /\ lock' = [lock EXCEPT ![cwd[r]] = @ \ {r}]
    BY <1>5 DEF AddFails, Commits
  <2>2. CASE AddEnds(r)
    BY <1>4, <2>2
  <2>3. CASE ~AddEnds(r)
    BY <1>1, <1>2, <1>5, <2>1, <2>3 DEF LinkTypeOK, Holds
  <2>4. QED
    BY <2>2, <2>3
<1>6. CASE Commits(r)
  <2>1. /\ commits' = [commits EXCEPT ![cwd[r]] = @ \cup {staged[cwd[r]]}] /\ dirty' = dirty
        /\ staged' = [staged EXCEPT ![cwd[r]] = {}] /\ lock' = lock
        /\ ~AddEnds(r) /\ ~AddFails(r)
    BY <1>6 DEF Commits, AddEnds, AddFails
  <2>2. commits'[cwd[r]] = commits[cwd[r]] \cup {staged[cwd[r]]}
    BY <1>1, <2>1 DEF LinkTypeOK
  <2>3. \A p \in Places : \A w : Holds(p, w) => Holds(p, w)'
    BY <1>1, <2>1 DEF LinkTypeOK, Holds
  <2>4. QED
    BY <1>1, <1>2, <1>6, <2>1, <2>2, <2>3 DEF LinkTypeOK
<1>7. QED
  BY <1>3, <1>4, <1>5, <1>6

\* Every step keeps the types.
LEMMA LinkTypeStep ==
  ASSUME LinkIInv, [LinkNext]_linkVars
  PROVE  LinkTypeOK'
<1>1. LinkTypeOK
  BY DEF LinkIInv
<1>2. CASE UNCHANGED linkVars
  BY <1>1, <1>2 DEF linkVars, repo, ghost, LinkTypeOK
<1>3. ASSUME NEW r \in Requests, Handle(r)
      PROVE  LinkTypeOK'
  <2>1. /\ req' = req
        /\ \A q \in Requests \ {r} : at'[q] = at[q] /\ cwd'[q] = cwd[q]
    BY <1>3, HandleFacts
  <2>2. at'[r] \in {"run", "add", "adding", "commit"} => cwd'[r] # NoEntry
    <3>1. CASE \E v \in {"active", "mount"} : Find(r, v)
      BY <1>1, <3>1, FindFacts, PlaceFacts
    <3>2. CASE StartAdd(r) \/ StartPr(r) \/ StartCommit(r)
      <4>1. PICK l \in {"add", "commit", "run"} : Start(r, l)
        BY <3>2 DEF StartAdd, StartCommit, StartPr
      <4>2. QED
        BY <1>1, <4>1, StartFacts, Stages, PlaceFacts
    <3>3. CASE AddLocks(r)
      BY <1>1, <3>3 DEF AddLocks, LinkTypeOK, ghost
    <3>4. QED
      BY <1>3, <3>1, <3>2, <3>3, StageStep
  <2> SUFFICES /\ active' \in Users \cup {Plain, NoEntry} /\ binds' = binds
               /\ at' \in [Requests -> Open \cup Closed]
               /\ path' \in [Requests -> {"active", "mount"}]
               /\ cwd' \in [Requests -> Places \cup {NoEntry}]
               /\ {dirty', staged', lock'} \subseteq [Places -> SUBSET Requests]
               /\ commits' \in [Places -> SUBSET SUBSET Requests]
               /\ found' \in [Requests -> Places \cup {NoEntry}]
               /\ touched' \in [Requests -> SUBSET (Places \cup {NoEntry})]
               /\ before' \in [Requests -> SUBSET Requests]
               /\ {mixed', unadded'} \subseteq SUBSET Requests
    BY <1>1, <2>1, <2>2 DEF LinkTypeOK
  <2>3. CASE \E v \in {"active", "mount"} : Find(r, v)
    BY <1>1, <2>3, FindFacts DEF LinkTypeOK
  <2>4. CASE StartAdd(r) \/ StartPr(r) \/ StartCommit(r)
    <3>1. PICK l \in {"add", "commit", "run"} : Start(r, l)
      BY <2>4 DEF StartAdd, StartCommit, StartPr
    <3>2. QED
      BY <1>1, <3>1, StartFacts, Stages DEF LinkTypeOK
  <2>5. CASE PostFile(r)
    <3>1. path[r] = "mount" => Behind(path[r], r) \in Places
      BY <2>5, Stages DEF PostFile, LinkIInv, PathHolds, Handled
    <3>2. QED
      BY <1>1, <2>5, <3>1, PostFacts DEF LinkTypeOK
  <2>6. CASE NotFound(r) \/ BadBody(r) \/ CommitFails(r) \/ GitEnds(r)
    <3>1. PICK l \in {"refused", "failed", "ok"} : Goto(r, l)
      BY <2>6 DEF NotFound, BadBody, CommitFails, GitEnds
    <3>2. UNCHANGED <<active, binds, path, cwd, repo, ghost>>
      BY <2>6 DEF NotFound, BadBody, CommitFails, GitEnds
    <3>3. at' \in [Requests -> Open \cup Closed]
      BY <1>1, <3>1, LinkGoto, Stages
    <3>4. QED
      BY <1>1, <3>2, <3>3 DEF LinkTypeOK, repo, ghost
  <2>7. CASE AddLocks(r) \/ AddEnds(r) \/ AddFails(r) \/ Commits(r)
    <3>1. PICK l \in {"adding", "added", "ok"} : Goto(r, l)
      BY <2>7 DEF AddLocks, AddEnds, AddFails, Commits
    <3>2. at' \in [Requests -> Open \cup Closed]
      BY <1>1, <3>1, LinkGoto, Stages
    <3>3. unadded' \subseteq Requests
      BY <1>1, <2>7 DEF AddLocks, AddEnds, AddFails, Commits, ghost, LinkTypeOK
    <3>4. QED
      BY <1>1, <2>7, <3>2, <3>3, GitFacts DEF LinkTypeOK
  <2>8. QED
    BY <1>3, <2>3, <2>4, <2>5, <2>6, <2>7 DEF Handle
<1>4. CASE \E u \in Users : Activate(u)
  BY <1>1, <1>4, RebindTyped DEF Activate
<1>5. CASE Deactivate
  BY <1>1, <1>5, RebindTyped DEF Deactivate, LinkTypeOK
<1>6. QED
  BY <1>2, <1>3, <1>4, <1>5 DEF LinkNext

-----------------------------------------------------------------------------
(* The active link: a rebind *)

\* A rebind moves no path but those through the root, and these are noted.
LEMMA RebindStep ==
  ASSUME LinkIInv, NEW to \in Users \cup {Plain, NoEntry}, Rebind(to),
         dirty' \in {dirty, [p \in Places |-> IF p[1] = Plain THEN {} ELSE dirty[p]]}
  PROVE  LinkIInv'
<1>1. LinkTypeOK
  BY DEF LinkIInv
<1>2. /\ UNCHANGED <<req, at, path, cwd, staged, commits, lock, found, touched, before, unadded>>
      /\ mixed' = mixed \cup {r \in Handled : path[r] = "active"}
  BY <1>1, RebindFacts
<1>3. /\ LinkTypeOK'
      /\ \A p \in Places : /\ dirty'[p] \subseteq dirty[p]
                           /\ p[1] # Plain => dirty'[p] = dirty[p]
  BY <1>1, RebindTyped
<1>4. NewIsBlank' /\ StageByKind' /\ LockIsHeld' /\ ReposStage' /\ BeforeIsAnswered'
  BY <1>2 DEF LinkIInv, NewIsBlank, StageByKind, LockIsHeld, ReposStage, BeforeIsAnswered
<1>5. PathHolds'
  <2>1. Handled' = Handled
    BY <1>2 DEF Handled
  <2>2. ASSUME NEW r \in Handled, path[r] = "mount" \/ r \notin mixed'
        PROVE  path[r] = "mount" /\ Behind(path[r], r)' = Behind(path[r], r)
    <3>1. path[r] = "mount"
      BY <1>1, <1>2, <2>2 DEF LinkTypeOK, Handled
    <3>2. QED
      BY <1>2, <3>1 DEF Behind
  <2>3. QED
    BY <1>2, <2>1, <2>2 DEF LinkIInv, PathHolds
<1>6. WriteIsKept'
  BY <1>2, <1>3 DEF LinkIInv, WriteIsKept, Holds
<1>7. LoneStays'
  BY <1>2 DEF LinkIInv, LoneStays
<1>8. AddedIsStaged'
  <2>1. ASSUME NEW r \in Requests \ (mixed \cup unadded), at[r] \in {"added", "commit"}
        PROVE  found[r] \in Places
    BY <2>1, Stages DEF LinkIInv, PathHolds, Handled
  <2>2. QED
    BY <1>2, <1>3, <2>1 DEF LinkIInv, AddedIsStaged
<1>9. QED
  BY <1>3, <1>4, <1>5, <1>6, <1>7, <1>8 DEF LinkIInv

-----------------------------------------------------------------------------
(* The active link: the steps of a handler *)

\* A request that is yet to read its body has touched nothing, and kinds and
\* stages stay in step.
LEMMA StageKeeps ==
  ASSUME LinkIInv, NEW r \in Requests, Handle(r)
  PROVE  NewIsBlank' /\ StageByKind'
<1>1. LinkTypeOK
  BY DEF LinkIInv
<1>2. /\ req' = req
      /\ \A q \in Requests \ {r} : at'[q] = at[q] /\ touched'[q] = touched[q]
  BY HandleFacts
<1>3. at'[r] \in {"new", "body"} => touched'[r] = {}
  <2>1. at'[r] \in {"new", "body"} =>
          req[r].kind # "git" /\ \E v \in {"active", "mount"} : Find(r, v)
    BY StageStep
  <2>2. QED
    BY <1>1, <2>1, FindFacts DEF LinkIInv, NewIsBlank
<1>4. /\ at'[r] = "body" => req[r].kind # "git"
      /\ at'[r] = "run" => req[r].kind \in {"git", "pr"}
      /\ at'[r] \in {"add", "adding", "added", "commit"} => req[r].kind = "commit"
  BY StageStep DEF LinkIInv, StageByKind, StartAdd, StartPr
<1>5. NewIsBlank'
  BY <1>2, <1>3 DEF LinkIInv, NewIsBlank
<1>6. StageByKind'
  BY <1>2, <1>4 DEF LinkIInv, StageByKind
<1>7. QED
  BY <1>5, <1>6

\* Only git and a write change a repo.
LEMMA RepoStep ==
  ASSUME LinkIInv, NEW r \in Requests, Handle(r)
  PROVE  \/ UNCHANGED repo
         \/ AddLocks(r) \/ AddEnds(r) \/ AddFails(r) \/ Commits(r)
         \/ PostFile(r) /\ UNCHANGED <<staged, commits, lock>>
  BY DEF Handle, Find, NotFound, BadBody, PostFile, StartAdd, StartPr, StartCommit, Start,
    CommitFails, GitEnds

\* Locks are held by adds, and nothing is staged but in a repo.
LEMMA LockStep ==
  ASSUME LinkIInv, NEW r \in Requests, Handle(r)
  PROVE  LockIsHeld' /\ ReposStage'
<1>1. LinkTypeOK
  BY DEF LinkIInv
<1>2. \A q \in Requests \ {r} : at'[q] = at[q] /\ cwd'[q] = cwd[q]
  BY HandleFacts
<1>3. at[r] = "adding" => cwd[r] \in Repos
  BY DEF LinkIInv, LockIsHeld
<1>4. CASE AddLocks(r) \/ AddEnds(r) \/ AddFails(r) \/ Commits(r)
  <2>1. /\ cwd[r] \in Places /\ cwd' = cwd
        /\ \A p \in Places \ {cwd[r]} : staged'[p] = staged[p] /\ lock'[p] = lock[p]
        /\ lock'[cwd[r]] \subseteq lock[cwd[r]] \cup (IF AddLocks(r) THEN {r} ELSE {})
        /\ AddEnds(r) \/ AddFails(r) => r \notin lock'[cwd[r]]
        /\ AddEnds(r) \/ staged'[cwd[r]] \subseteq staged[cwd[r]]
    BY <1>4, GitFacts
  <2>2. AddLocks(r) => cwd[r] \in Repos /\ at'[r] = "adding"
    BY <1>1, LinkGoto, Stages DEF AddLocks
  <2>3. ASSUME NEW p \in Places, NEW q \in lock'[p]
        PROVE  at'[q] = "adding" /\ cwd'[q] = p
    <3>1. CASE q = r /\ AddLocks(r) /\ p = cwd[r]
      BY <2>1, <2>2, <3>1
    <3>2. CASE ~(q = r /\ AddLocks(r) /\ p = cwd[r])
      <4>1. q \in lock[p] /\ q \in Requests
        BY <1>1, <2>1, <2>3, <3>2 DEF LinkTypeOK
      <4>2. at[q] = "adding" /\ cwd[q] = p
        BY <4>1 DEF LinkIInv, LockIsHeld
      <4>3. q # r
        <5>1. AddLocks(r) \/ Commits(r) => at[r] # "adding"
          BY DEF AddLocks, Commits
        <5>2. QED
          BY <1>4, <2>1, <2>3, <4>2, <5>1
      <4>4. QED
        BY <1>2, <4>1, <4>2, <4>3
    <3>3. QED
      BY <3>1, <3>2
  <2>4. \A q \in Requests : at'[q] = "adding" => cwd'[q] \in Repos
    <3>1. at'[r] = "adding" => AddLocks(r)
      BY StageStep
    <3>2. QED
      BY <1>2, <2>1, <2>2, <3>1 DEF LinkIInv, LockIsHeld
  <2>5. AddEnds(r) => cwd[r] \in Repos
    BY <1>3 DEF AddEnds
  <2>6. QED
    BY <2>1, <2>3, <2>4, <2>5 DEF LinkIInv, LockIsHeld, ReposStage
<1>5. CASE ~(AddLocks(r) \/ AddEnds(r) \/ AddFails(r) \/ Commits(r))
  <2>1. lock' = lock /\ staged' = staged
    BY <1>5, RepoStep DEF repo
  <2>2. at[r] # "adding" /\ at'[r] # "adding"
    <3>1. at'[r] # "adding"
      BY <1>5, StageStep
    <3>2. at[r] # "adding"
      BY <1>5 DEF Handle, Find, NotFound, BadBody, PostFile, StartAdd, StartPr, StartCommit,
        CommitFails, GitEnds
    <3>3. QED
      BY <3>1, <3>2
  <2>3. ASSUME NEW p \in Places, NEW q \in lock'[p]
        PROVE  at'[q] = "adding" /\ cwd'[q] = p
    <3>1. q \in Requests /\ at[q] = "adding" /\ cwd[q] = p
      BY <1>1, <2>1, <2>3 DEF LinkIInv, LockIsHeld, LinkTypeOK
    <3>2. QED
      BY <1>2, <2>2, <3>1
  <2>4. QED
    BY <1>2, <2>1, <2>2, <2>3 DEF LinkIInv, LockIsHeld, ReposStage
<1>6. QED
  BY <1>4, <1>5

\* Only a write of the root's plain directory moves what is active.
LEMMA ActiveStep ==
  ASSUME LinkIInv, NEW r \in Requests, Handle(r), active # NoEntry
  PROVE  active' = active
<1>1. LinkTypeOK
  BY DEF LinkIInv
<1>2. CASE PostFile(r)
  <2>1. path[r] = "mount" => Behind(path[r], r) \in Places
    BY <1>2, Stages DEF PostFile, LinkIInv, PathHolds, Handled
  <2>2. QED
    BY <1>1, <1>2, <2>1, PostFacts
<1>3. CASE ~PostFile(r)
  BY <1>3 DEF Handle, Find, NotFound, BadBody, StartAdd, StartPr, StartCommit, Start, AddLocks,
    AddEnds, AddFails, Commits, CommitFails, GitEnds
<1>4. QED
  BY <1>2, <1>3

\* No step of a handler moves a path that leads where it led.
LEMMA PathStep ==
  ASSUME LinkIInv, NEW r \in Requests, Handle(r)
  PROVE  PathHolds'
<1>1. LinkTypeOK
  BY DEF LinkIInv
<1>2. /\ req' = req /\ mixed \subseteq mixed'
      /\ \A q \in Requests \ {r} : at'[q] = at[q] /\ path'[q] = path[q] /\ found'[q] = found[q]
  BY HandleFacts
<1>3. SUFFICES ASSUME NEW q \in Requests, at'[q] \in Open
               PROVE  /\ found'[q] \in Places
                      /\ path'[q] = "mount" \/ q \notin mixed' => Behind(path[q], q)' = found'[q]
  BY DEF PathHolds, Handled
<1>4. CASE q \in Handled /\ path'[q] = path[q] /\ found'[q] = found[q]
  <2>1. /\ found[q] \in Places
        /\ path[q] = "mount" \/ q \notin mixed => Behind(path[q], q) = found[q]
    BY <1>4 DEF LinkIInv, PathHolds
  <2>2. CASE path[q] = "mount"
    BY <1>2, <1>4, <2>1, <2>2 DEF Behind
  <2>3. CASE path[q] # "mount" /\ q \notin mixed'
    <3>1. active # NoEntry
      BY <1>2, <2>1, <2>3, PlaceFacts DEF Behind
    <3>2. active' = active
      BY <3>1, ActiveStep
    <3>3. QED
      BY <1>2, <1>4, <2>1, <2>3, <3>2 DEF Behind
  <2>4. QED
    BY <1>4, <2>1, <2>2, <2>3
<1>5. CASE ~(q \in Handled /\ path'[q] = path[q] /\ found'[q] = found[q])
  <2>1. q = r /\ at[r] = "new"
    BY <1>2, <1>3, <1>5, HandleFacts DEF Handled
  <2>2. PICK v \in {"active", "mount"} : Find(r, v)
    BY <1>3, <2>1, StageStep, Stages
  <2>3. found'[r] = Behind(v, r) /\ path'[r] = v /\ Behind(v, r) \in Places /\ active' = active
    BY <1>1, <2>2, FindFacts
  <2>4. QED
    BY <1>2, <2>1, <2>3 DEF Behind
<1>6. QED
  BY <1>4, <1>5

\* Whatever is in a place stays in it, in one stage or another.
LEMMA HoldsStep ==
  ASSUME LinkIInv, NEW r \in Requests, Handle(r), NEW p \in Places, NEW w, Holds(p, w)
  PROVE  Holds(p, w)'
<1>1. LinkTypeOK
  BY DEF LinkIInv
<1>2. CASE UNCHANGED repo
  BY <1>2 DEF repo, Holds
<1>3. CASE AddLocks(r) \/ AddEnds(r) \/ AddFails(r) \/ Commits(r)
  BY <1>3, GitFacts
<1>4. CASE PostFile(r) /\ UNCHANGED <<staged, commits, lock>>
  <2>1. path[r] = "mount" => Behind(path[r], r) \in Places
    BY <1>4, Stages DEF PostFile, LinkIInv, PathHolds, Handled
  <2>2. dirty[p] \subseteq dirty'[p]
    BY <1>1, <1>4, <2>1, PostFacts
  <2>3. QED
    BY <1>4, <2>2 DEF Holds
<1>5. QED
  BY <1>2, <1>3, <1>4, RepoStep

\* A write is answered by its own step, and stays in its place.
LEMMA KeptStep ==
  ASSUME LinkIInv, NEW r \in Requests, Handle(r)
  PROVE  WriteIsKept'
<1>1. LinkTypeOK
  BY DEF LinkIInv
<1>2. /\ req' = req /\ mixed \subseteq mixed'
      /\ \A q \in Requests \ {r} : at'[q] = at[q] /\ touched'[q] = touched[q] /\ found'[q] = found[q]
      /\ at[r] \in Open \cup {"new"}
  BY HandleFacts
<1>3. SUFFICES ASSUME NEW w \in Requests, req[w].kind = "write", at'[w] = "ok"
               PROVE  \E p \in Places : /\ touched'[w] = {p}
                                        /\ p = found'[w] \/ (w \in mixed' /\ p[2] = req[w].name)
                                        /\ Holds(p, w)' \/ p[1] = Plain
  BY <1>2 DEF WriteIsKept
<1>4. CASE w # r
  <2>1. PICK p \in Places : /\ touched[w] = {p}
                            /\ p = found[w] \/ (w \in mixed /\ p[2] = req[w].name)
                            /\ Holds(p, w) \/ p[1] = Plain
    BY <1>2, <1>3, <1>4 DEF LinkIInv, WriteIsKept
  <2>2. Holds(p, w) => Holds(p, w)'
    BY HoldsStep
  <2>3. QED
    BY <1>2, <1>4, <2>1, <2>2
<1>5. CASE w = r
  <2>1. PostFile(r)
    <3>1. ~Commits(r) /\ ~GitEnds(r)
      BY <1>3, <1>5 DEF Commits, GitEnds, LinkIInv, StageByKind
    <3>2. QED
      BY <1>3, <1>5, <3>1, StageStep
  <2>2. r \in Handled
    BY <2>1, Stages DEF PostFile, Handled
  <2>3. /\ found[r] \in Places
        /\ path[r] = "mount" \/ r \notin mixed => Behind(path[r], r) = found[r]
    BY <2>2 DEF LinkIInv, PathHolds
  <2>4. PICK p \in Places : /\ at[r] = "body"
                            /\ p = Behind(path[r], r) \/ Behind(path[r], r) = NoEntry
                            /\ path[r] = "active" => p[2] = req[r].name
                            /\ dirty'[p] = dirty[p] \cup {r}
                            /\ touched'[r] = touched[r] \cup {p}
                            /\ UNCHANGED <<found, mixed>>
    BY <1>1, <2>1, <2>3, PostFacts
  <2>5. touched[r] = {}
    BY <2>4 DEF LinkIInv, NewIsBlank
  <2>6. p = found[r] \/ (r \in mixed /\ p[2] = req[r].name)
    <3>1. path[r] \in {"active", "mount"}
      BY <1>1 DEF LinkTypeOK
    <3>2. QED
      BY <2>3, <2>4, <3>1, PlaceFacts
  <2>7. QED
    BY <1>5, <2>4, <2>5, <2>6 DEF Holds
<1>6. QED
  BY <1>4, <1>5

\* What was answered stays answered.
LEMMA BeforeStep ==
  ASSUME LinkIInv, NEW r \in Requests, Handle(r)
  PROVE  BeforeIsAnswered'
<1>1. LinkTypeOK
  BY DEF LinkIInv
<1>2. /\ req' = req /\ at[r] \in Open \cup {"new"}
      /\ \A q \in Requests \ {r} : at'[q] = at[q] /\ before'[q] = before[q]
  BY HandleFacts
<1>3. \A w \in Requests : at[w] = "ok" => at'[w] = "ok"
  BY <1>2, Stages
<1>4. ASSUME NEW q \in Requests, NEW w \in before'[q]
      PROVE  w \in Requests /\ req[w].kind = "write" /\ at[w] = "ok"
  <2>1. CASE before'[q] = before[q]
    BY <1>1, <1>4, <2>1 DEF LinkIInv, BeforeIsAnswered, LinkTypeOK
  <2>2. CASE before'[q] # before[q]
    <3>1. q = r /\ \E v \in {"active", "mount"} : Find(r, v)
      BY <1>2, <2>2 DEF Handle, NotFound, BadBody, PostFile, StartAdd, StartPr, StartCommit, Start,
        AddLocks, AddEnds, AddFails, Commits, CommitFails, GitEnds, ghost
    <3>2. before'[r] = {v \in Requests : at[v] = "ok" /\ req[v].kind = "write"}
      BY <1>1, <3>1, FindFacts
    <3>3. QED
      BY <1>4, <3>1, <3>2
  <2>3. QED
    BY <2>1, <2>2
<1>5. QED
  BY <1>2, <1>3, <1>4 DEF BeforeIsAnswered

\* A commit that met no rebind runs git where its repo was found.
LEMMA LoneStep ==
  ASSUME LinkIInv, NEW r \in Requests, Handle(r)
  PROVE  LoneStays'
<1>1. LinkTypeOK
  BY DEF LinkIInv
<1>2. /\ req' = req /\ mixed \subseteq mixed'
      /\ \A q \in Requests \ {r} : at'[q] = at[q] /\ cwd'[q] = cwd[q] /\ found'[q] = found[q]
  BY HandleFacts
<1>3. SUFFICES ASSUME NEW q \in Requests \ mixed', at'[q] \in {"add", "adding", "added", "commit"}
               PROVE  cwd'[q] = found'[q]
  BY DEF LoneStays
<1>4. CASE q # r
  BY <1>2, <1>3, <1>4 DEF LinkIInv, LoneStays
<1>5. CASE q = r /\ (AddLocks(r) \/ AddFails(r) \/ AddEnds(r))
  <2>1. at[r] \in {"add", "adding"} /\ UNCHANGED <<cwd, found>>
    BY <1>5 DEF AddLocks, AddFails, AddEnds, ghost
  <2>2. QED
    BY <1>2, <1>3, <1>5, <2>1 DEF LinkIInv, LoneStays
<1>6. CASE q = r /\ (StartAdd(r) \/ StartCommit(r))
  <2>1. PICK l \in {"add", "commit"} : Start(r, l) /\ at[r] \in {"body", "added"}
    BY <1>6 DEF StartAdd, StartCommit
  <2>2. cwd'[r] = Behind(path[r], r) /\ found' = found
    BY <1>1, <1>3, <1>6, <2>1, StartFacts, Stages
  <2>3. Behind(path[r], r) = found[r]
    BY <1>2, <1>3, <1>6, <2>1, Stages DEF LinkIInv, PathHolds, Handled
  <2>4. QED
    BY <1>6, <2>2, <2>3
<1>7. QED
  BY <1>3, <1>4, <1>5, <1>6, StageStep

\* What came before a lone commit is staged by its add.
LEMMA AddedStep ==
  ASSUME LinkIInv, NEW r \in Requests, Handle(r)
  PROVE  AddedIsStaged'
<1>1. LinkTypeOK
  BY DEF LinkIInv
<1>2. /\ req' = req /\ mixed \subseteq mixed' /\ unadded \subseteq unadded'
      /\ \A q \in Requests \ {r} :
           at'[q] = at[q] /\ cwd'[q] = cwd[q] /\ before'[q] = before[q] /\ found'[q] = found[q]
      /\ at[r] # "new" => UNCHANGED <<found, before>>
      /\ at[r] \in Open \cup {"new"}
  BY HandleFacts
<1>3. SUFFICES ASSUME NEW q \in Requests \ (mixed' \cup unadded'), at'[q] \in {"added", "commit"},
                      NEW w \in before'[q]
               PROVE  w \notin dirty'[found'[q]]
  BY DEF AddedIsStaged
<1>4. q \in Handled /\ found'[q] = found[q] /\ before'[q] = before[q] /\ found[q] \in Places
  <2>1. at[q] \in Open
    <3>1. CASE q = r
      BY <1>3, <3>1, StageStep, Stages
    <3>2. CASE q # r
      BY <1>2, <1>3, <3>2, Stages
    <3>3. QED
      BY <3>1, <3>2
  <2>2. QED
    BY <1>2, <2>1, Stages DEF Handled, LinkIInv, PathHolds
<1>5. \A p \in Places : w \in dirty'[p] => w \in dirty[p]
  <2>1. w # r
    BY <1>2, <1>3, <1>4, Stages DEF LinkIInv, BeforeIsAnswered
  <2>2. CASE PostFile(r)
    <3>1. path[r] = "mount" => Behind(path[r], r) \in Places
      BY <2>2, Stages DEF PostFile, LinkIInv, PathHolds, Handled
    <3>2. PICK p \in Places : /\ dirty'[p] = dirty[p] \cup {r}
                              /\ \A s \in Places \ {p} : dirty'[s] = dirty[s]
      BY <1>1, <2>2, <3>1, PostFacts
    <3>3. QED
      BY <2>1, <3>2
  <2>3. CASE AddLocks(r) \/ AddEnds(r) \/ AddFails(r) \/ Commits(r)
    BY <2>3, GitFacts
  <2>4. CASE UNCHANGED repo
    BY <2>4 DEF repo
  <2>5. QED
    BY <2>2, <2>3, <2>4, RepoStep
<1>6. CASE at[q] \in {"added", "commit"}
  BY <1>2, <1>3, <1>4, <1>5, <1>6 DEF LinkIInv, AddedIsStaged
<1>7. CASE at[q] \notin {"added", "commit"}
  <2>1. q = r /\ (AddFails(r) \/ AddEnds(r))
    BY <1>2, <1>3, <1>7, StageStep
  <2>2. ~AddFails(r)
    BY <1>3, <2>1 DEF AddFails
  <2>3. at[r] = "adding" /\ dirty'[cwd[r]] = {}
    BY <2>1, <2>2, GitFacts DEF AddEnds
  <2>4. cwd[r] = found[r]
    BY <1>2, <1>3, <2>1, <2>3 DEF LinkIInv, LoneStays
  <2>5. QED
    BY <1>4, <2>1, <2>3, <2>4
<1>8. QED
  BY <1>6, <1>7

-----------------------------------------------------------------------------
(* The active link: the theorems *)

\* Before the first request nothing is touched, staged or locked.
LEMMA LinkInitIInv == LinkInit => LinkIInv
<1>1. SUFFICES ASSUME LinkInit
               PROVE  LinkIInv
  OBVIOUS
<1>2. LinkTypeOK
  BY <1>1, ActiveAssumption DEF LinkInit, LinkTypeOK, Open, Closed
<1>3. \A r \in Requests : at[r] = "new" /\ touched[r] = {} /\ before[r] = {}
  BY <1>1 DEF LinkInit
<1>4. lock = [p \in Places |-> {}] /\ staged = [p \in Places |-> {}]
  BY <1>1 DEF LinkInit
<1>5. QED
  BY <1>2, <1>3, <1>4, Stages DEF LinkIInv, NewIsBlank, StageByKind, LockIsHeld, ReposStage,
    PathHolds, Handled, WriteIsKept, BeforeIsAnswered, LoneStays, AddedIsStaged

\* Every handler's step and every rebind keeps the invariant.
LEMMA LinkNextIInv == LinkIInv /\ [LinkNext]_linkVars => LinkIInv'
<1>1. SUFFICES ASSUME LinkIInv, [LinkNext]_linkVars
               PROVE  LinkIInv'
  OBVIOUS
<1>2. LinkTypeOK'
  BY <1>1, LinkTypeStep
<1>3. CASE UNCHANGED linkVars
  BY <1>1, <1>2, <1>3 DEF linkVars, repo, ghost, LinkIInv, NewIsBlank, StageByKind, LockIsHeld,
    ReposStage, PathHolds, Handled, Behind, WriteIsKept, Holds, BeforeIsAnswered, LoneStays,
    AddedIsStaged
<1>4. ASSUME NEW r \in Requests, Handle(r)
      PROVE  LinkIInv'
  BY <1>1, <1>2, <1>4, StageKeeps, LockStep, PathStep, KeptStep, BeforeStep, LoneStep, AddedStep
    DEF LinkIInv
<1>5. ASSUME NEW u \in Users, Activate(u)
      PROVE  LinkIInv'
  BY <1>1, <1>5, RebindStep DEF Activate
<1>6. CASE Deactivate
  BY <1>1, <1>6, RebindStep DEF Deactivate, LinkIInv, LinkTypeOK
<1>7. QED
  BY <1>1, <1>3, <1>4, <1>5, <1>6 DEF LinkNext

\* The invariant holds for any users, repositories, requests and number of rebinds.
THEOREM LinkInvariance == LinkSpec => []LinkIInv
  BY LinkInitIInv, LinkNextIInv, PTL DEF LinkSpec

\* Types: in particular git is never started in an entry that is not there.
THEOREM LinkTypeCorrect == LinkSpec => []LinkTypeOK
<1>1. LinkIInv => LinkTypeOK
  BY DEF LinkIInv
<1>2. QED
  BY <1>1, LinkInvariance, PTL

\* A write answered ok is in the repository where its lookup found it, or after a
\* rebind in the one active when its body was there, and stays there; but for a
\* plain directory in the link's place (handle_post, handle_activate).
THEOREM WriteKept == LinkSpec => []WriteIsKept
<1>1. LinkIInv => WriteIsKept
  BY DEF LinkIInv
<1>2. QED
  BY <1>1, LinkInvariance, PTL

\* The step that answers a lone commit leaves no earlier write behind.
LEMMA CommitStep ==
  ASSUME LinkIInv, [LinkNext]_linkVars, NEW r \in Requests \ (mixed \cup unadded),
         req[r].kind = "commit", at[r] # "ok", at'[r] = "ok",
         NEW w \in before[r], touched[w] = {found[r]}
  PROVE  \E c \in commits'[found[r]] : w \in c
<1>1. LinkTypeOK
  BY DEF LinkIInv
<1>2. PICK q \in Requests : Handle(q)
  BY DEF LinkNext, linkVars, Activate, Deactivate, Rebind
<1>3. q = r
  BY <1>2, HandleFacts
<1>4. Commits(r)
  <2>1. ~PostFile(r) /\ ~GitEnds(r)
    BY DEF PostFile, GitEnds, LinkIInv, StageByKind
  <2>2. QED
    BY <1>2, <1>3, <2>1, StageStep
<1>5. at[r] = "commit" /\ staged[cwd[r]] # {}
  BY <1>4 DEF Commits
<1>6. cwd[r] \in Places /\ commits'[cwd[r]] = commits[cwd[r]] \cup {staged[cwd[r]]}
  BY <1>4, GitFacts
<1>7. cwd[r] = found[r]
  BY <1>5 DEF LinkIInv, LoneStays
<1>8. cwd[r][1] # Plain
  BY <1>5, <1>6, PlaceFacts DEF LinkIInv, ReposStage
<1>9. w \in Requests /\ req[w].kind = "write" /\ at[w] = "ok"
  BY <1>1 DEF LinkIInv, BeforeIsAnswered, LinkTypeOK
<1>10. w \notin dirty[cwd[r]]
  BY <1>5, <1>7 DEF LinkIInv, AddedIsStaged
<1>11. w \in staged[cwd[r]] \/ \E c \in commits[cwd[r]] : w \in c
  BY <1>7, <1>8, <1>9, <1>10 DEF LinkIInv, WriteIsKept, Holds
<1>12. QED
  BY <1>6, <1>7, <1>11

\* A commit that met no rebind, push or pull and whose add succeeded holds, or
\* finds committed, every write that was answered before it came (handle_commit).
THEOREM LoneCommit == LinkSpec => LoneCommitIsComplete
<1>1. LinkIInv /\ [LinkNext]_linkVars =>
        [\A r \in Requests \ (mixed \cup unadded) :
           req[r].kind = "commit" /\ at[r] # "ok" /\ at'[r] = "ok"
             => \A w \in before[r] :
                  touched[w] = {found[r]} => \E c \in commits'[found[r]] : w \in c]_linkVars
  BY CommitStep
<1>2. QED
  BY <1>1, LinkInvariance, PTL DEF LinkSpec, LoneCommitIsComplete
=============================================================================
