----------------------------- MODULE SymbolsCache -----------------------------
(***************************************************************************)
(* The Sylang symbols cache (hermes_adapter/workspace/symbols_cache.py)    *)
(* with the routes that fill, bust and outdate it.  GET /symbols runs      *)
(* get_or_build in a thread: it walks the directory file by file while     *)
(* POST and DELETE /file change files on the event loop, and git and the   *)
(* agents change them with no call to invalidate at all.                   *)
(*                                                                         *)
(* One workspace directory is modelled.  A slot is one place it is cached: *)
(* a process (the workspace API and every gateway have a cache of their    *)
(* own) and a name it is asked for by (<repo> or <user>/<repo>).           *)
(***************************************************************************)
EXTENDS Naturals

CONSTANTS Files,       \* Sylang files of the directory
          Slots,       \* (process, name) pairs the directory is cached under
          Builders,    \* threads that run get_or_build
          Writers,     \* handlers of POST and DELETE /file
          Missing,     \* a file that the walk skipped
          Nobody,      \* no slot: the thread or handler is idle
          TTL,         \* _TTL, in ticks
          MaxTime,     \* bound on the clock
          MaxVersion   \* bound on the changes of one file

ASSUME CacheAssumption == /\ Missing \notin Nat
                          /\ Nobody \notin Slots
                          /\ TTL \in Nat \ {0}
                          /\ MaxTime \in Nat
                          /\ MaxVersion \in Nat

VARIABLES
  now,      \* time.time(), in ticks
  disk,     \* how often each file has changed
  cache,    \* _cache of every slot: {} or one entry [ts, payload]
  build,    \* get_or_build of each thread: [slot, at, start, payload]
  write,    \* the slot a handler writes for, until it has invalidated
  asOf,     \* history: the disk at the start of each tick
  acked,    \* history: the disk when a write through the slot was last answered ok
  owed,     \* history: acked of its slot when a thread was called
  settled   \* history: the disk when the slot was last invalidated while no
            \* build for it was under way

vars == <<now, disk, cache, build, write, asOf, acked, owed, settled>>

Time     == 0..MaxTime
Contents == [Files -> Nat]
Payload  == [Files -> Nat \cup {Missing}]
Entry    == [ts : Time, payload : Payload]
Build    == [slot : Slots \cup {Nobody}, at : {"look", "walk", "answered"},
             start : Time, payload : Payload, read : SUBSET Files]

TypeOK ==
  /\ now \in Time
  /\ disk \in Contents
  /\ cache \in [Slots -> SUBSET Entry]
  /\ build \in [Builders -> Build]
  /\ \A b \in Builders : build[b].at # "answered" => build[b].slot \in Slots
  /\ write \in [Writers -> Slots \cup {Nobody}]
  /\ asOf \in [Time -> Contents]
  /\ {acked, settled} \subseteq [Slots -> Contents]
  /\ owed \in [Builders -> Contents]

-----------------------------------------------------------------------------
Unread == [f \in Files |-> Missing]

\* Threads between the call and the answer, for slot s.
Building(s) == {b \in Builders : build[b].slot = s /\ build[b].at # "answered"}

Init ==
  /\ now = 0
  /\ disk = [f \in Files |-> 0]
  /\ cache = [s \in Slots |-> {}]
  /\ build = [b \in Builders |-> [slot |-> Nobody, at |-> "answered", start |-> 0,
                                  payload |-> Unread, read |-> {}]]
  /\ write = [w \in Writers |-> Nobody]
  /\ asOf = [t \in Time |-> [f \in Files |-> 0]]
  /\ acked = [s \in Slots |-> [f \in Files |-> 0]]
  /\ owed = [b \in Builders |-> [f \in Files |-> 0]]
  /\ settled = [s \in Slots |-> [f \in Files |-> 0]]

Tick ==
  /\ now < MaxTime
  /\ now' = now + 1
  /\ asOf' = [asOf EXCEPT ![now + 1] = disk]
  /\ UNCHANGED <<disk, cache, build, write, acked, owed, settled>>

\* Files change: a write, or an rmtree of several.
Change(F) ==
  /\ F # {} /\ \A f \in F : disk[f] < MaxVersion
  /\ disk' = [f \in Files |-> IF f \in F THEN disk[f] + 1 ELSE disk[f]]

-----------------------------------------------------------------------------
(* get_or_build *)

\* GET /symbols: the time is taken first of all.
Call(b, s) ==
  /\ build[b].at = "answered"
  /\ build' = [build EXCEPT ![b] = [slot |-> s, at |-> "look", start |-> now,
                                    payload |-> Unread, read |-> {}]]
  /\ owed' = [owed EXCEPT ![b] = acked[s]]
  /\ UNCHANGED <<now, disk, cache, write, asOf, acked, settled>>

\* A young enough entry is the answer.
Hit(b) ==
  /\ build[b].at = "look"
  /\ \E e \in cache[build[b].slot] :
       /\ build[b].start < e.ts + TTL
       /\ build' = [build EXCEPT ![b].at = "answered", ![b].payload = e.payload]
  /\ UNCHANGED <<now, disk, cache, write, asOf, acked, owed, settled>>

Miss(b) ==
  /\ build[b].at = "look"
  /\ \A e \in cache[build[b].slot] : ~(build[b].start < e.ts + TTL)
  /\ build' = [build EXCEPT ![b].at = "walk"]
  /\ UNCHANGED <<now, disk, cache, write, asOf, acked, owed, settled>>

\* The walk reads one more file, in whatever order scandir gives.
ReadFile(b, f) ==
  /\ build[b].at = "walk" /\ f \notin build[b].read
  /\ build' = [build EXCEPT ![b].payload[f] = disk[f],
                             ![b].read = build[b].read \cup {f}]
  /\ UNCHANGED <<now, disk, cache, write, asOf, acked, owed, settled>>

\* Mutant: an unreadable file gets an entry that is no contents of it.
SkipFile_PutsNone(b, f) ==
  /\ build[b].at = "walk" /\ f \notin build[b].read
  /\ build' = [build EXCEPT ![b].payload[f] = Nobody,
                             ![b].read = build[b].read \cup {f}]
  /\ UNCHANGED <<now, disk, cache, write, asOf, acked, owed, settled>>

\* An OSError on a file or its directory is swallowed: it is left out.
SkipFile(b, f) ==
  /\ build[b].at = "walk" /\ f \notin build[b].read
  /\ build' = [build EXCEPT ![b].read = build[b].read \cup {f}]
  /\ UNCHANGED <<now, disk, cache, write, asOf, acked, owed, settled>>

\* Mutant: the entry carries the time after the walk.
Store_StampedLate(b) ==
  /\ build[b].at = "walk" /\ build[b].read = Files
  /\ cache' = [cache EXCEPT ![build[b].slot] = {[ts |-> now, payload |-> build[b].payload]}]
  /\ build' = [build EXCEPT ![b].at = "answered"]
  /\ UNCHANGED <<now, disk, write, asOf, acked, owed, settled>>

\* The entry carries the time taken before the walk; whatever is there, older
\* or newer, is replaced.
Store(b) ==
  /\ build[b].at = "walk" /\ build[b].read = Files
  /\ cache' = [cache EXCEPT ![build[b].slot] =
                 {[ts |-> build[b].start, payload |-> build[b].payload]}]
  /\ build' = [build EXCEPT ![b].at = "answered"]
  /\ UNCHANGED <<now, disk, write, asOf, acked, owed, settled>>

-----------------------------------------------------------------------------
(* The routes that change files *)

\* POST or DELETE /file: the change is on disk, the cache not yet told.
WriteFile(w, s, F) ==
  /\ write[w] = Nobody
  /\ Change(F)
  /\ write' = [write EXCEPT ![w] = s]
  /\ UNCHANGED <<now, cache, build, asOf, acked, owed, settled>>

Settle(s) == settled' = IF Building(s) = {} THEN [settled EXCEPT ![s] = disk] ELSE settled

\* Mutant: the write is answered and the entry left where it is.
Invalidate_KeepsEntry(w) ==
  /\ write[w] # Nobody
  /\ write' = [write EXCEPT ![w] = Nobody]
  /\ Settle(write[w])
  /\ acked' = [acked EXCEPT ![write[w]] = disk]
  /\ UNCHANGED <<now, disk, cache, build, asOf, owed>>

\* invalidate(repo), for the name the request used, in this process.
Invalidate(w) ==
  /\ write[w] # Nobody
  /\ cache' = [cache EXCEPT ![write[w]] = {}]
  /\ write' = [write EXCEPT ![w] = Nobody]
  /\ Settle(write[w])
  /\ acked' = [acked EXCEPT ![write[w]] = disk]
  /\ UNCHANGED <<now, disk, build, asOf, owed>>

\* The write or the rmtree raises half-way: a 500, and invalidate is not called.
WriteFails(w) ==
  /\ write[w] # Nobody
  /\ write' = [write EXCEPT ![w] = Nobody]
  /\ UNCHANGED <<now, disk, cache, build, asOf, acked, owed, settled>>

\* POST /symbols/invalidate.
Bust(s) ==
  /\ cache' = [cache EXCEPT ![s] = {}]
  /\ Settle(s)
  /\ UNCHANGED <<now, disk, build, write, asOf, acked, owed>>

\* git pull and clone routes, the agent's own tools, a shell.
ChangeBehind(F) ==
  /\ Change(F)
  /\ UNCHANGED <<now, cache, build, write, asOf, acked, owed, settled>>

Next ==
  \/ Tick
  \/ \E b \in Builders : \/ \E s \in Slots : Call(b, s)
                         \/ Hit(b) \/ Miss(b) \/ Store(b)
                         \/ \E f \in Files : ReadFile(b, f) \/ SkipFile(b, f)
  \/ \E w \in Writers : \/ \E s \in Slots, F \in SUBSET Files : WriteFile(w, s, F)
                        \/ Invalidate(w) \/ WriteFails(w)
  \/ \E s \in Slots : Bust(s)
  \/ \E F \in SUBSET Files : ChangeBehind(F)

Spec == Init /\ [][Next]_vars

-----------------------------------------------------------------------------
\* Versions of a payload's files are at least those of contents c.
AtLeast(payload, c) == \A f \in Files : payload[f] # Missing => payload[f] >= c[f]

\* What a build that started at t may be given at the oldest.
Horizon(t) == IF t < TTL THEN 0 ELSE t - TTL + 1

\* The staleness of an answer is bounded by the TTL, whatever the walk, the
\* writers and other builds do: every file in it is at least as new as the disk
\* was one TTL before the request, also when a slow build overwrote the entry of
\* a faster, later one.
BoundedStaleness ==
  \A b \in Builders :
    build[b].slot # Nobody /\ build[b].at = "answered"
      => AtLeast(build[b].payload, asOf[Horizon(build[b].start)])

\* An invalidation that meets no build under way is never undone: every later
\* answer from that slot has what was on disk then.
QuietInvalidateSticks ==
  [][\A b \in Builders :
       build[b].at # "answered" /\ build'[b].at = "answered"
         => AtLeast(build'[b].payload, settled[build[b].slot])]_vars

\* docs/workspace-api.md:7, "All routes that mutate state invalidate the Sylang
\* symbols cache for the affected repo, so the next GET /ws/{repo}/symbols is
\* fresh": a GET called after a write through the same slot was answered ok
\* returns what was on disk then.
NextGetIsFresh ==
  \A b \in Builders :
    build[b].slot # Nobody /\ build[b].at = "answered" => AtLeast(build[b].payload, owed[b])
=============================================================================
