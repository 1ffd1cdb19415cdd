--------------------------- MODULE SupervisorProofs ---------------------------
(***************************************************************************)
(* Proofs about Supervisor, for any number of `up` and `down` processes    *)
(* and agents: its type invariant, that stacks do not overlap or leave     *)
(* agents behind, and that the files name a supervisor that met no other.  *)
(***************************************************************************)
EXTENDS Supervisor, TLAPS

-----------------------------------------------------------------------------
(* The inductive invariant *)

\* A supervisor that has bound its port and not given it up listens there, and no
\* other one does.
PortIsHeld ==
  /\ \A s \in Sups : sup[s] \in {"spawn"} \cup Serving => s \in bound
  /\ \A s, q \in bound : portOf[s] = portOf[q] => s = q

\* Agents are gone from the end of _shutdown on.
ShutdownIsComplete ==
  \A s \in Sups : sup[s] \in {"draining", "leaving", "exited"} => \A a \in Agents : ~Runs(s, a)

\* A supervisor in solo is the only one alive.
SoloIsAlone ==
  \A s \in solo : /\ sup[s] # "new"
                  /\ Alive(s) => \A q \in Sups \ {s} : ~Alive(q)

\* Until it has written its pid file, no `down` is on its way; from then on every
\* one that has read the file is after it.
DownsAreAfterIt ==
  \A s \in solo, d \in Downs :
    /\ sup[s] = "boot" => down[d].at \notin {"read", "kill", "poll"}
    /\ Alive(s) /\ down[d].at = "kill" => down[d].pid = s

\* Its files are in place as far as it has written them.
FilesInPlace ==
  \A s \in solo :
    /\ sup[s] = "boot" => s \in opened
    /\ Alive(s) /\ sup[s] # "boot" => pidfile = s
    /\ sup[s] \in Serving => statefile = {s}

IInv == /\ TypeOK
        /\ PortIsHeld
        /\ ShutdownIsComplete
        /\ SoloIsAlone
        /\ DownsAreAfterIt
        /\ FilesInPlace

-----------------------------------------------------------------------------
(* Typing *)

\* Moving an `up` or a `down` process on keeps the types.
LEMMA MoveTyped ==
  /\ \A s \in Sups, l \in Phases : TypeOK /\ Goto(s, l) => sup' \in [Sups -> Phases]
  /\ \A d \in Downs, l \in DownPhases :
       TypeOK /\ Step(d, l) => down' \in [Downs -> [at : DownPhases, pid : {Absent} \cup Sups]]
  BY DEF TypeOK, Goto, Step

\* The names of the phases.
LEMMA Phased ==
  /\ {"new"} \cup Starting \cup Serving \cup Leaving \cup Gone \subseteq Phases
  /\ {"new", "read", "kill", "poll"} \cup Answers \subseteq DownPhases
  BY DEF Phases, DownPhases

\* A signal keeps the types of what it changes.
LEMMA SignalTyped ==
  ASSUME TypeOK, NEW s \in Sups, Term(s) \/ Kill(s)
  PROVE  /\ sup' \in [Sups -> Phases]
         /\ bound' \subseteq Sups
         /\ opened' \subseteq Sups
<1>1. bound' \subseteq Sups /\ opened' \subseteq Sups
  BY DEF TypeOK, Term, Kill
<1>2. CASE Term(s)
  <2>1. (CASE sup[s] \in Starting \cup Leaving -> "killed"
           [] sup[s] = "ready" -> "stop"
           [] OTHER -> sup[s]) \in Phases
    BY Phased DEF TypeOK, Gone, Serving
  <2>2. QED
    BY <1>1, <1>2, <2>1, MoveTyped DEF Term
<1>3. CASE Kill(s)
  BY <1>1, <1>3, Phased DEF TypeOK, Kill, Gone
<1>4. QED
  BY <1>2, <1>3

\* Signals to agents and their ends keep the type of child.
LEMMA ChildTyped ==
  ASSUME TypeOK, NEW s \in Sups
  PROVE  /\ \A c \in [Agents -> {"none", "alive", "termed", "dead"}] :
              child' = [child EXCEPT ![s] = c]
                => child' \in [Sups -> [Agents -> {"none", "alive", "termed", "dead"}]]
         /\ \A a \in Agents, v \in {"none", "alive", "termed", "dead"} :
              child' = [child EXCEPT ![s][a] = v]
                => child' \in [Sups -> [Agents -> {"none", "alive", "termed", "dead"}]]
<1>1. child \in [Sups -> [Agents -> {"none", "alive", "termed", "dead"}]]
  BY DEF TypeOK
<1>2. QED
  BY <1>1

\* Every step keeps the types.
LEMMA TypeStep ==
  ASSUME TypeOK, [Next]_vars
  PROVE  TypeOK'
<1>1. ASSUME NEW s \in Sups, Boot(s)
      PROVE  TypeOK'
  <2>1. sup' \in [Sups -> Phases] /\ opened' \subseteq Sups /\ solo' \subseteq Sups
    BY <1>1, MoveTyped, Phased DEF Boot, TypeOK, Starting
  <2>2. QED
    BY <1>1, <2>1 DEF Boot, TypeOK
<1>2. ASSUME NEW s \in Sups, WritePid(s)
      PROVE  TypeOK'
  BY <1>2, MoveTyped, Phased DEF WritePid, TypeOK, Starting
<1>3. ASSUME NEW s \in Sups, Bind(s) \/ BindFails(s) \/ SpawnFails(s) \/ Ready(s)
                             \/ Watchdog(s) \/ Drain(s)
      PROVE  TypeOK'
  <2>1. sup' \in [Sups -> Phases]
    BY <1>3, MoveTyped, Phased DEF Bind, BindFails, SpawnFails, Ready, Watchdog,
      Drain, Starting, Serving, Leaving
  <2>2. QED
    BY <1>3, <2>1 DEF Bind, BindFails, SpawnFails, Ready, Watchdog, Drain, TypeOK
<1>4. ASSUME NEW s \in Sups, NEW a \in Agents, Spawn(s, a) \/ Skip(s, a) \/ ChildExits(s, a)
      PROVE  TypeOK'
  <2>1. child' \in [Sups -> [Agents -> {"none", "alive", "termed", "dead"}]]
    BY <1>4, ChildTyped DEF Spawn, Skip, ChildExits, TypeOK
  <2>2. todo' \in [Sups -> SUBSET Agents]
    BY <1>4 DEF Spawn, Skip, ChildExits, TypeOK
  <2>3. QED
    BY <1>4, <2>1, <2>2 DEF Spawn, Skip, ChildExits, TypeOK
<1>5. ASSUME NEW s \in Sups, Terminate(s) \/ KillRest(s) \/ Interrupt(s) \/ Cleanup(s)
      PROVE  TypeOK'
  <2>1. child' \in [Sups -> [Agents -> {"none", "alive", "termed", "dead"}]]
    BY <1>5 DEF Terminate, KillRest, Interrupt, Cleanup, TypeOK
  <2>2. sup' \in [Sups -> Phases]
    BY <1>5, MoveTyped, Phased DEF Terminate, KillRest, Interrupt, Cleanup, Serving,
      Leaving, Gone
  <2>3. QED
    BY <1>5, <2>1, <2>2 DEF Terminate, KillRest, Interrupt, Cleanup, TypeOK
<1>6. ASSUME NEW d \in Downs, DownLooks(d) \/ DownSeesGone(d) \/ DownFindsStale(d)
      PROVE  TypeOK'
  <2>1. down' \in [Downs -> [at : DownPhases, pid : {Absent} \cup Sups]]
    BY <1>6, MoveTyped, Phased DEF DownLooks, DownSeesGone, DownFindsStale, Answers
  <2>2. \A c \in Downs : down'[c].at \in {"kill", "poll"} => down'[c].pid \in Sups
    BY <1>6, <2>1 DEF DownLooks, DownSeesGone, DownFindsStale, Step, TypeOK
  <2>3. QED
    BY <1>6, <2>1, <2>2 DEF DownLooks, DownSeesGone, DownFindsStale, TypeOK
<1>7. ASSUME NEW d \in Downs, DownReads(d)
      PROVE  TypeOK'
  <2>1. down' \in [Downs -> [at : DownPhases, pid : {Absent} \cup Sups]]
    BY <1>7, Phased DEF DownReads, TypeOK, Answers
  <2>2. QED
    BY <1>7, <2>1 DEF DownReads, TypeOK
<1>8. ASSUME NEW d \in Downs, DownSignals(d) \/ DownEscalates(d)
      PROVE  TypeOK'
  <2>1. down' \in [Downs -> [at : DownPhases, pid : {Absent} \cup Sups]]
    BY <1>8, MoveTyped, Phased DEF DownSignals, DownEscalates, Answers
  <2>2. down[d].pid \in Sups
    BY <1>8 DEF DownSignals, DownEscalates, TypeOK
  <2>3. QED
    <3>1. /\ sup' \in [Sups -> Phases]
          /\ bound' \subseteq Sups
          /\ opened' \subseteq Sups
      BY <1>8, <2>2, SignalTyped DEF DownSignals, DownEscalates
    <3>2. QED
      BY <1>8, <2>1, <3>1 DEF DownSignals, DownEscalates, Step, TypeOK
<1>9. CASE UNCHANGED vars
  BY <1>9 DEF vars, TypeOK
<1>10. QED
  BY <1>1, <1>2, <1>3, <1>4, <1>5, <1>6, <1>7, <1>8, <1>9 DEF Next, Own, DownStep

\* Every variable of the supervisors and their stoppers keeps its type.
THEOREM TypeCorrect == Spec => []TypeOK
<1>1. Init => TypeOK
  BY DEF Init, TypeOK, Phases, DownPhases
<1>2. TypeOK /\ [Next]_vars => TypeOK'
  BY TypeStep
<1>3. QED
  BY <1>1, <1>2, PTL DEF Spec
-----------------------------------------------------------------------------
(* The invariant, action by action *)

\* Beside a living supervisor no other one in solo is alive.
LEMMA OthersAreGone ==
  ASSUME IInv, NEW s \in Sups, Alive(s)
  PROVE  \A q \in solo \ {s} : ~Alive(q)
  BY DEF IInv, SoloIsAlone

\* Boot keeps the invariant.
LEMMA BootKeeps ==
  ASSUME IInv, TypeOK', NEW s \in Sups, Boot(s)
  PROVE  PortIsHeld' /\ ShutdownIsComplete' /\ SoloIsAlone' /\ DownsAreAfterIt' /\ FilesInPlace'
<1>1. PortIsHeld'
  BY DEF PortIsHeld, IInv, Goto, Serving, Boot
<1>2. ShutdownIsComplete'
  BY DEF ShutdownIsComplete, Runs, IInv, Goto, Boot
<1> DEFINE met == {q \in Sups : Alive(q)}
<1>a. /\ \A q \in Sups \ {s} : sup'[q] = sup[q]
      /\ sup'[s] = "boot" /\ s \notin met
      /\ solo' \subseteq (solo \ met) \cup {s}
      /\ s \in solo' => met = {} /\ \A d \in Downs : down[d].at \in {"new"} \cup Answers
  BY DEF SoloIsAlone, IInv, TypeOK, Alive, Goto, Boot
<1>3. SoloIsAlone'
  BY <1>a DEF SoloIsAlone, IInv, TypeOK, Alive
<1>4. DownsAreAfterIt'
  BY <1>a DEF DownsAreAfterIt, IInv, TypeOK, Alive, Boot, Answers
<1>5. FilesInPlace'
  BY DEF FilesInPlace, IInv, TypeOK, Alive, Goto, Serving, Boot
<1>6. QED
  BY <1>1, <1>2, <1>3, <1>4, <1>5

\* WritePid keeps the invariant.
LEMMA WritePidKeeps ==
  ASSUME IInv, TypeOK', NEW s \in Sups, WritePid(s)
  PROVE  PortIsHeld' /\ ShutdownIsComplete' /\ SoloIsAlone' /\ DownsAreAfterIt' /\ FilesInPlace'
<1>1. PortIsHeld'
  BY DEF PortIsHeld, IInv, Goto, Serving, WritePid
<1>2. ShutdownIsComplete'
  BY DEF ShutdownIsComplete, Runs, IInv, Goto, WritePid
<1>3. SoloIsAlone'
  BY DEF SoloIsAlone, IInv, Alive, Goto, Gone, WritePid
<1>4. DownsAreAfterIt'
  BY DEF DownsAreAfterIt, IInv, Alive, Goto, WritePid
<1>5. FilesInPlace'
  <2>1. \A q \in solo \ {s} : ~Alive(q)
    BY OthersAreGone DEF Alive, Gone, WritePid
  <2>2. \A q \in solo \ {s} : q \in Sups /\ sup'[q] = sup[q]
    BY DEF TypeOK, Goto, WritePid
  <2>3. QED
    BY <2>1, <2>2 DEF FilesInPlace, IInv, TypeOK, Alive, Goto, Serving, WritePid
<1>6. QED
  BY <1>1, <1>2, <1>3, <1>4, <1>5

\* Bind keeps the invariant.
LEMMA BindKeeps ==
  ASSUME IInv, TypeOK', NEW s \in Sups, Bind(s)
  PROVE  PortIsHeld' /\ ShutdownIsComplete' /\ SoloIsAlone' /\ DownsAreAfterIt' /\ FilesInPlace'
<1>1. PortIsHeld'
  BY DEF PortIsHeld, IInv, Goto, Bind
<1>2. ShutdownIsComplete'
  BY DEF ShutdownIsComplete, Runs, IInv, Goto, Bind
<1>3. SoloIsAlone'
  BY DEF SoloIsAlone, IInv, Alive, Goto, Gone, Bind
<1>4. DownsAreAfterIt'
  BY DEF DownsAreAfterIt, IInv, Alive, Goto, Gone, Bind
<1>5. FilesInPlace'
  BY DEF FilesInPlace, IInv, Alive, Goto, Serving, Gone, Bind
<1>6. QED
  BY <1>1, <1>2, <1>3, <1>4, <1>5

\* BindFails keeps the invariant.
LEMMA BindFailsKeeps ==
  ASSUME IInv, TypeOK', NEW s \in Sups, BindFails(s)
  PROVE  PortIsHeld' /\ ShutdownIsComplete' /\ SoloIsAlone' /\ DownsAreAfterIt' /\ FilesInPlace'
<1>1. PortIsHeld'
  BY DEF PortIsHeld, IInv, Goto, Serving, BindFails
<1>2. ShutdownIsComplete'
  BY DEF ShutdownIsComplete, Runs, IInv, Goto, BindFails
<1>3. SoloIsAlone'
  BY DEF SoloIsAlone, IInv, Alive, Goto, Gone, BindFails
<1>4. DownsAreAfterIt'
  BY DEF DownsAreAfterIt, IInv, Alive, Goto, Gone, BindFails
<1>5. FilesInPlace'
  BY DEF FilesInPlace, IInv, Alive, Goto, Serving, Gone, BindFails
<1>6. QED
  BY <1>1, <1>2, <1>3, <1>4, <1>5

\* SpawnFails keeps the invariant.
LEMMA SpawnFailsKeeps ==
  ASSUME IInv, TypeOK', NEW s \in Sups, SpawnFails(s)
  PROVE  PortIsHeld' /\ ShutdownIsComplete' /\ SoloIsAlone' /\ DownsAreAfterIt' /\ FilesInPlace'
<1>1. PortIsHeld'
  BY DEF PortIsHeld, IInv, TypeOK, Goto, Serving, SpawnFails
<1>2. ShutdownIsComplete'
  BY DEF ShutdownIsComplete, Runs, IInv, Goto, SpawnFails
<1>3. SoloIsAlone'
  BY DEF SoloIsAlone, IInv, Alive, Goto, Gone, SpawnFails
<1>4. DownsAreAfterIt'
  BY DEF DownsAreAfterIt, IInv, Alive, Goto, Gone, SpawnFails
<1>5. FilesInPlace'
  BY DEF FilesInPlace, IInv, Alive, Goto, Serving, Gone, SpawnFails
<1>6. QED
  BY <1>1, <1>2, <1>3, <1>4, <1>5

\* Ready keeps the invariant.
LEMMA ReadyKeeps ==
  ASSUME IInv, TypeOK', NEW s \in Sups, Ready(s)
  PROVE  PortIsHeld' /\ ShutdownIsComplete' /\ SoloIsAlone' /\ DownsAreAfterIt' /\ FilesInPlace'
<1>1. PortIsHeld'
  BY DEF PortIsHeld, IInv, Goto, Ready
<1>2. ShutdownIsComplete'
  BY DEF ShutdownIsComplete, Runs, IInv, Goto, Ready
<1>3. SoloIsAlone'
  BY DEF SoloIsAlone, IInv, Alive, Goto, Gone, Ready
<1>4. DownsAreAfterIt'
  BY DEF DownsAreAfterIt, IInv, Alive, Goto, Gone, Ready
<1>5. FilesInPlace'
  <2>1. \A q \in solo \ {s} : ~Alive(q)
    BY OthersAreGone DEF Alive, Gone, Ready
  <2>2. \A q \in solo \ {s} : q \in Sups /\ sup'[q] = sup[q]
    BY DEF TypeOK, Goto, Ready
  <2>3. QED
    BY <2>1, <2>2 DEF FilesInPlace, IInv, Alive, Goto, Serving, Gone, Ready
<1>6. QED
  BY <1>1, <1>2, <1>3, <1>4, <1>5

\* Watchdog keeps the invariant.
LEMMA WatchdogKeeps ==
  ASSUME IInv, TypeOK', NEW s \in Sups, Watchdog(s)
  PROVE  PortIsHeld' /\ ShutdownIsComplete' /\ SoloIsAlone' /\ DownsAreAfterIt' /\ FilesInPlace'
<1>1. PortIsHeld'
  BY DEF PortIsHeld, IInv, Goto, Serving, Watchdog
<1>2. ShutdownIsComplete'
  BY DEF ShutdownIsComplete, Runs, IInv, Goto, Watchdog
<1>3. SoloIsAlone'
  BY DEF SoloIsAlone, IInv, Alive, Goto, Gone, Watchdog
<1>4. DownsAreAfterIt'
  BY DEF DownsAreAfterIt, IInv, Alive, Goto, Gone, Watchdog
<1>5. FilesInPlace'
  BY DEF FilesInPlace, IInv, Alive, Goto, Serving, Gone, Watchdog
<1>6. QED
  BY <1>1, <1>2, <1>3, <1>4, <1>5

\* Terminate keeps the invariant.
LEMMA TerminateKeeps ==
  ASSUME IInv, TypeOK', NEW s \in Sups, Terminate(s)
  PROVE  PortIsHeld' /\ ShutdownIsComplete' /\ SoloIsAlone' /\ DownsAreAfterIt' /\ FilesInPlace'
<1>1. PortIsHeld'
  BY DEF PortIsHeld, IInv, Goto, Serving, Terminate
<1>2. ShutdownIsComplete'
  BY DEF ShutdownIsComplete, Runs, IInv, Goto, Terminate
<1>3. SoloIsAlone'
  BY DEF SoloIsAlone, IInv, Alive, Goto, Gone, Terminate
<1>4. DownsAreAfterIt'
  BY DEF DownsAreAfterIt, IInv, Alive, Goto, Gone, Terminate
<1>5. FilesInPlace'
  BY DEF FilesInPlace, IInv, Alive, Goto, Serving, Gone, Terminate
<1>6. QED
  BY <1>1, <1>2, <1>3, <1>4, <1>5

\* KillRest keeps the invariant.
LEMMA KillRestKeeps ==
  ASSUME IInv, TypeOK', NEW s \in Sups, KillRest(s)
  PROVE  PortIsHeld' /\ ShutdownIsComplete' /\ SoloIsAlone' /\ DownsAreAfterIt' /\ FilesInPlace'
<1>1. PortIsHeld'
  BY DEF PortIsHeld, IInv, Goto, Serving, KillRest
<1>2. ShutdownIsComplete'
  BY DEF ShutdownIsComplete, Runs, IInv, TypeOK, Goto, KillRest
<1>3. SoloIsAlone'
  BY DEF SoloIsAlone, IInv, Alive, Goto, Gone, KillRest
<1>4. DownsAreAfterIt'
  BY DEF DownsAreAfterIt, IInv, Alive, Goto, Gone, KillRest
<1>5. FilesInPlace'
  BY DEF FilesInPlace, IInv, Alive, Goto, Serving, Gone, KillRest
<1>6. QED
  BY <1>1, <1>2, <1>3, <1>4, <1>5

\* Drain keeps the invariant.
LEMMA DrainKeeps ==
  ASSUME IInv, TypeOK', NEW s \in Sups, Drain(s)
  PROVE  PortIsHeld' /\ ShutdownIsComplete' /\ SoloIsAlone' /\ DownsAreAfterIt' /\ FilesInPlace'
<1>1. PortIsHeld'
  BY DEF PortIsHeld, IInv, TypeOK, Goto, Serving, Drain
<1>2. ShutdownIsComplete'
  BY DEF ShutdownIsComplete, Runs, IInv, Goto, Drain
<1>3. SoloIsAlone'
  BY DEF SoloIsAlone, IInv, Alive, Goto, Gone, Drain
<1>4. DownsAreAfterIt'
  BY DEF DownsAreAfterIt, IInv, Alive, Goto, Gone, Drain
<1>5. FilesInPlace'
  BY DEF FilesInPlace, IInv, Alive, Goto, Serving, Gone, Drain
<1>6. QED
  BY <1>1, <1>2, <1>3, <1>4, <1>5

\* Cleanup keeps the invariant.
LEMMA CleanupKeeps ==
  ASSUME IInv, TypeOK', NEW s \in Sups, Cleanup(s)
  PROVE  PortIsHeld' /\ ShutdownIsComplete' /\ SoloIsAlone' /\ DownsAreAfterIt' /\ FilesInPlace'
<1>1. PortIsHeld'
  BY DEF PortIsHeld, IInv, Goto, Serving, Cleanup
<1>2. ShutdownIsComplete'
  BY DEF ShutdownIsComplete, Runs, IInv, Goto, Cleanup
<1>3. SoloIsAlone'
  BY DEF SoloIsAlone, IInv, Alive, Goto, Gone, Cleanup
<1>4. DownsAreAfterIt'
  BY DEF DownsAreAfterIt, IInv, Alive, Goto, Gone, Cleanup
<1>5. FilesInPlace'
  <2>1. \A q \in solo \ {s} : ~Alive(q)
    BY OthersAreGone DEF Alive, Leaving, Gone, Cleanup
  <2>2. \A q \in solo \ {s} : q \in Sups /\ sup'[q] = sup[q]
    BY DEF TypeOK, Goto, Cleanup
  <2>3. QED
    BY <2>1, <2>2 DEF FilesInPlace, TypeOK, Alive, Goto, Serving, Gone, Cleanup
<1>6. QED
  BY <1>1, <1>2, <1>3, <1>4, <1>5

\* Interrupt keeps the invariant.
LEMMA InterruptKeeps ==
  ASSUME IInv, TypeOK', NEW s \in Sups, Interrupt(s)
  PROVE  PortIsHeld' /\ ShutdownIsComplete' /\ SoloIsAlone' /\ DownsAreAfterIt' /\ FilesInPlace'
<1>1. PortIsHeld'
  BY DEF PortIsHeld, IInv, TypeOK, Goto, Serving, Interrupt
<1>2. ShutdownIsComplete'
  BY DEF ShutdownIsComplete, Runs, IInv, Goto, Interrupt
<1>3. SoloIsAlone'
  BY DEF SoloIsAlone, IInv, Alive, Goto, Gone, Interrupt
<1>4. DownsAreAfterIt'
  BY DEF DownsAreAfterIt, IInv, Alive, Goto, Gone, Interrupt
<1>5. FilesInPlace'
  BY DEF FilesInPlace, IInv, Alive, Goto, Serving, Gone, Interrupt
<1>6. QED
  BY <1>1, <1>2, <1>3, <1>4, <1>5

\* Spawn keeps the invariant.
LEMMA SpawnKeeps ==
  ASSUME IInv, TypeOK', NEW s \in Sups, NEW a \in Agents, Spawn(s, a)
  PROVE  PortIsHeld' /\ ShutdownIsComplete' /\ SoloIsAlone' /\ DownsAreAfterIt' /\ FilesInPlace'
<1>1. PortIsHeld'
  BY DEF PortIsHeld, IInv, Spawn
<1>2. ShutdownIsComplete'
  BY DEF ShutdownIsComplete, Runs, IInv, Spawn
<1>3. SoloIsAlone'
  BY DEF SoloIsAlone, IInv, Alive, Spawn
<1>4. DownsAreAfterIt'
  BY DEF DownsAreAfterIt, IInv, Alive, Spawn
<1>5. FilesInPlace'
  BY DEF FilesInPlace, IInv, Alive, Spawn
<1>6. QED
  BY <1>1, <1>2, <1>3, <1>4, <1>5

\* Skip keeps the invariant.
LEMMA SkipKeeps ==
  ASSUME IInv, TypeOK', NEW s \in Sups, NEW a \in Agents, Skip(s, a)
  PROVE  PortIsHeld' /\ ShutdownIsComplete' /\ SoloIsAlone' /\ DownsAreAfterIt' /\ FilesInPlace'
<1>1. PortIsHeld'
  BY DEF PortIsHeld, IInv, Skip
<1>2. ShutdownIsComplete'
  BY DEF ShutdownIsComplete, Runs, IInv, Skip
<1>3. SoloIsAlone'
  BY DEF SoloIsAlone, IInv, Alive, Skip
<1>4. DownsAreAfterIt'
  BY DEF DownsAreAfterIt, IInv, Alive, Skip
<1>5. FilesInPlace'
  BY DEF FilesInPlace, IInv, Alive, Skip
<1>6. QED
  BY <1>1, <1>2, <1>3, <1>4, <1>5

\* ChildExits keeps the invariant.
LEMMA ChildExitsKeeps ==
  ASSUME IInv, TypeOK', NEW s \in Sups, NEW a \in Agents, ChildExits(s, a)
  PROVE  PortIsHeld' /\ ShutdownIsComplete' /\ SoloIsAlone' /\ DownsAreAfterIt' /\ FilesInPlace'
<1>1. PortIsHeld'
  BY DEF PortIsHeld, IInv, ChildExits
<1>2. ShutdownIsComplete'
  BY DEF ShutdownIsComplete, Runs, IInv, ChildExits
<1>3. SoloIsAlone'
  BY DEF SoloIsAlone, IInv, Alive, ChildExits
<1>4. DownsAreAfterIt'
  BY DEF DownsAreAfterIt, IInv, Alive, ChildExits
<1>5. FilesInPlace'
  BY DEF FilesInPlace, IInv, Alive, ChildExits
<1>6. QED
  BY <1>1, <1>2, <1>3, <1>4, <1>5

\* DownLooks keeps the invariant.
LEMMA DownLooksKeeps ==
  ASSUME IInv, TypeOK', NEW d \in Downs, DownLooks(d)
  PROVE  PortIsHeld' /\ ShutdownIsComplete' /\ SoloIsAlone' /\ DownsAreAfterIt' /\ FilesInPlace'
<1>1. PortIsHeld'
  BY DEF PortIsHeld, IInv, DownLooks
<1>2. ShutdownIsComplete'
  BY DEF ShutdownIsComplete, Runs, IInv, DownLooks
<1>3. SoloIsAlone'
  BY DEF SoloIsAlone, IInv, Alive, DownLooks
<1>4. DownsAreAfterIt'
  BY DEF DownsAreAfterIt, IInv, TypeOK, Alive, DownLooks, Step
<1>5. FilesInPlace'
  BY DEF FilesInPlace, IInv, Alive, DownLooks
<1>6. QED
  BY <1>1, <1>2, <1>3, <1>4, <1>5

\* DownReads keeps the invariant.
LEMMA DownReadsKeeps ==
  ASSUME IInv, TypeOK', NEW d \in Downs, DownReads(d)
  PROVE  PortIsHeld' /\ ShutdownIsComplete' /\ SoloIsAlone' /\ DownsAreAfterIt' /\ FilesInPlace'
<1>1. PortIsHeld'
  BY DEF PortIsHeld, IInv, DownReads
<1>2. ShutdownIsComplete'
  BY DEF ShutdownIsComplete, Runs, IInv, DownReads
<1>3. SoloIsAlone'
  BY DEF SoloIsAlone, IInv, Alive, DownReads
<1>4. DownsAreAfterIt'
  <2>1. \A q \in solo : Alive(q) => pidfile = q /\ pidfile # Empty
    BY SupervisorAssumption DEF DownsAreAfterIt, FilesInPlace, IInv, TypeOK, DownReads
  <2>2. \A q \in solo, c \in Downs :
          /\ sup[q] = "boot" => down'[c].at \notin {"read", "kill", "poll"}
          /\ Alive(q) /\ down'[c].at = "kill" => down'[c].pid = q
    BY <2>1 DEF DownsAreAfterIt, IInv, DownReads
  <2>3. QED
    BY <2>2 DEF DownsAreAfterIt, Alive, DownReads
<1>5. FilesInPlace'
  <2>1. \A q \in solo : Alive(q) => pidfile # Empty
    BY SupervisorAssumption DEF DownsAreAfterIt, FilesInPlace, IInv, TypeOK, DownReads
  <2>2. CASE pidfile = Empty
    BY <2>1, <2>2 DEF FilesInPlace, IInv, Alive, Gone, DownReads
  <2>3. CASE pidfile # Empty
    BY <2>3 DEF FilesInPlace, IInv, Alive, DownReads
  <2>4. QED
    BY <2>2, <2>3
<1>6. QED
  BY <1>1, <1>2, <1>3, <1>4, <1>5

\* DownSignals keeps the invariant.
LEMMA DownSignalsKeeps ==
  ASSUME IInv, TypeOK', NEW d \in Downs, DownSignals(d)
  PROVE  PortIsHeld' /\ ShutdownIsComplete' /\ SoloIsAlone' /\ DownsAreAfterIt' /\ FilesInPlace'
<1>1. PortIsHeld'
  BY DEF PortIsHeld, IInv, TypeOK, Goto, Starting, Serving, DownSignals, Term
<1>2. ShutdownIsComplete'
  BY DEF ShutdownIsComplete, Runs, IInv, Goto, DownSignals, Term
<1>3. SoloIsAlone'
  BY DEF SoloIsAlone, IInv, Alive, Goto, DownSignals, Term
<1>4. DownsAreAfterIt'
  BY DEF DownsAreAfterIt, IInv, Alive, Goto, DownSignals, Step, Term
<1>5. FilesInPlace'
  BY DEF FilesInPlace, IInv, TypeOK, Alive, Goto, Serving, Gone, DownSignals, Term
<1>6. QED
  BY <1>1, <1>2, <1>3, <1>4, <1>5

\* DownFindsStale keeps the invariant.
LEMMA DownFindsStaleKeeps ==
  ASSUME IInv, TypeOK', NEW d \in Downs, DownFindsStale(d)
  PROVE  PortIsHeld' /\ ShutdownIsComplete' /\ SoloIsAlone' /\ DownsAreAfterIt' /\ FilesInPlace'
<1>1. PortIsHeld'
  BY DEF PortIsHeld, IInv, DownFindsStale
<1>2. ShutdownIsComplete'
  BY DEF ShutdownIsComplete, Runs, IInv, DownFindsStale
<1>3. SoloIsAlone'
  BY DEF SoloIsAlone, IInv, Alive, DownFindsStale
<1>4. DownsAreAfterIt'
  BY DEF DownsAreAfterIt, IInv, Alive, DownFindsStale
<1>5. FilesInPlace'
  <2>1. \A q \in solo : ~Alive(q)
    BY DEF DownsAreAfterIt, IInv, DownFindsStale
  <2>2. QED
    BY <2>1 DEF FilesInPlace, Alive, Serving, Gone, DownFindsStale
<1>6. QED
  BY <1>1, <1>2, <1>3, <1>4, <1>5

\* DownSeesGone keeps the invariant.
LEMMA DownSeesGoneKeeps ==
  ASSUME IInv, TypeOK', NEW d \in Downs, DownSeesGone(d)
  PROVE  PortIsHeld' /\ ShutdownIsComplete' /\ SoloIsAlone' /\ DownsAreAfterIt' /\ FilesInPlace'
<1>1. PortIsHeld'
  BY DEF PortIsHeld, IInv, DownSeesGone
<1>2. ShutdownIsComplete'
  BY DEF ShutdownIsComplete, Runs, IInv, DownSeesGone
<1>3. SoloIsAlone'
  BY DEF SoloIsAlone, IInv, Alive, DownSeesGone
<1>4. DownsAreAfterIt'
  BY DEF DownsAreAfterIt, IInv, Alive, DownSeesGone, Step
<1>5. FilesInPlace'
  BY DEF FilesInPlace, IInv, Alive, DownSeesGone
<1>6. QED
  BY <1>1, <1>2, <1>3, <1>4, <1>5

\* DownEscalates keeps the invariant.
LEMMA DownEscalatesKeeps ==
  ASSUME IInv, TypeOK', NEW d \in Downs, DownEscalates(d)
  PROVE  PortIsHeld' /\ ShutdownIsComplete' /\ SoloIsAlone' /\ DownsAreAfterIt' /\ FilesInPlace'
<1>1. PortIsHeld'
  BY DEF PortIsHeld, IInv, TypeOK, Alive, Serving, Gone, DownEscalates, Kill
<1>2. ShutdownIsComplete'
  BY DEF ShutdownIsComplete, Runs, IInv, DownEscalates, Kill
<1>3. SoloIsAlone'
  BY DEF SoloIsAlone, IInv, Alive, DownEscalates, Kill
<1>4. DownsAreAfterIt'
  BY DEF DownsAreAfterIt, IInv, Alive, DownEscalates, Step, Kill
<1>5. FilesInPlace'
  BY DEF FilesInPlace, IInv, TypeOK, Alive, Serving, Gone, DownEscalates, Kill
<1>6. QED
  BY <1>1, <1>2, <1>3, <1>4, <1>5

\* The invariant holds of every behaviour of the specification.
THEOREM Invariance == Spec => []IInv
<1>1. Init => IInv
  <2>1. Init => TypeOK
    BY DEF Init, TypeOK, Phases, DownPhases
  <2>2. QED
    BY <2>1 DEF Init, IInv, PortIsHeld, ShutdownIsComplete, SoloIsAlone,
      DownsAreAfterIt, FilesInPlace, Serving
<1>2. IInv /\ [Next]_vars => IInv'
  <2> SUFFICES ASSUME IInv, [Next]_vars
               PROVE  IInv'
    OBVIOUS
  <2>1. TypeOK'
    BY TypeStep DEF IInv
  <2>2. CASE UNCHANGED vars
    BY <2>1, <2>2 DEF vars, IInv, PortIsHeld, ShutdownIsComplete, SoloIsAlone,
      DownsAreAfterIt, FilesInPlace, Alive, Runs
  <2>3. ASSUME NEW s \in Sups, Own(s) \/ Interrupt(s) \/ \E a \in Agents : ChildExits(s, a)
        PROVE  IInv'
    BY <2>1, <2>3, BootKeeps, WritePidKeeps, BindKeeps, BindFailsKeeps,
      SpawnFailsKeeps, ReadyKeeps, WatchdogKeeps, TerminateKeeps, KillRestKeeps,
      DrainKeeps, CleanupKeeps, InterruptKeeps, SpawnKeeps, SkipKeeps,
      ChildExitsKeeps DEF Own, IInv
  <2>4. ASSUME NEW d \in Downs, DownStep(d)
        PROVE  IInv'
    BY <2>1, <2>4, DownLooksKeeps, DownReadsKeeps, DownSignalsKeeps,
      DownFindsStaleKeeps, DownSeesGoneKeeps, DownEscalatesKeeps DEF DownStep, IInv
  <2>5. QED
    BY <2>2, <2>3, <2>4 DEF Next
<1>3. QED
  BY <1>1, <1>2, PTL DEF Spec

\* A supervisor that stopped in its own way leaves no agent behind.
THEOREM NoAgentLeft == Spec => []StopLeavesNoAgent
<1>1. IInv => StopLeavesNoAgent
  BY DEF IInv, ShutdownIsComplete, StopLeavesNoAgent
<1>2. QED
  BY <1>1, Invariance, PTL

\* Two supervisors on one port that spawn, serve or shut down never both run agents.
THEOREM NoOverlap == Spec => []StacksDoNotOverlap
<1>1. IInv => StacksDoNotOverlap
  BY DEF IInv, PortIsHeld, StacksDoNotOverlap
<1>2. QED
  BY <1>1, Invariance, PTL

\* The files name a supervisor that met no other.
THEOREM FilesName == Spec => []FilesNameTheSupervisor
<1>1. IInv => FilesNameTheSupervisor
  BY DEF IInv, FilesInPlace, FilesNameTheSupervisor, Alive, Serving, Gone
<1>2. QED
  BY <1>1, Invariance, PTL
=============================================================================
