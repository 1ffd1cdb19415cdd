------------------------------ MODULE Supervisor ------------------------------
(***************************************************************************)
(* `hermes-adapter up` and `hermes-adapter down`                           *)
(* (hermes_adapter/supervisor.py).  An `up` process writes its pid file,   *)
(* binds the workspace port, spawns one gateway process per agent, waits   *)
(* for a signal or a dead agent, and takes the stack down again.  A `down` *)
(* finds it by the pid file alone.  Nothing keeps several of either from   *)
(* running at once, on the same two files; only two `up`s whose manifests  *)
(* name one port are kept from serving it both.                            *)
(***************************************************************************)
EXTENDS Naturals, FiniteSets

CONSTANTS Sups,     \* `up` processes; a pid is not used twice
          Agents,   \* agents of the manifest
          Ports,    \* ports of the workspace API that manifests name
          Downs,    \* `down` processes
          Absent,   \* no pid file
          Empty     \* a pid file that is truncated and not yet written

ASSUME SupervisorAssumption == Absent \notin Sups /\ Empty \notin Sups /\ Absent # Empty

VARIABLES
  sup,        \* where each `up` process is
  todo,       \* agents it has not come to yet
  child,      \* its gateway process for each agent
  portOf,     \* adapter.port of the manifest each `up` is given
  bound,      \* `up` processes that listen on their port
  pidfile,    \* supervisor.pid
  opened,     \* processes that have the pid file open, truncated, unwritten
  statefile,  \* supervisor.json: {} or {s}, its processes written by s
  down,       \* each `down` process: [at, pid]
  solo        \* history: `up` processes that met no other `up`, and no `down`
              \* that looked before their pid file was written

vars == <<sup, todo, child, portOf, bound, pidfile, opened, statefile, down, solo>>

\* Before its signal handlers are installed; with them; in the finally clause
\* after a normal stop or an exception; and gone.
Starting == {"boot", "bind", "spawn"}
Serving  == {"ready", "stop", "stopping", "draining"}
Leaving  == {"leaving", "failing"}
Gone     == {"exited", "failed", "killed"}

Phases   == {"new"} \cup Starting \cup Serving \cup Leaving \cup Gone
Answers  == {"none", "corrupt", "crashed", "stale", "stopped", "escalated"}
DownPhases == {"new", "read", "kill", "poll"} \cup Answers

TypeOK ==
  /\ sup \in [Sups -> Phases]
  /\ todo \in [Sups -> SUBSET Agents]
  /\ child \in [Sups -> [Agents -> {"none", "alive", "termed", "dead"}]]
  /\ portOf \in [Sups -> Ports]
  /\ bound \subseteq Sups
  /\ pidfile \in {Absent, Empty} \cup Sups
  /\ opened \subseteq Sups
  /\ statefile \in {{}} \cup {{s} : s \in Sups}
  /\ down \in [Downs -> [at : DownPhases, pid : {Absent} \cup Sups]]
  /\ \A d \in Downs : down[d].at \in {"kill", "poll"} => down[d].pid \in Sups
  /\ solo \subseteq Sups

-----------------------------------------------------------------------------
Alive(s)   == sup[s] \notin {"new"} \cup Gone
Runs(s, a) == child[s][a] \in {"alive", "termed"}
Goto(s, l) == sup' = [sup EXCEPT ![s] = l]

Init ==
  /\ sup = [s \in Sups |-> "new"]
  /\ todo = [s \in Sups |-> Agents]
  /\ child = [s \in Sups |-> [a \in Agents |-> "none"]]
  /\ portOf \in [Sups -> Ports]
  /\ bound = {}
  /\ pidfile = Absent
  /\ opened = {}
  /\ statefile = {}
  /\ down = [d \in Downs |-> [at |-> "new", pid |-> Absent]]
  /\ solo = {}

-----------------------------------------------------------------------------
(* run and _run_async *)

\* PIDFILE.write_text opens and truncates the file, whoever wrote it ...
Boot(s) ==
  /\ sup[s] = "new"
  /\ Goto(s, "boot")
  /\ pidfile' = Empty
  /\ opened' = opened \cup {s}
  /\ solo' = LET met == {q \in Sups : Alive(q)} IN
               IF met = {} /\ \A d \in Downs : down[d].at \in {"new"} \cup Answers
                 THEN solo \cup {s} ELSE solo \ met
  /\ UNCHANGED <<todo, child, portOf, bound, statefile, down>>

\* ... and writes the pid; into nothing when the file was removed meanwhile.
WritePid(s) ==
  /\ sup[s] = "boot"
  /\ Goto(s, "bind")
  /\ pidfile' = IF s \in opened THEN s ELSE pidfile
  /\ opened' = opened \ {s}
  /\ UNCHANGED <<todo, child, portOf, bound, statefile, down, solo>>

\* The workspace API listens in this process.
Bind(s) ==
  /\ sup[s] = "bind" /\ \A q \in bound : portOf[q] # portOf[s]
  /\ Goto(s, "spawn")
  /\ bound' = bound \cup {s}
  /\ UNCHANGED <<todo, child, portOf, pidfile, opened, statefile, down, solo>>

\* The port is taken, the directory cannot be made, the manifest is wrong.
BindFails(s) ==
  /\ sup[s] = "bind"
  /\ Goto(s, "failing")
  /\ UNCHANGED <<todo, child, portOf, bound, pidfile, opened, statefile, down, solo>>

Spawn(s, a) ==
  /\ sup[s] = "spawn" /\ a \in todo[s]
  /\ todo' = [todo EXCEPT ![s] = @ \ {a}]
  /\ child' = [child EXCEPT ![s][a] = "alive"]
  /\ UNCHANGED <<sup, portOf, bound, pidfile, opened, statefile, down, solo>>

\* An agent without a HERMES_HOME is left out.
Skip(s, a) ==
  /\ sup[s] = "spawn" /\ a \in todo[s]
  /\ todo' = [todo EXCEPT ![s] = @ \ {a}]
  /\ UNCHANGED <<sup, child, portOf, bound, pidfile, opened, statefile, down, solo>>

\* No gateway on PATH, no log file, no process, no state file: an exception
\* that ends asyncio.run, and the listener with it.
SpawnFails(s) ==
  /\ sup[s] = "spawn"
  /\ Goto(s, "failing")
  /\ bound' = bound \ {s}
  /\ UNCHANGED <<todo, child, portOf, pidfile, opened, statefile, down, solo>>

\* The state file is written and the signal handlers and the watchdog installed.
Ready(s) ==
  /\ sup[s] = "spawn" /\ todo[s] = {}
  /\ Goto(s, "ready")
  /\ statefile' = {s}
  /\ UNCHANGED <<todo, child, portOf, bound, pidfile, opened, down, solo>>

\* Mutant: the watchdog does not stop the stack.
Watchdog_Logs(s) == FALSE /\ UNCHANGED vars /\ s \in Sups

\* The watchdog finds an agent dead and stops the whole stack.
Watchdog(s) ==
  /\ sup[s] = "ready" /\ \E a \in Agents : child[s][a] = "dead"
  /\ Goto(s, "stop")
  /\ UNCHANGED <<todo, child, portOf, bound, pidfile, opened, statefile, down, solo>>

-----------------------------------------------------------------------------
(* _shutdown *)

\* Mutant: the listener is closed before the agents are awaited.
Terminate_FreesPort(s) ==
  /\ sup[s] = "stop"
  /\ Goto(s, "stopping")
  /\ child' = [child EXCEPT ![s] = [a \in Agents |->
                 IF Runs(s, a) THEN "termed" ELSE child[s][a]]]
  /\ bound' = bound \ {s}
  /\ UNCHANGED <<todo, portOf, pidfile, opened, statefile, down, solo>>

\* SIGTERM to every agent that still runs.
Terminate(s) ==
  /\ sup[s] = "stop"
  /\ Goto(s, "stopping")
  /\ child' = [child EXCEPT ![s] = [a \in Agents |->
                 IF Runs(s, a) THEN "termed" ELSE child[s][a]]]
  /\ UNCHANGED <<todo, portOf, bound, pidfile, opened, statefile, down, solo>>

\* Mutant: an agent that does not stop in time is only logged.
KillRest_Logs(s) ==
  /\ sup[s] = "stopping"
  /\ Goto(s, "draining")
  /\ UNCHANGED <<todo, child, portOf, bound, pidfile, opened, statefile, down, solo>>

\* All agents have exited, or ten seconds have passed and the rest is killed.
KillRest(s) ==
  /\ sup[s] = "stopping"
  /\ Goto(s, "draining")
  /\ child' = [child EXCEPT ![s] = [a \in Agents |->
                 IF Runs(s, a) THEN "dead" ELSE child[s][a]]]
  /\ UNCHANGED <<todo, portOf, bound, pidfile, opened, statefile, down, solo>>

\* runner.cleanup has closed the listener and its connections; the loop ends.
Drain(s) ==
  /\ sup[s] = "draining"
  /\ Goto(s, "leaving")
  /\ bound' = bound \ {s}
  /\ UNCHANGED <<todo, child, portOf, pidfile, opened, statefile, down, solo>>

\* _cleanup_state removes both files, whoever wrote them, and the process ends.
\* Agents that are left when an exception ended it go on, or are killed by the
\* destructor of their transport.
Cleanup(s) ==
  /\ sup[s] \in Leaving
  /\ Goto(s, IF sup[s] = "leaving" THEN "exited" ELSE "failed")
  /\ pidfile' = Absent /\ opened' = {}
  /\ statefile' = {}
  /\ \E K \in SUBSET {a \in Agents : Runs(s, a)} :
       child' = [child EXCEPT ![s] = [a \in Agents |-> IF a \in K THEN "dead" ELSE @[a]]]
  /\ UNCHANGED <<todo, portOf, bound, down, solo>>

-----------------------------------------------------------------------------
(* The agents and the terminal *)

\* An agent crashes, finds its port taken, or obeys a signal.
ChildExits(s, a) ==
  /\ Runs(s, a)
  /\ child' = [child EXCEPT ![s][a] = "dead"]
  /\ UNCHANGED <<sup, todo, portOf, bound, pidfile, opened, statefile, down, solo>>

\* What SIGTERM (its default action before and after the handlers are installed)
\* and SIGKILL do to an `up` process.
Term(s) ==
  /\ Goto(s, CASE sup[s] \in Starting \cup Leaving -> "killed"
               [] sup[s] = "ready" -> "stop"
               [] OTHER -> sup[s])
  /\ bound' = IF sup[s] \in Starting THEN bound \ {s} ELSE bound
  /\ opened' = IF sup[s] \in Starting THEN opened \ {s} ELSE opened

Kill(s) ==
  /\ sup' = IF Alive(s) THEN [sup EXCEPT ![s] = "killed"] ELSE sup
  /\ bound' = bound \ {s}
  /\ opened' = opened \ {s}

\* Ctrl-C goes to the process and its agents: a handler or an exception stops it.
Interrupt(s) ==
  /\ sup[s] \in {"bind", "spawn", "ready"}
  /\ Goto(s, IF sup[s] = "ready" THEN "stop" ELSE "failing")
  /\ bound' = IF sup[s] = "ready" THEN bound ELSE bound \ {s}
  /\ child' = [child EXCEPT ![s] = [a \in Agents |->
                 IF Runs(s, a) THEN "termed" ELSE child[s][a]]]
  /\ UNCHANGED <<todo, portOf, pidfile, opened, statefile, down, solo>>

-----------------------------------------------------------------------------
(* stop_running, step by step as another process *)

Step(d, l) == down' = [down EXCEPT ![d].at = l]

\* PIDFILE.exists()
DownLooks(d) ==
  /\ down[d].at = "new"
  /\ Step(d, IF pidfile = Absent THEN "none" ELSE "read")
  /\ solo' = solo \ {s \in Sups : sup[s] = "boot"}
  /\ UNCHANGED <<sup, todo, child, portOf, bound, pidfile, opened, statefile>>

\* Mutant: an empty file is not told from a pid.
DownReads_Unchecked(d) ==
  /\ down[d].at = "read" /\ pidfile # Absent
  /\ down' = [down EXCEPT ![d] = [at |-> "kill", pid |-> pidfile]]
  /\ UNCHANGED <<sup, todo, child, portOf, bound, pidfile, opened, statefile, solo>>

\* read_text and int: the file may be gone or empty by now.
DownReads(d) ==
  /\ down[d].at = "read"
  /\ down' = [down EXCEPT ![d] =
       CASE pidfile = Absent -> [@ EXCEPT !.at = "crashed"]
         [] pidfile = Empty  -> [@ EXCEPT !.at = "corrupt"]
         [] OTHER            -> [at |-> "kill", pid |-> pidfile]]
  /\ IF pidfile = Empty THEN pidfile' = Absent /\ opened' = {}
                        ELSE UNCHANGED <<pidfile, opened>>
  /\ UNCHANGED <<sup, todo, child, portOf, bound, statefile, solo>>

\* Mutant: the files are removed as soon as the signal is sent.
DownSignals_Unlinks(d) ==
  /\ down[d].at = "kill" /\ Alive(down[d].pid)
  /\ Step(d, "poll")
  /\ Term(down[d].pid)
  /\ pidfile' = Absent
  /\ statefile' = {}
  /\ UNCHANGED <<todo, child, portOf, solo>>

\* os.kill(pid, SIGTERM).
DownSignals(d) ==
  /\ down[d].at = "kill" /\ Alive(down[d].pid)
  /\ Step(d, "poll")
  /\ Term(down[d].pid)
  /\ UNCHANGED <<todo, child, portOf, pidfile, statefile, solo>>

\* ProcessLookupError: the files are taken for stale, whoever wrote them since.
DownFindsStale(d) ==
  /\ down[d].at = "kill" /\ ~Alive(down[d].pid)
  /\ Step(d, "stale")
  /\ pidfile' = Absent /\ opened' = {}
  /\ statefile' = {}
  /\ UNCHANGED <<sup, todo, child, portOf, bound, solo>>

\* The process is seen gone within 15 s.
DownSeesGone(d) ==
  /\ down[d].at = "poll" /\ ~Alive(down[d].pid)
  /\ Step(d, "stopped")
  /\ UNCHANGED <<sup, todo, child, portOf, bound, pidfile, opened, statefile, solo>>

\* It is not: SIGKILL.
DownEscalates(d) ==
  /\ down[d].at = "poll"
  /\ Step(d, "escalated")
  /\ Kill(down[d].pid)
  /\ UNCHANGED <<todo, child, portOf, pidfile, statefile, solo>>

-----------------------------------------------------------------------------
Own(s) == \/ Boot(s) \/ WritePid(s) \/ Bind(s) \/ BindFails(s)
          \/ (\E a \in Agents : Spawn(s, a) \/ Skip(s, a)) \/ SpawnFails(s) \/ Ready(s)
          \/ Watchdog(s) \/ Terminate(s) \/ KillRest(s) \/ Drain(s) \/ Cleanup(s)

DownStep(d) == \/ DownLooks(d) \/ DownReads(d) \/ DownSignals(d) \/ DownFindsStale(d)
               \/ DownSeesGone(d) \/ DownEscalates(d)

Next == \/ \E s \in Sups : \/ Own(s) \/ Interrupt(s)
                           \/ \E a \in Agents : ChildExits(s, a)
        \/ \E d \in Downs : DownStep(d)

Spec == Init /\ [][Next]_vars

\* A supervisor that runs goes on, its watchdog and its timeouts included;
\* agents may ignore every signal but SIGKILL.
FairSpec == Spec /\ \A s \in Sups : WF_vars(Own(s))

-----------------------------------------------------------------------------
\* A supervisor that stopped in its own way, whatever signals, timeouts and
\* further `down`s it met on the way, leaves no agent behind.
StopLeavesNoAgent ==
  \A s \in Sups : sup[s] \in {"leaving", "exited"} => \A a \in Agents : ~Runs(s, a)

\* Of two `up`s on one port, an overlapping restart say, never both run agents
\* while both spawn, serve or shut down: the port is bound before the first
\* agent is spawned and kept until the last is awaited or killed.  One that
\* failed or was killed has given up its port, and its agents may be left beside
\* those of the next; and so may stacks on two ports, on the same pid file.
StacksDoNotOverlap ==
  \A s, q \in Sups : \A a, b \in Agents :
    s # q /\ portOf[s] = portOf[q] /\ {sup[s], sup[q]} \subseteq {"spawn"} \cup Serving
      => ~(Runs(s, a) /\ Runs(q, b))

\* `down` and `status` find a supervisor that met no other one, also when an
\* earlier `down` has already signalled it and given up or not yet.
FilesNameTheSupervisor ==
  \A s \in solo : sup[s] \in Serving => pidfile = s /\ statefile = {s}

\* A dead agent takes its whole stack down: the supervisor ends, and with it
\* the agents that ignore SIGTERM, unless a `down` kills it first.
DeadAgentStopsStack ==
  \A s \in Sups :
    sup[s] = "ready" /\ (\E a \in Agents : child[s][a] = "dead")
      ~> sup[s] = "killed" \/ (sup[s] = "exited" /\ \A a \in Agents : ~Runs(s, a))

\* docs/deploy-local.md:164, "Stop detached stack | `hermes-adapter down`": it
\* does not answer that none is running while a supervisor serves.
DownFindsTheStack ==
  [][\A d \in Downs : down[d].at = "new" /\ down'[d].at = "none"
       => \A s \in Sups : sup[s] # "ready"]_vars
=============================================================================
