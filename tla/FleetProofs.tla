--------------------------- MODULE FleetProofs ---------------------------
(***************************************************************************)
(* Proofs about FleetClaim and FleetHost, for any agents, users, requests, *)
(* status calls and bounds: the type invariants, the safety properties of  *)
(* a call, what ./fleet up leaves alone, and what a status row tells.      *)
(* What is proved of the mounts does not say whether containers run, which *)
(* ./fleet down changes: FleetHost's proofs share it with FleetClaim's.    *)
(***************************************************************************)
EXTENDS FleetHost, TLAPS

-----------------------------------------------------------------------------
(* The inductive invariant *)

\* A compose process belongs to a handler that awaits it or that a crash took.
ProcessHasOwner ==
  \A r \in Requests :
    /\ pc[r] = "compose" => comp[r] # "none"
    /\ comp[r] # "none" => pc[r] \in {"compose", "lost"}

\* Two live requests on one agent both know that they are not alone.
OverlapIsShared ==
  \A r, q \in Requests :
    r # q /\ Live(r) /\ Live(q) /\ AgentOf(r) = AgentOf(q) => r \in shared

\* What a request that is alone has established, step by step.
AloneProgress ==
  \A r \in Requests \ shared :
    /\ comp[r] # "none" \/ pc[r] \in {"health", "inspect"}
         => override[AgentOf(r)] = {Want(r)}
    /\ comp[r] \in {"loaded", "stopped", "started"} => snap[r] = {Want(r)}
    /\ comp[r] = "started" \/ pc[r] \in {"health", "inspect"}
         => container[AgentOf(r)].cfg = Want(r)

\* Whatever a compose process has read, or can still read, was asked for.
WantedCovers ==
  \A r \in Requests :
    /\ Live(r) => Want(r) \in wanted[AgentOf(r)]
    /\ comp[r] # "none" => Effective(AgentOf(r)) \subseteq wanted[AgentOf(r)]
    /\ comp[r] \in {"loaded", "stopped", "started"} => snap[r] \subseteq wanted[AgentOf(r)]

\* An orphan process has left its agent in doubt.
OrphanIsTrouble ==
  \A r \in Requests : pc[r] = "lost" /\ comp[r] # "none" => AgentOf(r) \in trouble

\* A quiet agent out of doubt has the mount its override file says.
QuietMount ==
  \A a \in Agents \ trouble :
    (\A r \in Requests : AgentOf(r) = a => ~Live(r)) => Effective(a) = {container[a].cfg}

IInv == /\ TypeOK
        /\ ProcessHasOwner
        /\ OverlapIsShared
        /\ AloneProgress
        /\ WantedCovers
        /\ OrphanIsTrouble
        /\ QuietMount

-----------------------------------------------------------------------------
(* Typing *)

\* What a request writes is a configuration, of one of the agents.
LEMMA WantIsConfig ==
  ASSUME TypeOK, NEW r \in Requests
  PROVE  /\ AgentOf(r) \in Agents
         /\ Want(r) \in Config
         /\ Sentinel \in Config
  BY DEF TypeOK, AgentOf, Want, Job, Config, Sentinel

\* What docker compose reads is made of configurations.
LEMMA EffectiveIsConfig ==
  ASSUME TypeOK, NEW a \in Agents
  PROVE  Effective(a) \subseteq Config
  BY DEF TypeOK, Effective, Config, Sentinel

\* A step of the orchestrator keeps the types.
LEMMA TypeKeeps ==
  ASSUME TypeOK, [Next]_vars
  PROVE  TypeOK'
<1>1. CASE UNCHANGED vars
  BY <1>1 DEF TypeOK, vars, real, ghost
<1>2. CASE Crash
  <2>1. pc' \in [Requests -> {"idle", "lost"} \cup Active \cup Answers]
    BY <1>2 DEF Crash, TypeOK
  <2>2. comp' \in [Requests -> {"none"} \cup Running]
    BY <1>2 DEF Crash, TypeOK
  <2>3. crashes' \in 0..MaxCrashes
    BY <1>2, FleetAssumption DEF Crash, TypeOK
  <2>4. trouble' \subseteq Agents
    BY <1>2, WantIsConfig DEF Crash, TypeOK
  <2>5. QED
    BY <1>2, <2>1, <2>2, <2>3, <2>4 DEF Crash, TypeOK
<1>3. ASSUME NEW r \in Requests, Handler(r)
      PROVE  TypeOK'
  <2>0. AgentOf(r) \in Agents /\ Want(r) \in Config /\ Sentinel \in Config
    BY WantIsConfig
  <2>1. CASE Reject(r)
    BY <2>1 DEF Reject, TypeOK, Goto, Answers, ghost
  <2>2. CASE BeginWrite(r)
    <3>1. wanted' \in [Agents -> SUBSET Config]
      BY <2>0, <2>2 DEF BeginWrite, TypeOK
    <3>2. shared' \subseteq Requests
      BY <2>2 DEF BeginWrite, TypeOK, Others
    <3>3. QED
      BY <2>0, <2>2, <3>1, <3>2 DEF BeginWrite, TypeOK, Goto, Active
  <2>3. CASE FinishWrite(r)
    BY <2>0, <2>3 DEF FinishWrite, TypeOK, Goto, Active, Running, ghost
  <2>4. CASE WriteFails(r)
    BY <2>0, <2>4 DEF WriteFails, TypeOK, Ends, Goto, Answers
  <2>5. CASE ComposeExits(r)
    BY <2>5 DEF ComposeExits, TypeOK, Goto, Active, ghost
  <2>6. CASE ComposeFails(r)
    BY <2>0, <2>6 DEF ComposeFails, TypeOK, Ends, Goto, Answers
  <2>7. CASE ComposeTimeout(r)
    BY <2>0, <2>7 DEF ComposeTimeout, TypeOK, Ends, Goto, Answers
  <2>8. CASE HealthOk(r)
    BY <2>8 DEF HealthOk, TypeOK, Goto, Active, ghost
  <2>9. CASE HealthTimeout(r)
    BY <2>0, <2>9 DEF HealthTimeout, TypeOK, Ends, Goto, Answers
  <2>10. CASE InspectAndAnswer(r)
    BY <2>0, <2>10 DEF InspectAndAnswer, TypeOK, Ends, Goto, Answers
  <2>11. QED
    BY <1>3, <2>1, <2>2, <2>3, <2>4, <2>5, <2>6, <2>7, <2>8, <2>9, <2>10 DEF Handler
<1>4. ASSUME NEW r \in Requests, Docker(r)
      PROVE  TypeOK'
  <2>0. AgentOf(r) \in Agents /\ Want(r) \in Config /\ Sentinel \in Config
    BY WantIsConfig
  <2>1. CASE ComposeLoads(r)
    BY <2>0, <2>1, EffectiveIsConfig DEF ComposeLoads, TypeOK, Running, ghost
  <2>2. CASE ComposeStops(r)
    BY <2>0, <2>2 DEF ComposeStops, TypeOK, Running, ghost
  <2>3. CASE ComposeStarts(r)
    BY <2>0, <2>3 DEF ComposeStarts, Mounts, TypeOK, Running
  <2>4. CASE OrphanEnds(r)
    BY <2>4 DEF OrphanEnds, TypeOK, ghost
  <2>5. QED
    BY <1>4, <2>1, <2>2, <2>3, <2>4 DEF Docker
<1>5. QED
  BY <1>1, <1>2, <1>3, <1>4 DEF Next

\* Every variable of the orchestrator keeps its type.
THEOREM TypeCorrect == Spec => []TypeOK
<1>1. Init => TypeOK
  BY FleetAssumption DEF Init, TypeOK, Config, Sentinel
<1>2. TypeOK /\ [Next]_vars => TypeOK'
  BY TypeKeeps
<1>3. QED
  BY <1>1, <1>2, PTL DEF Spec

-----------------------------------------------------------------------------
(* The invariant is inductive: one lemma per action *)

\* A step of one request disturbs no other agent's rest: what remains to show is
\* its own agent's.
LEMMA RestElsewhere ==
  ASSUME TypeOK, QuietMount, NEW r \in Requests,
         job' = job,
         \A q \in Requests \ {r} : pc'[q] = pc[q] /\ comp'[q] = comp[q],
         \A a \in Agents \ {AgentOf(r)} :
           /\ override'[a] = override[a] /\ container'[a] = container[a]
           /\ a \in trouble => a \in trouble',
         \/ Live(r)'
         \/ AgentOf(r) \in trouble'
         \/ Effective(AgentOf(r))' = {container'[AgentOf(r)].cfg}
  PROVE  QuietMount'
<1> SUFFICES ASSUME NEW a \in Agents \ trouble',
                    \A q \in Requests : AgentOf(q)' = a => ~Live(q)'
             PROVE  Effective(a)' = {container'[a].cfg}
  BY DEF QuietMount
<1>1. CASE a = AgentOf(r)
  BY <1>1 DEF AgentOf
<1>2. CASE a # AgentOf(r)
  <2>1. a \notin trouble
    BY <1>2
  <2>2. \A q \in Requests : AgentOf(q) = a => ~Live(q)
    BY <1>2 DEF Live, AgentOf
  <2>3. Effective(a) = {container[a].cfg}
    BY <2>1, <2>2 DEF QuietMount
  <2>4. QED
    BY <1>2, <2>3 DEF Effective
<1>3. QED
  BY <1>1, <1>2

\* A rejected request touches nothing.
LEMMA RejectKeeps ==
  ASSUME IInv, TypeOK', NEW r \in Requests, Reject(r)
  PROVE  IInv'
<1> USE DEF IInv, TypeOK
<1>1. ProcessHasOwner'
  BY DEF ProcessHasOwner, Reject, Goto
<1>2. OverlapIsShared'
  BY DEF OverlapIsShared, Live, AgentOf, Reject, Active, Goto, ghost
<1>3. AloneProgress'
  BY DEF AloneProgress, AgentOf, Want, Reject, Goto, ghost
<1>4. WantedCovers'
  BY DEF WantedCovers, Live, AgentOf, Want, Effective, Reject, Active, Goto, ghost
<1>5. OrphanIsTrouble'
  BY DEF OrphanIsTrouble, AgentOf, Reject, Goto, ghost
<1>6. QuietMount'
  BY DEF QuietMount, Live, AgentOf, Effective, Reject, Active, Goto, ghost
<1>7. QED
  BY <1>1, <1>2, <1>3, <1>4, <1>5, <1>6

\* Truncating the override puts its own request on the way and its value
\* among the wanted ones.
LEMMA BeginWriteKeeps ==
  ASSUME IInv, TypeOK', NEW r \in Requests, BeginWrite(r)
  PROVE  IInv'
<1> USE DEF IInv, TypeOK
<1>1. ProcessHasOwner'
  BY DEF ProcessHasOwner, BeginWrite, Goto
<1>2. OverlapIsShared'
  BY DEF OverlapIsShared, Live, AgentOf, BeginWrite, Goto, Others
<1>3. AloneProgress'
  <2> SUFFICES ASSUME NEW q \in Requests \ shared',
                      comp[q] # "none" \/ pc'[q] \in {"health", "inspect"}
               PROVE  /\ q # r /\ AgentOf(q) # AgentOf(r)
    BY WantIsConfig DEF AloneProgress, AgentOf, Want, BeginWrite, Goto
  <2>1. q # r
    BY DEF BeginWrite, Goto, ProcessHasOwner
  <2>2. q \notin Others(r)
    BY DEF BeginWrite
  <2>3. Live(q)
    BY <2>1 DEF BeginWrite, Goto, Live, Active
  <2>4. QED
    BY <2>1, <2>2, <2>3 DEF Others
<1>4. WantedCovers'
  <2>1. comp[r] = "none" /\ ~Live(r)
    BY DEF BeginWrite, ProcessHasOwner, Live, Active
  <2>2. AgentOf(r) \in Agents /\ Want(r) \in wanted'[AgentOf(r)]
    BY WantIsConfig DEF BeginWrite
  <2>3. ASSUME NEW q \in Requests \ {r}, Live(q), AgentOf(q) = AgentOf(r)
        PROVE  /\ wanted[AgentOf(r)] \subseteq wanted'[AgentOf(r)]
               /\ Sentinel \in wanted'[AgentOf(r)]
    <3>1. Others(r) # {}
      BY <2>3 DEF Others
    <3>2. QED
      BY <2>2, <3>1 DEF BeginWrite
  <2>4. Effective(AgentOf(r))' = {Sentinel}
    BY <2>2 DEF BeginWrite, Effective, AgentOf
  <2>5. \A a \in Agents : a # AgentOf(r) =>
          Effective(a)' = Effective(a) /\ wanted'[a] = wanted[a]
    BY DEF BeginWrite, Effective
  <2>6. \A q \in Requests \ {r} :
          (Live(q)' <=> Live(q)) /\ comp'[q] = comp[q] /\ snap'[q] = snap[q]
    BY DEF BeginWrite, Goto, Live
  <2>7. \A q \in Requests : AgentOf(q)' = AgentOf(q) /\ Want(q)' = Want(q)
    BY DEF BeginWrite, AgentOf, Want
  <2>8. ASSUME NEW q \in Requests \ {r}
        PROVE  /\ Live(q) => Want(q) \in wanted'[AgentOf(q)]
               /\ comp[q] # "none" =>
                    \A a \in Agents : a = AgentOf(q) => Effective(a)' \subseteq wanted'[a]
               /\ comp[q] \in {"loaded", "stopped", "started"} =>
                    snap[q] \subseteq wanted'[AgentOf(q)]
    <3>1. CASE AgentOf(q) = AgentOf(r)
      <4>1. CASE ~Live(q)
        BY <4>1 DEF Live
      <4>2. CASE Live(q)
        <5>1. /\ wanted[AgentOf(r)] \subseteq wanted'[AgentOf(r)]
              /\ Sentinel \in wanted'[AgentOf(r)]
          BY <2>3, <3>1, <4>2
        <5>2. \A a \in Agents : a = AgentOf(r) => Effective(a)' = {Sentinel}
          BY <2>2, <2>4, <2>7
        <5>3. QED
          BY <3>1, <4>2, <5>1, <5>2 DEF WantedCovers
      <4>3. QED
        BY <4>1, <4>2
    <3>2. CASE AgentOf(q) # AgentOf(r)
      <4>1. AgentOf(q) \in Agents
        BY WantIsConfig
      <4>2. QED
        BY <2>5, <3>2, <4>1 DEF WantedCovers
    <3>3. QED
      BY <3>1, <3>2
  <2>9. QED
    BY <2>1, <2>2, <2>6, <2>7, <2>8, WantIsConfig DEF WantedCovers, BeginWrite
<1>5. OrphanIsTrouble'
  BY DEF OrphanIsTrouble, AgentOf, BeginWrite, Goto
<1>6. QuietMount'
  BY DEF QuietMount, Live, AgentOf, Effective, BeginWrite, Active, Goto
<1>7. QED
  BY <1>1, <1>2, <1>3, <1>4, <1>5, <1>6

\* The file then says what the request wants.
LEMMA FinishWriteKeeps ==
  ASSUME IInv, TypeOK', NEW r \in Requests, FinishWrite(r)
  PROVE  IInv'
<1> USE DEF IInv, TypeOK
<1>1. ProcessHasOwner'
  BY DEF ProcessHasOwner, FinishWrite, Goto
<1>2. OverlapIsShared'
  BY DEF OverlapIsShared, Live, AgentOf, FinishWrite, Active, Goto, ghost
<1>3. AloneProgress'
  BY DEF AloneProgress, Live, AgentOf, Want, FinishWrite, Active, Goto, ghost,
    OverlapIsShared
<1>4. WantedCovers'
  <2>1. Want(r) \in wanted[AgentOf(r)]
    BY DEF FinishWrite, WantedCovers, Live, Active
  <2>2. \A q \in Requests : Live(q)' => Live(q)
    BY DEF FinishWrite, Goto, Live, Active
  <2>3. Effective(AgentOf(r))' \subseteq wanted[AgentOf(r)]
    BY <2>1, WantIsConfig DEF FinishWrite, Effective, AgentOf
  <2>4. \A a \in Agents : a # AgentOf(r) => Effective(a)' = Effective(a)
    BY DEF FinishWrite, Effective
  <2>5. QED
    BY <2>2, <2>3, <2>4, WantIsConfig DEF FinishWrite, WantedCovers, AgentOf, Want,
      ghost
<1>5. OrphanIsTrouble'
  BY DEF OrphanIsTrouble, AgentOf, FinishWrite, Goto, ghost
<1>6. QuietMount'
  <2>1. /\ job' = job
        /\ \A q \in Requests \ {r} : pc'[q] = pc[q] /\ comp'[q] = comp[q]
        /\ \A a \in Agents \ {AgentOf(r)} :
             /\ override'[a] = override[a] /\ container'[a] = container[a]
             /\ a \in trouble => a \in trouble'
    BY DEF FinishWrite, Goto, ghost
  <2>2. Live(r)'
    BY DEF FinishWrite, Live
  <2>3. QED
    BY <2>1, <2>2, RestElsewhere
<1>7. QED
  BY <1>1, <1>2, <1>3, <1>4, <1>5, <1>6

\* A write that raises leaves its agent in doubt.
LEMMA WriteFailsKeeps ==
  ASSUME IInv, TypeOK', NEW r \in Requests, WriteFails(r)
  PROVE  IInv'
<1> USE DEF IInv, TypeOK
<1>1. ProcessHasOwner'
  BY DEF ProcessHasOwner, WriteFails, Goto, Ends
<1>2. OverlapIsShared'
  BY DEF OverlapIsShared, Live, AgentOf, WriteFails, Active, Goto, Ends
<1>3. AloneProgress'
  BY DEF AloneProgress, AgentOf, Want, WriteFails, Goto, Ends
<1>4. WantedCovers'
  BY DEF WantedCovers, Live, AgentOf, Want, Effective, WriteFails, Active, Goto, Ends
<1>5. OrphanIsTrouble'
  BY DEF OrphanIsTrouble, AgentOf, WriteFails, Goto, Ends
<1>6. QuietMount'
  <2>1. /\ job' = job
        /\ \A q \in Requests \ {r} : pc'[q] = pc[q] /\ comp'[q] = comp[q]
        /\ \A a \in Agents \ {AgentOf(r)} :
             /\ override'[a] = override[a] /\ container'[a] = container[a]
             /\ a \in trouble => a \in trouble'
    BY DEF WriteFails, Ends, Goto
  <2>2. AgentOf(r) \in trouble'
    BY DEF WriteFails, Ends
  <2>3. QED
    BY <2>1, <2>2, RestElsewhere
<1>7. QED
  BY <1>1, <1>2, <1>3, <1>4, <1>5, <1>6

\* A request that was alone goes on from a container that is as it wants.
LEMMA ComposeExitsKeeps ==
  ASSUME IInv, TypeOK', NEW r \in Requests, ComposeExits(r)
  PROVE  IInv'
<1> USE DEF IInv, TypeOK
<1>1. ProcessHasOwner'
  BY DEF ProcessHasOwner, ComposeExits, Goto
<1>2. OverlapIsShared'
  BY DEF OverlapIsShared, Live, AgentOf, ComposeExits, Goto, ghost
<1>3. AloneProgress'
  BY DEF AloneProgress, AgentOf, Want, ComposeExits, Goto, ghost
<1>4. WantedCovers'
  BY DEF WantedCovers, Live, AgentOf, Want, Effective, ComposeExits, Goto, ghost
<1>5. OrphanIsTrouble'
  BY DEF OrphanIsTrouble, AgentOf, ComposeExits, Goto, ghost
<1>6. QuietMount'
  BY DEF QuietMount, Live, AgentOf, Effective, ComposeExits, Active, Goto,
    ghost, OrphanIsTrouble, AloneProgress, Want
<1>7. QED
  BY <1>1, <1>2, <1>3, <1>4, <1>5, <1>6

\* A failed compose leaves its agent in doubt.
LEMMA ComposeFailsKeeps ==
  ASSUME IInv, TypeOK', NEW r \in Requests, ComposeFails(r)
  PROVE  IInv'
<1> USE DEF IInv, TypeOK
<1>1. ProcessHasOwner'
  BY DEF ProcessHasOwner, ComposeFails, Goto, Ends
<1>2. OverlapIsShared'
  BY DEF OverlapIsShared, Live, AgentOf, ComposeFails, Goto, Ends
<1>3. AloneProgress'
  BY DEF AloneProgress, Live, AgentOf, Want, ComposeFails, Active, Goto, Ends,
    Answers, OverlapIsShared, ProcessHasOwner
<1>4. WantedCovers'
  BY DEF WantedCovers, Live, AgentOf, Want, Effective, ComposeFails, Goto, Ends
<1>5. OrphanIsTrouble'
  BY DEF OrphanIsTrouble, AgentOf, ComposeFails, Goto, Ends
<1>6. QuietMount'
  <2>1. /\ job' = job
        /\ \A q \in Requests \ {r} : pc'[q] = pc[q] /\ comp'[q] = comp[q]
        /\ \A a \in Agents \ {AgentOf(r)} :
             /\ override'[a] = override[a] /\ container'[a] = container[a]
             /\ a \in trouble => a \in trouble'
    BY DEF ComposeFails, Ends, Goto
  <2>2. AgentOf(r) \in trouble'
    BY DEF ComposeFails, Ends
  <2>3. QED
    BY <2>1, <2>2, RestElsewhere
<1>7. QED
  BY <1>1, <1>2, <1>3, <1>4, <1>5, <1>6

\* So does a killed one.
LEMMA ComposeTimeoutKeeps ==
  ASSUME IInv, TypeOK', NEW r \in Requests, ComposeTimeout(r)
  PROVE  IInv'
<1> USE DEF IInv, TypeOK
<1>1. ProcessHasOwner'
  BY DEF ProcessHasOwner, ComposeTimeout, Goto, Ends
<1>2. OverlapIsShared'
  BY DEF OverlapIsShared, Live, AgentOf, ComposeTimeout, Active, Goto, Ends
<1>3. AloneProgress'
  BY DEF AloneProgress, AgentOf, Want, ComposeTimeout, Goto, Ends
<1>4. WantedCovers'
  BY DEF WantedCovers, Live, AgentOf, Want, Effective, ComposeTimeout, Active, Goto,
    Ends
<1>5. OrphanIsTrouble'
  BY DEF OrphanIsTrouble, AgentOf, ComposeTimeout, Goto, Ends
<1>6. QuietMount'
  <2>1. /\ job' = job
        /\ \A q \in Requests \ {r} : pc'[q] = pc[q] /\ comp'[q] = comp[q]
        /\ \A a \in Agents \ {AgentOf(r)} :
             /\ override'[a] = override[a] /\ container'[a] = container[a]
             /\ a \in trouble => a \in trouble'
    BY DEF ComposeTimeout, Ends, Goto
  <2>2. AgentOf(r) \in trouble'
    BY DEF ComposeTimeout, Ends
  <2>3. QED
    BY <2>1, <2>2, RestElsewhere
<1>7. QED
  BY <1>1, <1>2, <1>3, <1>4, <1>5, <1>6

\* A healthy container is as it was before it was asked.
LEMMA HealthOkKeeps ==
  ASSUME IInv, TypeOK', NEW r \in Requests, HealthOk(r)
  PROVE  IInv'
<1> USE DEF IInv, TypeOK
<1>1. ProcessHasOwner'
  BY DEF ProcessHasOwner, HealthOk, Goto
<1>2. OverlapIsShared'
  BY DEF OverlapIsShared, Live, AgentOf, HealthOk, Active, Goto, ghost
<1>3. AloneProgress'
  BY DEF AloneProgress, AgentOf, Want, HealthOk, Goto, ghost
<1>4. WantedCovers'
  BY DEF WantedCovers, Live, AgentOf, Want, Effective, HealthOk, Active, Goto, ghost
<1>5. OrphanIsTrouble'
  BY DEF OrphanIsTrouble, AgentOf, HealthOk, Goto, ghost
<1>6. QuietMount'
  BY DEF QuietMount, Live, AgentOf, Effective, HealthOk, Active, Goto, ghost
<1>7. QED
  BY <1>1, <1>2, <1>3, <1>4, <1>5, <1>6

\* A claim whose container is never healthy leaves its agent in doubt.
LEMMA HealthTimeoutKeeps ==
  ASSUME IInv, TypeOK', NEW r \in Requests, HealthTimeout(r)
  PROVE  IInv'
<1> USE DEF IInv, TypeOK
<1>1. ProcessHasOwner'
  BY DEF ProcessHasOwner, HealthTimeout, Goto, Ends
<1>2. OverlapIsShared'
  BY DEF OverlapIsShared, Live, AgentOf, HealthTimeout, Active, Goto, Ends
<1>3. AloneProgress'
  BY DEF AloneProgress, AgentOf, Want, HealthTimeout, Goto, Ends
<1>4. WantedCovers'
  BY DEF WantedCovers, Live, AgentOf, Want, Effective, HealthTimeout, Active, Goto, Ends
<1>5. OrphanIsTrouble'
  BY DEF OrphanIsTrouble, AgentOf, HealthTimeout, Goto, Ends
<1>6. QuietMount'
  <2>1. /\ job' = job
        /\ \A q \in Requests \ {r} : pc'[q] = pc[q] /\ comp'[q] = comp[q]
        /\ \A a \in Agents \ {AgentOf(r)} :
             /\ override'[a] = override[a] /\ container'[a] = container[a]
             /\ a \in trouble => a \in trouble'
    BY DEF HealthTimeout, Ends, Goto
  <2>2. AgentOf(r) \in trouble'
    BY DEF HealthTimeout, Ends
  <2>3. QED
    BY <2>1, <2>2, RestElsewhere
<1>7. QED
  BY <1>1, <1>2, <1>3, <1>4, <1>5, <1>6

\* An ok answer clears the doubt only of a request that was alone.
LEMMA InspectAndAnswerKeeps ==
  ASSUME IInv, TypeOK', NEW r \in Requests, InspectAndAnswer(r)
  PROVE  IInv'
<1> USE DEF IInv, TypeOK
<1>1. ProcessHasOwner'
  BY DEF ProcessHasOwner, InspectAndAnswer, Goto, Ends
<1>2. OverlapIsShared'
  BY DEF OverlapIsShared, Live, AgentOf, InspectAndAnswer, Active, Goto, Ends
<1>3. AloneProgress'
  BY DEF AloneProgress, AgentOf, Want, InspectAndAnswer, Goto, Ends
<1>4. WantedCovers'
  BY DEF WantedCovers, Live, AgentOf, Want, Effective, InspectAndAnswer, Active,
    Goto, Ends
<1>5. OrphanIsTrouble'
  BY DEF OrphanIsTrouble, AgentOf, InspectAndAnswer, Active, Goto, Ends,
    OverlapIsShared, Live
<1>6. QuietMount'
  <2>1. /\ job' = job /\ override' = override /\ container' = container
        /\ \A q \in Requests \ {r} : pc'[q] = pc[q] /\ comp'[q] = comp[q]
        /\ \A a \in Agents \ {AgentOf(r)} : a \in trouble => a \in trouble'
    BY DEF InspectAndAnswer, Ends, Goto
  <2>2. CASE r \in shared
    <3>1. AgentOf(r) \in trouble'
      BY <2>2 DEF InspectAndAnswer, Ends
    <3>2. QED
      BY <2>1, <3>1, RestElsewhere
  <2>3. CASE r \notin shared
    <3>1. /\ override[AgentOf(r)] = {Want(r)}
          /\ container[AgentOf(r)].cfg = Want(r)
      BY <2>3 DEF InspectAndAnswer, AloneProgress
    <3>2. Effective(AgentOf(r))' = {container'[AgentOf(r)].cfg}
      BY <2>1, <3>1 DEF Effective, AgentOf
    <3>3. QED
      BY <2>1, <3>2, RestElsewhere
  <2>4. QED
    BY <2>2, <2>3
<1>7. QED
  BY <1>1, <1>2, <1>3, <1>4, <1>5, <1>6

\* What compose loads is wanted, and the request's own when it is alone.
LEMMA ComposeLoadsKeeps ==
  ASSUME IInv, TypeOK', NEW r \in Requests, ComposeLoads(r)
  PROVE  IInv'
<1> USE DEF IInv, TypeOK
<1>1. ProcessHasOwner'
  BY DEF ProcessHasOwner, ComposeLoads
<1>2. OverlapIsShared'
  BY DEF OverlapIsShared, Live, AgentOf, ComposeLoads, ghost
<1>3. AloneProgress'
  <2>1. r \notin shared => snap'[r] = {Want(r)}
    BY DEF ComposeLoads, AloneProgress, Effective
  <2>2. QED
    BY <2>1 DEF ComposeLoads, AloneProgress, AgentOf, Want, ghost
<1>4. WantedCovers'
  BY DEF WantedCovers, Live, AgentOf, Want, Effective, ComposeLoads, ghost
<1>5. OrphanIsTrouble'
  BY DEF OrphanIsTrouble, AgentOf, ComposeLoads, ghost
<1>6. QuietMount'
  BY DEF QuietMount, Live, AgentOf, Effective, ComposeLoads, ghost
<1>7. QED
  BY <1>1, <1>2, <1>3, <1>4, <1>5, <1>6

\* Compose stops a container whose agent is not quiet.
LEMMA ComposeStopsKeeps ==
  ASSUME IInv, TypeOK', NEW r \in Requests, ComposeStops(r)
  PROVE  IInv'
<1> USE DEF IInv, TypeOK
<1>1. ProcessHasOwner'
  BY DEF ProcessHasOwner, ComposeStops
<1>2. OverlapIsShared'
  BY DEF OverlapIsShared, Live, AgentOf, ComposeStops, ghost
<1>3. AloneProgress'
  <2>1. \A a \in Agents : container'[a].cfg = container[a].cfg
    BY DEF ComposeStops
  <2>2. QED
    BY <2>1, WantIsConfig DEF AloneProgress, AgentOf, Want, ComposeStops, ghost
<1>4. WantedCovers'
  BY DEF WantedCovers, Live, AgentOf, Want, Effective, ComposeStops, ghost
<1>5. OrphanIsTrouble'
  BY DEF OrphanIsTrouble, AgentOf, ComposeStops, ghost
<1>6. QuietMount'
  <2>1. /\ job' = job
        /\ \A q \in Requests \ {r} : pc'[q] = pc[q] /\ comp'[q] = comp[q]
        /\ \A a \in Agents \ {AgentOf(r)} :
             /\ override'[a] = override[a] /\ container'[a] = container[a]
             /\ a \in trouble => a \in trouble'
    BY DEF ComposeStops, ghost
  <2>2. Live(r)'
    BY DEF ComposeStops, Live
  <2>3. QED
    BY <2>1, <2>2, RestElsewhere
<1>7. QED
  BY <1>1, <1>2, <1>3, <1>4, <1>5, <1>6

\* What compose starts is what it has loaded.
LEMMA ComposeStartsKeeps ==
  ASSUME IInv, TypeOK', NEW r \in Requests, ComposeStarts(r)
  PROVE  IInv'
<1> USE DEF IInv, TypeOK
<1>1. ProcessHasOwner'
  BY DEF ProcessHasOwner, ComposeStarts
<1>2. OverlapIsShared'
  BY DEF OverlapIsShared, Live, AgentOf, ComposeStarts
<1>3. AloneProgress'
  <2>1. r \notin shared =>
          container'[AgentOf(r)].cfg = Want(r)
    BY WantIsConfig DEF ComposeStarts, AloneProgress
  <2>2. ASSUME NEW q \in Requests \ shared, q # r, comp[q] # "none" \/ pc[q] \in {"health", "inspect"}
        PROVE  AgentOf(q) # AgentOf(r)
    BY <2>2 DEF ComposeStarts, OverlapIsShared, Live, Active
  <2>3. QED
    <3> SUFFICES ASSUME NEW q \in Requests \ shared
                 PROVE  /\ comp'[q] # "none" \/ pc[q] \in {"health", "inspect"}
                             => override[AgentOf(q)] = {Want(q)}
                        /\ comp'[q] \in {"loaded", "stopped", "started"} => snap[q] = {Want(q)}
                        /\ comp'[q] = "started" \/ pc[q] \in {"health", "inspect"}
                             => container'[AgentOf(q)].cfg = Want(q)
      BY DEF ComposeStarts, AloneProgress, AgentOf, Want
    <3>1. CASE q = r
      BY <2>1, <3>1 DEF ComposeStarts, AloneProgress
    <3>2. CASE q # r
      <4>1. comp'[q] = comp[q]
        BY <3>2 DEF ComposeStarts
      <4>2. AgentOf(q) # AgentOf(r) => container'[AgentOf(q)] = container[AgentOf(q)]
        BY WantIsConfig DEF ComposeStarts
      <4>3. QED
        BY <2>2, <3>2, <4>1, <4>2 DEF AloneProgress
    <3>3. QED
      BY <3>1, <3>2
<1>4. WantedCovers'
  BY DEF WantedCovers, Live, AgentOf, Want, Effective, ComposeStarts
<1>5. OrphanIsTrouble'
  BY DEF OrphanIsTrouble, AgentOf, ComposeStarts
<1>6. QuietMount'
  <2>1. /\ job' = job
        /\ \A q \in Requests \ {r} : pc'[q] = pc[q] /\ comp'[q] = comp[q]
        /\ \A a \in Agents \ {AgentOf(r)} :
             /\ override'[a] = override[a] /\ container'[a] = container[a]
             /\ a \in trouble => a \in trouble'
    BY DEF ComposeStarts
  <2>2. Live(r)'
    BY DEF ComposeStarts, Live
  <2>3. QED
    BY <2>1, <2>2, RestElsewhere
<1>7. QED
  BY <1>1, <1>2, <1>3, <1>4, <1>5, <1>6

\* A process that outlived the adapter ends on an agent in doubt.
LEMMA OrphanEndsKeeps ==
  ASSUME IInv, TypeOK', NEW r \in Requests, OrphanEnds(r)
  PROVE  IInv'
<1> USE DEF IInv, TypeOK
<1>1. ProcessHasOwner'
  BY DEF ProcessHasOwner, OrphanEnds
<1>2. OverlapIsShared'
  BY DEF OverlapIsShared, Live, AgentOf, OrphanEnds, ghost
<1>3. AloneProgress'
  BY DEF AloneProgress, AgentOf, Want, OrphanEnds, ghost
<1>4. WantedCovers'
  BY DEF WantedCovers, Live, AgentOf, Want, Effective, OrphanEnds, ghost
<1>5. OrphanIsTrouble'
  BY DEF OrphanIsTrouble, AgentOf, OrphanEnds, ghost
<1>6. QuietMount'
  <2>1. /\ job' = job
        /\ \A q \in Requests \ {r} : pc'[q] = pc[q] /\ comp'[q] = comp[q]
        /\ \A a \in Agents \ {AgentOf(r)} :
             /\ override'[a] = override[a] /\ container'[a] = container[a]
             /\ a \in trouble => a \in trouble'
    BY DEF OrphanEnds, ghost
  <2>2. AgentOf(r) \in trouble'
    BY DEF OrphanEnds, OrphanIsTrouble, ghost
  <2>3. QED
    BY <2>1, <2>2, RestElsewhere
<1>7. QED
  BY <1>1, <1>2, <1>3, <1>4, <1>5, <1>6

\* A crash leaves the agents of all active requests in doubt.
LEMMA CrashKeeps ==
  ASSUME IInv, TypeOK', Crash
  PROVE  IInv'
<1> USE DEF IInv, TypeOK, Crash
<1>1. \A r \in Requests :
        /\ AgentOf(r)' = AgentOf(r) /\ Want(r)' = Want(r)
        /\ comp'[r] = comp[r] \/ comp'[r] = "none"
        /\ pc[r] \in Active => pc'[r] = "lost"
        /\ pc[r] \notin Active => pc'[r] = pc[r]
  BY DEF AgentOf, Want
<1>2. \A r \in Requests : pc'[r] \notin Active /\ (Live(r)' => Live(r))
  BY <1>1 DEF Live, Active
<1>3. \A a \in Agents : Effective(a)' = Effective(a)
  BY DEF Effective
<1>4. ProcessHasOwner'
  BY <1>1 DEF ProcessHasOwner, Active
<1>5. OverlapIsShared'
  BY <1>1, <1>2 DEF OverlapIsShared
<1>6. AloneProgress'
  BY <1>1, <1>2 DEF AloneProgress
<1>7. WantedCovers'
  BY <1>1, <1>2, <1>3, WantIsConfig DEF WantedCovers
<1>8. OrphanIsTrouble'
  BY <1>1 DEF OrphanIsTrouble
<1>9. QuietMount'
  <2> SUFFICES ASSUME NEW a \in Agents \ trouble',
                      \A r \in Requests : AgentOf(r)' = a => ~Live(r)'
               PROVE  Effective(a)' = {container'[a].cfg}
    BY DEF QuietMount
  <2>1. \A r \in Requests : AgentOf(r) = a => ~Live(r)
    <3> SUFFICES ASSUME NEW r \in Requests, AgentOf(r) = a
                 PROVE  ~Live(r)
      OBVIOUS
    <3>1. pc[r] \notin Active
      OBVIOUS
    <3>2. comp[r] = "none"
      BY <3>1 DEF ProcessHasOwner, OrphanIsTrouble, Active
    <3>3. QED
      BY <3>1, <3>2 DEF Live
  <2>2. QED
    BY <2>1, <1>3 DEF QuietMount
<1>10. QED
  BY <1>4, <1>5, <1>6, <1>7, <1>8, <1>9

\* The fleet starts with the invariant.
LEMMA StartsRight ==
  ASSUME Init
  PROVE  IInv
<1>1. TypeOK
  BY FleetAssumption DEF Init, TypeOK, Config, Sentinel
<1>2. \A r \in Requests : ~Live(r) /\ pc[r] = "idle" /\ comp[r] = "none"
  BY DEF Init, Live, Active
<1>3. ProcessHasOwner /\ OverlapIsShared /\ AloneProgress /\ WantedCovers /\ OrphanIsTrouble
  BY <1>2 DEF ProcessHasOwner, OverlapIsShared, AloneProgress, WantedCovers,
    OrphanIsTrouble
<1>4. QuietMount
  BY DEF Init, QuietMount, Effective
<1>5. QED
  BY <1>1, <1>3, <1>4 DEF IInv

\* A step of the orchestrator keeps the invariant.
LEMMA StepKeeps ==
  ASSUME IInv, TypeOK', [Next]_vars
  PROVE  IInv'
<1>1. CASE UNCHANGED vars
  BY <1>1 DEF vars, real, ghost, IInv, ProcessHasOwner, OverlapIsShared,
    AloneProgress, WantedCovers, OrphanIsTrouble, QuietMount, Live,
    AgentOf, Want, Effective
<1>2. CASE Crash
  BY <1>2, CrashKeeps
<1>3. ASSUME NEW r \in Requests, Handler(r)
      PROVE  IInv'
  BY <1>3, RejectKeeps, BeginWriteKeeps, FinishWriteKeeps, WriteFailsKeeps,
    ComposeExitsKeeps, ComposeFailsKeeps, ComposeTimeoutKeeps, HealthOkKeeps,
    HealthTimeoutKeeps, InspectAndAnswerKeeps DEF Handler
<1>4. ASSUME NEW r \in Requests, Docker(r)
      PROVE  IInv'
  BY <1>4, ComposeLoadsKeeps, ComposeStopsKeeps, ComposeStartsKeeps,
    OrphanEndsKeeps DEF Docker
<1>5. QED
  BY <1>1, <1>2, <1>3, <1>4 DEF Next

\* IInv holds in every reachable state.
THEOREM Invariance == Spec => []IInv
<1>1. Init => IInv
  BY StartsRight
<1>2. IInv /\ TypeOK' /\ [Next]_vars => IInv'
  BY StepKeeps
<1>3. QED
  BY <1>1, <1>2, TypeCorrect, PTL DEF Spec

-----------------------------------------------------------------------------
(* What it gives *)

\* A request that was alone and has started its container finds it running.
AloneRuns ==
  \A r \in Requests \ shared :
    comp[r] = "started" \/ pc[r] \in {"health", "inspect"} => container[AgentOf(r)].running

\* A quiet agent out of doubt has its container running.
QuietRuns ==
  \A a \in Agents \ trouble :
    (\A r \in Requests : AgentOf(r) = a => ~Live(r)) => container[a].running

\* Without ./fleet, only compose stops a container, and starts it again.
LEMMA RunsKeeps ==
  ASSUME IInv, AloneRuns, QuietRuns, Next
  PROVE  AloneRuns' /\ QuietRuns'
<1> USE DEF IInv, TypeOK
<1>0. \A r \in Requests : AgentOf(r) \in Agents /\ AgentOf(r)' = AgentOf(r)
  <2>1. job' = job
    BY DEF Next, Crash, Handler, Docker, Reject, BeginWrite, FinishWrite, WriteFails,
      ComposeExits, ComposeFails, ComposeTimeout, HealthOk, HealthTimeout,
      InspectAndAnswer, ComposeLoads, ComposeStops, ComposeStarts, OrphanEnds
  <2>2. QED
    BY <2>1, WantIsConfig DEF AgentOf
<1>1. ASSUME NEW r \in Requests, ComposeStops(r) \/ ComposeStarts(r)
      PROVE  AloneRuns' /\ QuietRuns'
  <2>1. /\ \A q \in Requests : pc'[q] = pc[q]
        /\ \A q \in Requests \ {r} : comp'[q] = comp[q]
        /\ shared' = shared /\ trouble' = trouble
        /\ comp[r] # "none" /\ comp'[r] # "none"
        /\ \A a \in Agents \ {AgentOf(r)} : container'[a] = container[a]
    BY <1>1 DEF ComposeStops, ComposeStarts, ghost
  <2>2. ASSUME NEW q \in Requests \ shared,
               comp'[q] = "started" \/ pc[q] \in {"health", "inspect"}
        PROVE  container'[AgentOf(q)].running
    <3>1. CASE AgentOf(q) # AgentOf(r)
      BY <1>0, <2>1, <2>2, <3>1 DEF AloneRuns
    <3>2. CASE AgentOf(q) = AgentOf(r) /\ ComposeStarts(r)
      BY <1>0, <3>2 DEF ComposeStarts
    <3>3. CASE AgentOf(q) = AgentOf(r) /\ ComposeStops(r)
      <4>1. q # r
        BY <2>2, <3>3 DEF ComposeStops, ProcessHasOwner
      <4>2. Live(q) /\ Live(r)
        BY <2>1, <2>2, <4>1 DEF Live, Active
      <4>3. QED
        BY <3>3, <4>1, <4>2 DEF OverlapIsShared
    <3>4. QED
      BY <1>1, <3>1, <3>2, <3>3
  <2>3. \A q \in Requests : Live(q)' <=> Live(q)
    BY <2>1 DEF Live
  <2>4. AloneRuns'
    BY <1>0, <2>1, <2>2 DEF AloneRuns
  <2>5. QuietRuns'
    BY <1>0, <2>1, <2>3 DEF QuietRuns, Live
  <2>6. QED
    BY <2>4, <2>5
<1>2. CASE \A r \in Requests : ~ComposeStops(r) /\ ~ComposeStarts(r)
  <2>1. container' = container /\ shared \subseteq shared'
    BY <1>2 DEF Next, Crash, Handler, Docker, Reject, BeginWrite, FinishWrite, WriteFails,
      ComposeExits, ComposeFails, ComposeTimeout, HealthOk, HealthTimeout,
      InspectAndAnswer, ComposeLoads, OrphanEnds, ghost
  <2>2. \A q \in Requests : comp'[q] = "started" \/ pc'[q] \in {"health", "inspect"} =>
          comp[q] = "started" \/ pc[q] \in {"health", "inspect"}
    <3> SUFFICES ASSUME NEW q \in Requests,
                        comp'[q] = "started" \/ pc'[q] \in {"health", "inspect"}
                 PROVE  comp[q] = "started" \/ pc[q] \in {"health", "inspect"}
      OBVIOUS
    <3>1. CASE Crash
      BY <3>1 DEF Crash, Active
    <3>2. ASSUME NEW r \in Requests, Handler(r) \/ Docker(r)
          PROVE  comp[q] = "started" \/ pc[q] \in {"health", "inspect"}
      BY <1>2, <3>2 DEF Handler, Docker, Reject, BeginWrite, FinishWrite, WriteFails,
        ComposeExits, ComposeFails, ComposeTimeout, HealthOk, HealthTimeout,
        InspectAndAnswer, ComposeLoads, OrphanEnds, Ends, Goto
    <3>3. QED
      BY <3>1, <3>2 DEF Next
  <2>3. AloneRuns'
    BY <1>0, <2>1, <2>2 DEF AloneRuns
  <2>4. ASSUME NEW r \in Requests, InspectAndAnswer(r)
        PROVE  QuietRuns'
    <3>1. r \notin shared => container[AgentOf(r)].running
      BY <2>4 DEF InspectAndAnswer, AloneRuns
    <3>2. /\ \A q \in Requests \ {r} : Live(q)' <=> Live(q)
          /\ trouble \ {AgentOf(r)} \subseteq trouble'
          /\ r \in shared => AgentOf(r) \in trouble'
      BY <2>4 DEF InspectAndAnswer, Ends, Goto, Live
    <3>3. QED
      BY <1>0, <2>1, <3>1, <3>2 DEF QuietRuns
  <2>5. CASE \A r \in Requests : ~InspectAndAnswer(r)
    <3>1. trouble \subseteq trouble'
      BY <1>2, <2>5 DEF Next, Crash, Handler, Docker, Reject, BeginWrite, FinishWrite,
        WriteFails, ComposeExits, ComposeFails, ComposeTimeout, HealthOk, HealthTimeout,
        ComposeLoads, OrphanEnds, Ends, ghost
    <3>2. \A q \in Requests : Live(q) => Live(q)' \/ AgentOf(q) \in trouble'
      <4> SUFFICES ASSUME NEW q \in Requests, Live(q)
                   PROVE  Live(q)' \/ AgentOf(q) \in trouble'
        OBVIOUS
      <4>1. CASE Crash
        BY <4>1 DEF Crash, Live, Active, ProcessHasOwner, OrphanIsTrouble
      <4>2. ASSUME NEW r \in Requests, Handler(r) \/ Docker(r)
            PROVE  Live(q)' \/ AgentOf(q) \in trouble'
        BY <1>2, <2>5, <4>2 DEF Handler, Docker, Reject, BeginWrite, FinishWrite,
          WriteFails, ComposeExits, ComposeFails, ComposeTimeout, HealthOk, HealthTimeout,
          ComposeLoads, OrphanEnds, Ends, Goto, Live, Active, OrphanIsTrouble, ghost
      <4>3. QED
        BY <4>1, <4>2 DEF Next
    <3>3. SUFFICES ASSUME NEW a \in Agents \ trouble',
                          \A q \in Requests : AgentOf(q)' = a => ~Live(q)'
                   PROVE  container'[a].running
      BY <2>3 DEF QuietRuns
    <3>4. \A q \in Requests : AgentOf(q) = a => ~Live(q)
      BY <1>0, <3>2, <3>3
    <3>5. QED
      BY <2>1, <3>1, <3>4 DEF QuietRuns
  <2>6. QED
    BY <2>3, <2>4, <2>5
<1>3. QED
  BY <1>1, <1>2

\* A quiet agent out of doubt runs what its override file says.
THEOREM NoDrift == Spec => []QuietAgentHasNoDrift
<1>1. Init => AloneRuns /\ QuietRuns
  BY DEF Init, AloneRuns, QuietRuns, AgentOf
<1>2. IInv /\ AloneRuns /\ QuietRuns /\ [Next]_vars => AloneRuns' /\ QuietRuns'
  <2>1. UNCHANGED vars => UNCHANGED <<AloneRuns, QuietRuns>>
    BY DEF vars, real, ghost, AloneRuns, QuietRuns, AgentOf, Live
  <2>2. QED
    BY <2>1, RunsKeeps
<1>3. IInv /\ QuietRuns => QuietAgentHasNoDrift
  BY DEF IInv, QuietMount, QuietRuns, QuietAgentHasNoDrift
<1>4. QED
  BY <1>1, <1>2, <1>3, Invariance, PTL DEF Spec

\* An ok answer to a call that was alone on its agent is exact.
THEOREM AloneExact == Spec => AloneOkIsExact
<1> DEFINE Exact == \A r \in Requests \ shared :
                      pc[r] # "ok" /\ pc'[r] = "ok"
                        => /\ container'[AgentOf(r)].cfg = Want(r)
                           /\ override'[AgentOf(r)] = {Want(r)}
<1>1. IInv /\ [Next]_vars => [Exact]_vars
  <2> SUFFICES ASSUME IInv, Next, NEW r \in Requests \ shared,
                      pc[r] # "ok", pc'[r] = "ok"
               PROVE  /\ container'[AgentOf(r)].cfg = Want(r)
                      /\ override'[AgentOf(r)] = {Want(r)}
    OBVIOUS
  <2>1. InspectAndAnswer(r)
    BY DEF Next, Crash, Handler, Docker, Reject, BeginWrite, FinishWrite, WriteFails,
      ComposeExits, ComposeFails, ComposeTimeout, HealthOk, HealthTimeout,
      InspectAndAnswer, ComposeLoads, ComposeStops, ComposeStarts, OrphanEnds, Ends,
      Goto, IInv, TypeOK
  <2>2. pc[r] = "inspect" /\ container' = container /\ override' = override
    BY <2>1 DEF InspectAndAnswer
  <2>3. QED
    <3>1. /\ override[AgentOf(r)] = {Want(r)}
          /\ container[AgentOf(r)].cfg = Want(r)
      BY <2>2 DEF IInv, AloneProgress
    <3>2. QED
      BY <2>2, <3>1
<1>2. QED
  BY <1>1, Invariance, PTL DEF Spec, AloneOkIsExact

\* docker compose installs only what the calls overlapping it asked for.
THEOREM RemountWanted == Spec => RemountIsWanted
<1> DEFINE Wanted == \A a \in Agents :
                       container'[a].cfg # container[a].cfg => container'[a].cfg \in wanted[a]
<1>1. IInv /\ [Next]_vars => [Wanted]_vars
  <2> SUFFICES ASSUME IInv, Next, NEW a \in Agents, container'[a].cfg # container[a].cfg
               PROVE  container'[a].cfg \in wanted[a]
    OBVIOUS
  <2>1. PICK r \in Requests : ComposeStarts(r) \/ ComposeStops(r)
    BY DEF Next, Crash, Handler, Docker, Reject, BeginWrite, FinishWrite, WriteFails,
      ComposeExits, ComposeFails, ComposeTimeout, HealthOk, HealthTimeout,
      InspectAndAnswer, ComposeLoads, OrphanEnds
  <2>2. ComposeStarts(r) /\ a = AgentOf(r)
    <3>1. AgentOf(r) \in Agents
      BY WantIsConfig DEF IInv
    <3>2. ~ComposeStops(r)
      BY <3>1 DEF ComposeStops, IInv, TypeOK
    <3>3. a = AgentOf(r)
      BY <2>1, <3>2 DEF ComposeStarts, IInv, TypeOK
    <3>4. QED
      BY <2>1, <3>2, <3>3
  <2>3. container'[a].cfg \in snap[r]
    BY <2>2 DEF ComposeStarts
  <2>4. QED
    BY <2>2, <2>3 DEF IInv, WantedCovers, ComposeStarts
<1>2. QED
  BY <1>1, Invariance, PTL DEF Spec, RemountIsWanted
-----------------------------------------------------------------------------
(* The register *)

\* A request is open exactly while it is live.
LEMMA OpenIsLive ==
  ASSUME IInv, NEW r \in Requests
  PROVE  Phase(r) = "open" <=> Live(r)
  BY DEF IInv, TypeOK, ProcessHasOwner, Phase, Live, Active, Answers

\* A step in which requests end badly and nothing else happens to the register.
LEMMA EndsIsFail ==
  ASSUME IInv, NEW S, S \subseteq Requests,
         \A q \in S : Phase(q) \in {"new", "open"} /\ Phase(q)' = "failed",
         \A q \in Requests \ S : Phase(q)' = Phase(q),
         UNCHANGED <<job, container, wanted, shared>>
  PROVE  Register!Fail
<1> DEFINE ph == [q \in Requests |-> Phase(q)]
<1>1. S \in SUBSET {q \in Requests : ph[q] \in {"new", "open"}}
  OBVIOUS
<1>2. ph' = [q \in Requests |-> IF q \in S THEN "failed" ELSE ph[q]]
  OBVIOUS
<1>3. \A q \in Requests : AgentOf(q)' = AgentOf(q) /\ Want(q)' = Want(q)
  BY DEF AgentOf, Want
<1>4. QED
  BY <1>1, <1>2, <1>3 DEF Register!Fail

\* A step of an open request that the register does not see.
LEMMA InnerIsStutter ==
  ASSUME \A q \in Requests : Phase(q)' = Phase(q),
         \A a \in Agents : container'[a].cfg = container[a].cfg,
         UNCHANGED <<job, wanted, shared>>
  PROVE  UNCHANGED Register!vars
<1>1. \A q \in Requests : AgentOf(q)' = AgentOf(q) /\ Want(q)' = Want(q)
  BY DEF AgentOf, Want
<1>2. QED
  BY <1>1 DEF Register!vars

\* Truncating the override begins a write.
LEMMA BeginIsBegin ==
  ASSUME IInv, NEW r \in Requests, BeginWrite(r)
  PROVE  Register!Begin(r)
<1> DEFINE ph == [q \in Requests |-> Phase(q)]
           tk == [q \in Requests |-> [agent |-> AgentOf(q), want |-> Want(q)]]
           mt == [a \in Agents |-> container[a].cfg]
<1>1. AgentOf(r) \in Agents /\ tk[r].agent = AgentOf(r) /\ tk[r].want = Want(r)
  BY WantIsConfig DEF IInv
<1>2. Phase(r) = "new"
  BY DEF BeginWrite, Phase, Active
<1>3. ph' = [ph EXCEPT ![r] = "open"]
  <2>1. pc' \in [Requests -> {"idle", "lost"} \cup Active \cup Answers] /\ pc'[r] = "write"
        /\ \A q \in Requests \ {r} : pc'[q] = pc[q]
    BY DEF BeginWrite, Goto, IInv, TypeOK, Active
  <2>2. Phase(r)' = "open" /\ \A q \in Requests \ {r} : Phase(q)' = Phase(q)
    BY <2>1 DEF Phase, BeginWrite, Active
  <2>3. QED
    BY <2>2
<1>4. {q \in Requests : ph[q] = "open" /\ tk[q].agent = AgentOf(r)} = Others(r)
  <2>1. \A q \in Requests : ph[q] = "open" <=> Live(q)
    BY OpenIsLive
  <2>2. ph[r] # "open"
    BY <1>2
  <2>3. QED
    BY <2>1, <2>2 DEF Others
<1>5. tk' = tk /\ mt' = mt
  BY DEF BeginWrite, AgentOf, Want
<1>6. /\ wanted' = [wanted EXCEPT ![AgentOf(r)] =
           IF Others(r) = {} THEN {Want(r)} ELSE @ \cup {Want(r), Sentinel}]
      /\ shared' = IF Others(r) = {} THEN shared ELSE shared \cup {r} \cup Others(r)
  BY DEF BeginWrite
<1>7. QED
  BY <1>1, <1>2, <1>3, <1>4, <1>5, <1>6 DEF Register!Begin, Register!OpenOn

\* A new container is a mount, with what the process had loaded.
LEMMA StartIsMount ==
  ASSUME IInv, NEW r \in Requests, ComposeStarts(r)
  PROVE  Register!Mount(r)
<1> DEFINE ph == [q \in Requests |-> Phase(q)]
           tk == [q \in Requests |-> [agent |-> AgentOf(q), want |-> Want(q)]]
           mt == [a \in Agents |-> container[a].cfg]
<1>1. AgentOf(r) \in Agents /\ tk[r].agent = AgentOf(r)
  BY WantIsConfig DEF IInv
<1>2. PICK c \in snap[r] :
        container' = [container EXCEPT ![AgentOf(r)] = [cfg |-> c, running |-> TRUE]]
  BY DEF ComposeStarts
<1>3. c \in wanted[AgentOf(r)]
  BY DEF ComposeStarts, IInv, WantedCovers
<1>4. mt' = [mt EXCEPT ![AgentOf(r)] = c]
  BY <1>1, <1>2 DEF IInv, TypeOK
<1>5. ph[r] = "open"
  BY OpenIsLive DEF ComposeStarts, Live
<1>6. ph' = ph
  <2>1. \A q \in Requests : Phase(q)' = Phase(q)
    BY DEF ComposeStarts, Phase, IInv, TypeOK
  <2>2. QED
    BY <2>1
<1>7. tk' = tk /\ UNCHANGED <<wanted, shared>>
  BY DEF ComposeStarts, AgentOf, Want
<1>8. QED
  BY <1>1, <1>3, <1>4, <1>5, <1>6, <1>7 DEF Register!Mount

\* The ok answer to a call that was alone tells what is mounted.
LEMMA AnswerIsSucceed ==
  ASSUME IInv, NEW r \in Requests, InspectAndAnswer(r)
  PROVE  Register!Succeed(r)
<1> DEFINE ph == [q \in Requests |-> Phase(q)]
           tk == [q \in Requests |-> [agent |-> AgentOf(q), want |-> Want(q)]]
           mt == [a \in Agents |-> container[a].cfg]
<1>1. AgentOf(r) \in Agents /\ tk[r].agent = AgentOf(r) /\ tk[r].want = Want(r)
  BY WantIsConfig DEF IInv
<1>2. ph[r] = "open"
  BY OpenIsLive DEF InspectAndAnswer, Live, Active
<1>3. ph' = [ph EXCEPT ![r] = "ok"]
  <2>1. Phase(r)' = "ok" /\ \A q \in Requests \ {r} : Phase(q)' = Phase(q)
    BY DEF InspectAndAnswer, Ends, Goto, Phase, Active, IInv, TypeOK
  <2>2. QED
    BY <2>1
<1>4. r \notin shared => mt[AgentOf(r)] = Want(r)
  <2>1. r \notin shared => container[AgentOf(r)].cfg = Want(r)
    BY DEF InspectAndAnswer, IInv, AloneProgress
  <2>2. QED
    BY <1>1, <2>1
<1>5. tk' = tk /\ mt' = mt /\ UNCHANGED <<wanted, shared>>
  BY DEF InspectAndAnswer, AgentOf, Want
<1>6. QED
  BY <1>1, <1>2, <1>3, <1>4, <1>5 DEF Register!Succeed

\* A crash is a failure of the requests that leave no process behind.
LEMMA CrashIsFail ==
  ASSUME IInv, Crash
  PROVE  Register!Fail
<1> DEFINE S == {q \in Requests : Phase(q) = "open" /\ comp'[q] = "none"}
<1>1. UNCHANGED <<job, container, wanted, shared>>
  BY DEF Crash
<1>2. /\ \A q \in Requests : pc'[q] = IF pc[q] \in Active THEN "lost" ELSE pc[q]
      /\ \A q \in Requests : comp'[q] \in {comp[q], "none"}
  BY DEF Crash
<1>3. \A q \in S : Phase(q)' = "failed"
  BY <1>2 DEF Phase, Active
<1>4. \A q \in Requests \ S : Phase(q)' = Phase(q)
  <2> SUFFICES ASSUME NEW q \in Requests \ S
               PROVE  Phase(q)' = Phase(q)
    OBVIOUS
  <2>1. CASE Phase(q) = "open"
    BY <1>2, <2>1 DEF Phase, Active
  <2>2. CASE Phase(q) # "open"
    BY <1>2, <2>2 DEF Phase, Active, IInv, ProcessHasOwner
  <2>3. QED
    BY <2>1, <2>2
<1>5. QED
  BY <1>1, <1>3, <1>4, EndsIsFail

\* Every step is a step of the register or leaves it alone.
LEMMA StepIsRegisterStep ==
  ASSUME IInv, [Next]_vars
  PROVE  [Register!Next]_(Register!vars)
<1>1. ASSUME NEW r \in Requests,
             \/ Reject(r) \/ WriteFails(r) \/ ComposeFails(r) \/ ComposeTimeout(r)
             \/ HealthTimeout(r) \/ OrphanEnds(r)
      PROVE  Register!Fail
  <2>1. UNCHANGED <<job, container, wanted, shared>>
    BY <1>1 DEF Reject, WriteFails, ComposeFails, ComposeTimeout, HealthTimeout, OrphanEnds, ghost
  <2>2. /\ \A q \in Requests \ {r} : pc'[q] = pc[q] /\ comp'[q] = comp[q]
        /\ Phase(r) \in {"new", "open"}
    BY <1>1 DEF Reject, WriteFails, ComposeFails, ComposeTimeout, HealthTimeout, OrphanEnds,
      Ends, Goto, Phase, Active, IInv, TypeOK
  <2>3. Phase(r)' = "failed"
    <3>1. CASE OrphanEnds(r)
      BY <3>1 DEF OrphanEnds, Phase, Active, IInv, TypeOK
    <3>2. CASE ~OrphanEnds(r)
      BY <1>1, <3>2 DEF Reject, WriteFails, ComposeFails, ComposeTimeout, HealthTimeout,
        Ends, Goto, Phase, Active, IInv, TypeOK
    <3>3. QED
      BY <3>1, <3>2
  <2>4. \A q \in Requests \ {r} : Phase(q)' = Phase(q)
    BY <2>2 DEF Phase
  <2>5. QED
    BY <2>1, <2>2, <2>3, <2>4, EndsIsFail
<1>2. ASSUME NEW r \in Requests,
             FinishWrite(r) \/ ComposeExits(r) \/ HealthOk(r) \/ ComposeLoads(r) \/ ComposeStops(r)
      PROVE  UNCHANGED Register!vars
  <2>1. UNCHANGED <<job, wanted, shared>>
    BY <1>2 DEF FinishWrite, ComposeExits, HealthOk, ComposeLoads, ComposeStops, ghost
  <2>2. \A a \in Agents : container'[a].cfg = container[a].cfg
    BY <1>2 DEF FinishWrite, ComposeExits, HealthOk, ComposeLoads, ComposeStops, IInv, TypeOK
  <2>3. \A q \in Requests \ {r} : pc'[q] = pc[q] /\ comp'[q] = comp[q]
    BY <1>2 DEF FinishWrite, ComposeExits, HealthOk, ComposeLoads, ComposeStops, Goto, IInv, TypeOK
  <2>4. \/ pc[r] \in Active /\ pc'[r] \in Active
        \/ pc'[r] = pc[r] /\ comp[r] # "none" /\ comp'[r] # "none"
    <3>1. CASE FinishWrite(r) \/ ComposeExits(r) \/ HealthOk(r)
      BY <3>1 DEF FinishWrite, ComposeExits, HealthOk, Goto, Active, IInv, TypeOK
    <3>2. CASE ComposeLoads(r) \/ ComposeStops(r)
      BY <3>2 DEF ComposeLoads, ComposeStops, IInv, TypeOK
    <3>3. QED
      BY <1>2, <3>1, <3>2
  <2>5. \A q \in Requests : Phase(q)' = Phase(q)
    BY <2>3, <2>4 DEF Phase, Active
  <2>6. QED
    BY <2>1, <2>2, <2>5, InnerIsStutter
<1>3. CASE UNCHANGED vars
  BY <1>3, InnerIsStutter DEF vars, real, ghost, Phase
<1>4. QED
  BY <1>1, <1>2, <1>3, CrashIsFail, BeginIsBegin, StartIsMount, AnswerIsSucceed
    DEF Next, Handler, Docker, Register!Next

\* The orchestrator implements the register of ClaimRegister.
THEOREM Implements == Spec => ImplementsRegister
<1>1. Init => Register!Init
  <2> SUFFICES ASSUME Init
               PROVE  Register!Init
    OBVIOUS
  <2>1. \A r \in Requests : AgentOf(r) \in Agents /\ Want(r) \in Config
    BY DEF Init, AgentOf, Want, Job, Config, Sentinel
  <2>2. \A r \in Requests : Phase(r) = "new"
    BY DEF Init, Phase, Active
  <2>3. QED
    BY <2>1, <2>2 DEF Init, Register!Init
<1>2. IInv /\ [Next]_vars => [Register!Next]_(Register!vars)
  BY StepIsRegisterStep
<1>3. QED
  BY <1>1, <1>2, Invariance, PTL DEF Spec, ImplementsRegister, Register!Spec

-----------------------------------------------------------------------------
(* Status calls and the ./fleet wrapper *)

\* A status call whose agent has been settled all along has read the labels that the
\* container still has.
RowSettled ==
  \A s \in Readers \ unsettled :
    row[s].step \in {"user", "claimed"} =>
      LET c == container[row[s].agent].cfg IN
        /\ Settled(row[s].agent)
        /\ row[s].user = c.user
        /\ row[s].step = "claimed" => row[s].claimed = c.at

HostInv == HostTypeOK /\ IInv /\ RowSettled

\* ./fleet up gives a container what its override file says, in doubt or not.
LEMMA FleetUpKeeps ==
  ASSUME IInv, FleetUp
  PROVE  IInv'
<1> USE DEF IInv
<1>1. PICK c \in [Agents -> Config] :
        /\ \A a \in Agents : c[a] \in Effective(a)
        /\ container' = [a \in Agents |-> [cfg |-> c[a], running |-> TRUE]]
        /\ served' \subseteq Requests
  BY DEF FleetUp, TypeOK, Mounts
<1>2. UNCHANGED <<job, pc, override, comp, snap, crashes, shared, wanted, trouble>>
  BY DEF FleetUp
<1>3. \A r \in Requests : /\ AgentOf(r)' = AgentOf(r) /\ Want(r)' = Want(r)
                          /\ Live(r)' <=> Live(r)
  BY <1>2 DEF AgentOf, Want, Live
<1>4. \A a \in Agents : Effective(a)' = Effective(a) /\ container'[a].cfg = c[a]
  BY <1>1, <1>2 DEF Effective
<1>5. TypeOK'
  BY <1>1, <1>2 DEF TypeOK
<1>6. ProcessHasOwner' /\ OverlapIsShared' /\ OrphanIsTrouble'
  BY <1>2, <1>3 DEF ProcessHasOwner, OverlapIsShared, OrphanIsTrouble
<1>7. WantedCovers'
  BY <1>2, <1>3, <1>4, WantIsConfig DEF WantedCovers
<1>8. AloneProgress'
  <2>1. ASSUME NEW r \in Requests \ shared,
               comp[r] = "started" \/ pc[r] \in {"health", "inspect"}
        PROVE  c[AgentOf(r)] = Want(r)
    <3>1. override[AgentOf(r)] = {Want(r)}
      BY <2>1 DEF AloneProgress
    <3>2. Effective(AgentOf(r)) = {Want(r)}
      BY <3>1 DEF Effective
    <3>3. QED
      BY <1>1, <3>2, WantIsConfig
  <2>2. QED
    BY <1>2, <1>3, <1>4, <2>1, WantIsConfig DEF AloneProgress
<1>9. QuietMount'
  <2> SUFFICES ASSUME NEW a \in Agents \ trouble,
                      \A r \in Requests : AgentOf(r) = a => ~Live(r)
               PROVE  Effective(a) = {c[a]}
    BY <1>2, <1>3, <1>4 DEF QuietMount
  <2>1. Effective(a) = {container[a].cfg}
    BY DEF QuietMount
  <2>2. QED
    BY <1>1, <2>1
<1>10. QED
  BY <1>5, <1>6, <1>7, <1>8, <1>9

\* Nothing of the mounts depends on whether a container runs, nor on the calls that
\* only look.
LEMMA MountsKeep ==
  ASSUME IInv, UNCHANGED <<job, pc, override, comp, snap, crashes, ghost>>,
         \/ container' = container
         \/ container' = [a \in Agents |-> [container[a] EXCEPT !.running = FALSE]]
  PROVE  IInv'
<1> USE DEF IInv
<1>1. \A a \in Agents : container'[a].cfg = container[a].cfg
  BY DEF TypeOK
<1>2. TypeOK'
  BY DEF TypeOK, ghost
<1>3. \A r \in Requests : /\ AgentOf(r)' = AgentOf(r) /\ Want(r)' = Want(r)
                          /\ Live(r)' <=> Live(r)
  BY DEF AgentOf, Want, Live
<1>4. \A a \in Agents : Effective(a)' = Effective(a)
  BY DEF Effective
<1>5. ProcessHasOwner' /\ OverlapIsShared' /\ OrphanIsTrouble'
  BY <1>3 DEF ProcessHasOwner, OverlapIsShared, OrphanIsTrouble, ghost
<1>6. WantedCovers' /\ AloneProgress'
  BY <1>1, <1>3, <1>4, WantIsConfig DEF WantedCovers, AloneProgress, ghost
<1>7. QuietMount'
  BY <1>1, <1>3, <1>4 DEF QuietMount, ghost
<1>8. QED
  BY <1>2, <1>5, <1>6, <1>7

\* A settled agent keeps its mount while its override file stays as it is.
LEMMA MountStays ==
  ASSUME IInv, IInv', NEW a \in Agents, Settled(a), Settled(a)', override'[a] = override[a]
  PROVE  container'[a].cfg = container[a].cfg
<1>1. Effective(a) = {container[a].cfg} /\ Effective(a)' = {container'[a].cfg}
  BY DEF IInv, QuietMount, Settled
<1>2. Effective(a)' = Effective(a)
  BY DEF Effective
<1>3. QED
  BY <1>1, <1>2

\* Only a call under way writes an override, and its agent is then not settled.
LEMMA SettledIsUnwritten ==
  ASSUME TypeOK, Next, NEW a \in Agents, Settled(a)'
  PROVE  override'[a] = override[a]
<1>1. CASE \E r \in Requests : BeginWrite(r) \/ FinishWrite(r)
  <2>1. PICK r \in Requests : BeginWrite(r) \/ FinishWrite(r)
    BY <1>1
  <2>2. pc'[r] \in Active /\ job' = job
    BY <2>1 DEF BeginWrite, FinishWrite, Goto, TypeOK, Active, ghost
  <2>3. AgentOf(r) # a
    BY <2>2 DEF Settled, Live, AgentOf
  <2>4. \E t : override' = [override EXCEPT ![AgentOf(r)] = t]
    BY <2>1 DEF BeginWrite, FinishWrite
  <2>5. QED
    BY <2>3, <2>4 DEF TypeOK
<1>2. CASE ~\E r \in Requests : BeginWrite(r) \/ FinishWrite(r)
  <2>1. override' = override
    BY <1>2 DEF Next, Crash, Handler, Docker, Reject, WriteFails, ComposeExits, ComposeFails,
       ComposeTimeout, HealthOk, HealthTimeout, InspectAndAnswer, ComposeLoads,
       ComposeStops, ComposeStarts, OrphanEnds
  <2>2. QED
    BY <2>1
<1>3. QED
  BY <1>1, <1>2

\* Whatever disturbs an agent marks the status calls that are reading it.
LEMMA DisturbanceIsMarked ==
  ASSUME RowSettled, IInv, IInv', row \in [Readers -> Row],
         unsettled' = unsettled \cup Disturbed', row' = row,
         \A a \in Agents : Settled(a)' => override'[a] = override[a]
  PROVE  RowSettled'
<1> SUFFICES ASSUME NEW s \in Readers \ unsettled', row[s].step \in {"user", "claimed"}
             PROVE  /\ Settled(row[s].agent)'
                    /\ row[s].user = container'[row[s].agent].cfg.user
                    /\ row[s].step = "claimed"
                         => row[s].claimed = container'[row[s].agent].cfg.at
  BY DEF RowSettled
<1>1. row[s].agent \in Agents /\ s \notin unsettled
  BY DEF Row
<1>2. Settled(row[s].agent) /\ Settled(row[s].agent)'
  BY <1>1 DEF RowSettled, Disturbed
<1>3. container'[row[s].agent].cfg = container[row[s].agent].cfg
  BY <1>1, <1>2, MountStays
<1>4. QED
  BY <1>1, <1>2, <1>3 DEF RowSettled

\* An inspect of a status call copies one label of its container, or whether it runs.
LEMMA InspectKeeps ==
  ASSUME HostInv, NEW s \in Readers, ReadUser(s) \/ ReadClaimedAt(s) \/ ReadHealth(s)
  PROVE  HostInv'
<1> DEFINE c == container[row[s].agent]
<1>1. row \in [Readers -> Row] /\ row[s] \in Row /\ row[s].agent \in Agents
  BY DEF HostInv, HostTypeOK, Row
<1>2. c.cfg.user \in Users \cup {NoUser} /\ c.cfg.at \in Requests \cup {NoClaim}
      /\ c.running \in BOOLEAN
  BY <1>1 DEF HostInv, IInv, TypeOK, Config
<1>3. UNCHANGED <<vars, cmds>> /\ unsettled' = unsettled \cup Disturbed'
  BY DEF ReadUser, ReadClaimedAt, ReadHealth, Inspect
<1>4. IInv'
  BY <1>3, MountsKeep DEF HostInv, vars, real
<1>5. \/ /\ row[s].step = "new"
         /\ row' = [row EXCEPT ![s] = [row[s] EXCEPT !.user = c.cfg.user, !.step = "user"]]
      \/ /\ row[s].step = "user"
         /\ row' = [row EXCEPT ![s] =
                      [row[s] EXCEPT !.claimed = c.cfg.at, !.step = "claimed"]]
      \/ /\ row[s].step = "claimed"
         /\ row' = [row EXCEPT ![s] = [row[s] EXCEPT !.healthy = c.running, !.step = "done"]]
  BY DEF ReadUser, ReadClaimedAt, ReadHealth, Inspect
<1>6. row' \in [Readers -> Row]
  <2>1. ASSUME NEW new \in Row
        PROVE  [row EXCEPT ![s] = new] \in [Readers -> Row]
    BY <1>1
  <2>2. /\ [row[s] EXCEPT !.user = c.cfg.user, !.step = "user"] \in Row
        /\ [row[s] EXCEPT !.claimed = c.cfg.at, !.step = "claimed"] \in Row
        /\ [row[s] EXCEPT !.healthy = c.running, !.step = "done"] \in Row
    BY <1>1, <1>2 DEF Row
  <2>3. QED
    BY <1>5, <2>1, <2>2
<1>7. HostTypeOK'
  BY <1>3, <1>4, <1>6 DEF HostInv, HostTypeOK, IInv, Disturbed
<1>8. \A a \in Agents : Settled(a)' <=> Settled(a)
  BY <1>3 DEF Settled, Live, AgentOf, vars, real, ghost
<1>9. RowSettled'
  <2> SUFFICES ASSUME NEW t \in Readers \ unsettled', row'[t].step \in {"user", "claimed"}
               PROVE  LET d == container[row'[t].agent].cfg IN
                        /\ Settled(row[t].agent)'
                        /\ row'[t].user = d.user
                        /\ row'[t].step = "claimed" => row'[t].claimed = d.at
    BY <1>3 DEF RowSettled, vars, real
  <2>1. CASE t # s
    <3>1. row'[t] = row[t] /\ row[t].agent \in Agents /\ t \notin unsettled
      BY <1>1, <1>3, <1>5, <2>1 DEF Row
    <3>2. QED
      BY <1>8, <3>1 DEF HostInv, RowSettled
  <2>2. CASE t = s
    <3>1. row'[s].agent = row[s].agent
      BY <1>1, <1>5 DEF Row
    <3>2. \/ row[s].step = "new" /\ row'[s].step = "user" /\ row'[s].user = c.cfg.user
          \/ /\ row[s].step = "user" /\ row'[s].step = "claimed"
             /\ row'[s].user = row[s].user /\ row'[s].claimed = c.cfg.at
      BY <1>1, <1>5, <2>2 DEF Row
    <3>3. Settled(row[s].agent)'
      BY <1>3, <2>2 DEF Disturbed
    <3>4. s \notin unsettled
      BY <1>3, <2>2
    <3>5. QED
      BY <2>2, <3>1, <3>2, <3>3, <3>4 DEF HostInv, RowSettled
  <2>3. QED
    BY <2>1, <2>2
<1>10. QED
  BY <1>4, <1>7, <1>9 DEF HostInv

\* HostInv holds in every reachable state.
THEOREM HostInvariance == HostSpec => []HostInv
<1>1. HostInit => HostInv
  <2> SUFFICES ASSUME HostInit
               PROVE  HostInv
    OBVIOUS
  <2>1. IInv
    BY StartsRight DEF HostInit
  <2>2. row \in [Readers -> Row] /\ \A s \in Readers : row[s].step = "new"
    BY DEF HostInit, Row
  <2>3. QED
    BY <2>1, <2>2, HostAssumption DEF HostInit, HostInv, HostTypeOK, RowSettled, IInv
<1>2. HostInv /\ [HostNext]_hostVars => HostInv'
  <2> SUFFICES ASSUME HostInv, [HostNext]_hostVars
               PROVE  HostInv'
    OBVIOUS
  <2>1. CASE Orchestrator
    <3>1. IInv'
      BY <2>1, TypeKeeps, StepKeeps DEF Orchestrator, HostInv, HostTypeOK
    <3>2. RowSettled'
      BY <2>1, <3>1, DisturbanceIsMarked, SettledIsUnwritten
         DEF Orchestrator, HostInv, HostTypeOK
    <3>3. QED
      BY <2>1, <3>1, <3>2 DEF Orchestrator, HostInv, HostTypeOK, IInv, Disturbed
  <2>2. CASE FleetUp \/ FleetDown
    <3>1. IInv'
      BY <2>2, FleetUpKeeps, MountsKeep DEF FleetDown, HostInv
    <3>2. RowSettled'
      BY <2>2, <3>1, DisturbanceIsMarked DEF FleetUp, FleetDown, HostInv, HostTypeOK
    <3>3. cmds' \in 0..MaxCmds
      BY <2>2, HostAssumption DEF FleetUp, FleetDown, HostInv, HostTypeOK
    <3>4. QED
      BY <2>2, <3>1, <3>2, <3>3 DEF FleetUp, FleetDown, HostInv, HostTypeOK, IInv, Disturbed
  <2>3. CASE \E s \in Readers : ReadUser(s) \/ ReadClaimedAt(s) \/ ReadHealth(s)
    BY <2>3, InspectKeeps
  <2>4. CASE UNCHANGED hostVars
    <3>1. IInv'
      BY <2>4, MountsKeep DEF HostInv, hostVars, vars, real
    <3>2. RowSettled'
      BY <2>4 DEF HostInv, RowSettled, Settled, Live, AgentOf, hostVars, vars, real, ghost
    <3>3. QED
      BY <2>4, <3>1, <3>2 DEF HostInv, HostTypeOK, IInv, hostVars, vars, real
  <2>5. QED
    BY <2>1, <2>2, <2>3, <2>4 DEF HostNext
<1>3. QED
  BY <1>1, <1>2, PTL DEF HostSpec

\* Every variable of the host, those of the orchestrator too, keeps its type.
THEOREM HostTypeCorrect == HostSpec => []HostTypeOK
<1>1. HostInv => HostTypeOK
  BY DEF HostInv
<1>2. QED
  BY <1>1, HostInvariance, PTL

\* ./fleet up starts a quiet agent that is not in doubt, and leaves its mount alone.
THEOREM UpKeepsSettled == HostSpec => UpKeepsSettledAgents
<1> DEFINE Kept == FleetUp =>
             \A a \in Agents :
               Settled(a) => container'[a] = [container[a] EXCEPT !.running = TRUE]
<1>1. HostInv /\ [HostNext]_hostVars => [Kept]_hostVars
  <2> SUFFICES ASSUME HostInv, FleetUp, NEW a \in Agents, Settled(a)
               PROVE  container'[a] = [container[a] EXCEPT !.running = TRUE]
    OBVIOUS
  <2>1. Effective(a) = {container[a].cfg}
    BY DEF HostInv, IInv, QuietMount, Settled
  <2>2. container'[a] = [cfg |-> container[a].cfg, running |-> TRUE]
    BY <2>1 DEF FleetUp
  <2>3. container[a] \in [cfg : Config, running : BOOLEAN]
    BY DEF HostInv, IInv, TypeOK
  <2>4. ASSUME NEW k \in [cfg : Config, running : BOOLEAN]
        PROVE  [k EXCEPT !.running = TRUE] = [cfg |-> k.cfg, running |-> TRUE]
    <3> DEFINE f == [k EXCEPT !.running = TRUE]
    <3>1. f \in [cfg : Config, running : BOOLEAN] /\ f.cfg = k.cfg /\ f.running = TRUE
      OBVIOUS
    <3>2. \A g \in [cfg : Config, running : BOOLEAN] :
            g = [cfg |-> g.cfg, running |-> g.running]
      OBVIOUS
    <3>3. QED
      BY <3>1, <3>2
  <2>5. QED
    BY <2>2, <2>3, <2>4
<1>2. QED
  BY <1>1, HostInvariance, PTL DEF HostSpec, UpKeepsSettledAgents

\* A finished status row names what the last call wrote, when the agent was settled
\* while it was read.
THEOREM RowNames == HostSpec => RowNamesLastCall
<1> DEFINE Named == \A s \in Readers \ unsettled' :
             row[s].step # "done" /\ row'[s].step = "done" =>
               Effective(row[s].agent) = {[user |-> row'[s].user, at |-> row'[s].claimed]}
<1>1. HostInv /\ [HostNext]_hostVars => [Named]_hostVars
  <2> SUFFICES ASSUME HostInv, HostNext, NEW s \in Readers \ unsettled',
                      row[s].step # "done", row'[s].step = "done"
               PROVE  Effective(row[s].agent) = {[user |-> row'[s].user, at |-> row'[s].claimed]}
    OBVIOUS
  <2>1. row \in [Readers -> Row] /\ row[s] \in Row
    BY DEF HostInv, HostTypeOK
  <2>2. PICK t \in Readers : ReadUser(t) \/ ReadClaimedAt(t) \/ ReadHealth(t)
    BY DEF HostNext, Orchestrator, FleetUp, FleetDown
  <2>3. t = s
    BY <2>1, <2>2 DEF ReadUser, ReadClaimedAt, ReadHealth, Inspect
  <2>4. /\ row[s].step = "claimed" /\ s \notin unsettled
        /\ row'[s].user = row[s].user /\ row'[s].claimed = row[s].claimed
    <3>1. ~ReadUser(s) /\ ~ReadClaimedAt(s)
      BY <2>1 DEF ReadUser, ReadClaimedAt, Inspect, Row
    <3>2. ReadHealth(s)
      BY <2>2, <2>3, <3>1
    <3>3. QED
      BY <2>1, <3>2 DEF ReadHealth, Inspect, Row
  <2>5. /\ Settled(row[s].agent)
        /\ row[s].user = container[row[s].agent].cfg.user
        /\ row[s].claimed = container[row[s].agent].cfg.at
    BY <2>4 DEF HostInv, RowSettled
  <2>6. row[s].agent \in Agents /\ container[row[s].agent].cfg \in Config
    BY <2>1 DEF Row, HostInv, IInv, TypeOK
  <2>7. Effective(row[s].agent) = {container[row[s].agent].cfg}
    BY <2>5, <2>6 DEF HostInv, IInv, QuietMount, Settled
  <2>8. container[row[s].agent].cfg
          = [user |-> row[s].user, at |-> row[s].claimed]
    BY <2>5, <2>6 DEF Config
  <2>9. QED
    BY <2>4, <2>7, <2>8
<1>2. QED
  BY <1>1, HostInvariance, PTL DEF HostSpec, RowNamesLastCall
=============================================================================
