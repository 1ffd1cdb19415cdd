------------------------------ MODULE FleetClaim ------------------------------
(***************************************************************************)
(* The fleet orchestrator: POST /fleet/claim and POST /fleet/unclaim       *)
(* (hermes_adapter/fleet/orchestrator.py).  A request rewrites the agent's *)
(* compose override file, runs `docker compose up --force-recreate` on the *)
(* one container and, for a claim, polls its health before it answers.     *)
(* Nothing serialises two requests for one agent.  Requests share one      *)
(* asyncio loop, so the code between two awaits is not interleaved with    *)
(* other requests, but the docker compose processes they started run on.   *)
(***************************************************************************)
EXTENDS Naturals, FiniteSets

CONSTANTS Agents,      \* bootstrapped agents: those with a persona directory
          Users,       \* user names that pass USER_RE
          Requests,    \* the claim and unclaim calls the control plane makes
          NoUser,      \* the user label and mount of the sentinel workspace
          NoClaim,     \* the empty hermes.fleet.claimed_at label
          MaxCrashes   \* bound on adapter crashes

ASSUME FleetAssumption == /\ NoUser \notin Users
                          /\ NoClaim \notin Requests
                          /\ MaxCrashes \in Nat

\* What a container is created from: the mounted user directory, which is also
\* the current_user label, and the claim that stamped claimed_at.
Config == [user : Users \cup {NoUser}, at : Requests \cup {NoClaim}]

Sentinel == [user |-> NoUser, at |-> NoClaim]

VARIABLES
  job,        \* what each request asks: [kind, agent, user]
  pc,         \* where each request's handler is; the last values are answers
  override,   \* compose.override/<agent>.yml: {} while absent or truncated
  container,  \* what docker runs for each agent
  comp,       \* the docker compose process of each request
  snap,       \* the override that process has loaded: {} until it has
  crashes,    \* adapter crashes so far
  shared,     \* history: requests that overlapped another on their agent
  wanted,     \* history: configurations asked for since the agent was quiet
  served,     \* history: calls whose user was mounted at some time during them
  trouble     \* history: agents with a failed or overlapped call since the
              \* last call that ran alone and answered ok

real  == <<job, pc, override, container, comp, snap, crashes>>
ghost == <<shared, wanted, served, trouble>>
vars  == <<real, ghost>>

Active   == {"write", "compose", "health", "inspect"}
Answers  == {"ok", "rejected", "compose_failed", "health_timeout", "internal_error"}
Running  == {"spawned", "loaded", "stopped", "started"}

Job == [kind : {"claim", "unclaim"}, agent : Agents, user : Users]

TypeOK ==
  /\ job \in [Requests -> Job]
  /\ pc \in [Requests -> {"idle", "lost"} \cup Active \cup Answers]
  /\ override \in [Agents -> SUBSET Config]
  /\ container \in [Agents -> [cfg : Config, running : BOOLEAN]]
  /\ comp \in [Requests -> {"none"} \cup Running]
  /\ snap \in [Requests -> SUBSET Config]
  /\ crashes \in 0..MaxCrashes
  /\ shared \subseteq Requests
  /\ wanted \in [Agents -> SUBSET Config]
  /\ served \subseteq Requests
  /\ trouble \subseteq Agents

-----------------------------------------------------------------------------
AgentOf(r) == job[r].agent

\* The override a request writes: its user's mount, or the sentinel's.
Want(r) == IF job[r].kind = "claim"
             THEN [user |-> job[r].user, at |-> r]
             ELSE Sentinel

\* A request is live while its handler or its compose process is.
Live(r)   == pc[r] \in Active \/ comp[r] # "none"
Others(r) == {q \in Requests \ {r} : Live(q) /\ AgentOf(q) = AgentOf(r)}

\* The calls under way whose user container configuration c mounts on agent a.
Mounts(a, c) ==
  {q \in Requests : pc[q] \in Active /\ AgentOf(q) = a /\ Want(q).user = c.user}

\* A handler runs without an await from truncating the file to spawning
\* docker compose: no other handler moves in between, docker may.
LoopIsMine(r) == \A q \in Requests \ {r} : pc[q] # "write"

\* What docker compose makes of the base file and the agent's override.
Effective(a) == IF override[a] = {} THEN {Sentinel} ELSE override[a]

Goto(r, l) == pc' = [pc EXCEPT ![r] = l]

\* A call that ends badly, or beside another one, leaves its agent in doubt.
Ends(r, answer) ==
  /\ Goto(r, answer)
  /\ trouble' = IF answer = "ok" /\ r \notin shared
                  THEN trouble \ {AgentOf(r)}
                  ELSE trouble \cup {AgentOf(r)}

-----------------------------------------------------------------------------
\* A fleet that runs: every container is up with the sentinel mounted and no
\* override has been written yet.
Init ==
  /\ job \in [Requests -> Job]
  /\ pc = [r \in Requests |-> "idle"]
  /\ override = [a \in Agents |-> {}]
  /\ container = [a \in Agents |-> [cfg |-> Sentinel, running |-> TRUE]]
  /\ comp = [r \in Requests |-> "none"]
  /\ snap = [r \in Requests |-> {}]
  /\ crashes = 0
  /\ shared = {}
  /\ wanted = [a \in Agents |-> {}]
  /\ served = {}
  /\ trouble = {}

\* An assertion or a validation fails: answered before anything is touched.
Reject(r) ==
  /\ LoopIsMine(r) /\ pc[r] = "idle"
  /\ Goto(r, "rejected")
  /\ UNCHANGED <<job, override, container, comp, snap, crashes, ghost>>

\* write_text opens the override for writing, which truncates it.
BeginWrite(r) ==
  /\ LoopIsMine(r) /\ pc[r] = "idle"
  /\ Goto(r, "write")
  /\ override' = [override EXCEPT ![AgentOf(r)] = {}]
  /\ IF Others(r) = {}
       THEN /\ wanted' = [wanted EXCEPT ![AgentOf(r)] = {Want(r)}]
            /\ UNCHANGED shared
       ELSE /\ wanted' = [wanted EXCEPT ![AgentOf(r)] = @ \cup {Want(r), Sentinel}]
            /\ shared' = shared \cup {r} \cup Others(r)
  /\ served' = IF container[AgentOf(r)].cfg.user = Want(r).user
                 THEN served \cup {r} ELSE served
  /\ UNCHANGED <<job, container, comp, snap, crashes, trouble>>

\* Mutant: the file is not closed: its text may not be there yet when docker
\* compose is spawned.
FinishWrite_Unflushed(r) ==
  /\ pc[r] = "write"
  /\ Goto(r, "compose")
  /\ \E text \in {{}, {Want(r)}} : override' = [override EXCEPT ![AgentOf(r)] = text]
  /\ comp' = [comp EXCEPT ![r] = "spawned"]
  /\ UNCHANGED <<job, container, snap, crashes, ghost>>

\* The text reaches the file; docker compose is spawned on the glob of overrides.
FinishWrite(r) ==
  /\ pc[r] = "write"
  /\ Goto(r, "compose")
  /\ override' = [override EXCEPT ![AgentOf(r)] = {Want(r)}]
  /\ comp' = [comp EXCEPT ![r] = "spawned"]
  /\ UNCHANGED <<job, container, snap, crashes, ghost>>

\* The write raises (a full disk): not a FleetError, so a plain 500, and the
\* truncated file stays.
WriteFails(r) ==
  /\ pc[r] = "write"
  /\ Ends(r, "internal_error")
  /\ UNCHANGED <<job, override, container, comp, snap, crashes, shared, wanted, served>>

-----------------------------------------------------------------------------
\* The docker compose process: external, it may hang or fail at any of these.

\* It reads the override as it is now, not as this request wrote it.
ComposeLoads(r) ==
  /\ comp[r] = "spawned"
  /\ comp' = [comp EXCEPT ![r] = "loaded"]
  /\ snap' = [snap EXCEPT ![r] = Effective(AgentOf(r))]
  /\ UNCHANGED <<job, pc, override, container, crashes, ghost>>

ComposeStops(r) ==
  /\ comp[r] = "loaded"
  /\ comp' = [comp EXCEPT ![r] = "stopped"]
  /\ container' = [container EXCEPT ![AgentOf(r)].running = FALSE]
  /\ UNCHANGED <<job, pc, override, snap, crashes, ghost>>

\* Mutant: `up -d` without --force-recreate restarts the old container.
ComposeStarts_NoRecreate(r) ==
  /\ comp[r] = "stopped"
  /\ comp' = [comp EXCEPT ![r] = "started"]
  /\ container' = [container EXCEPT ![AgentOf(r)].running = TRUE]
  /\ UNCHANGED <<job, pc, override, snap, crashes, ghost>>

\* The new container replaces the old one and starts.
ComposeStarts(r) ==
  /\ comp[r] = "stopped"
  /\ comp' = [comp EXCEPT ![r] = "started"]
  /\ \E c \in snap[r] :
       /\ container' = [container EXCEPT ![AgentOf(r)] = [cfg |-> c, running |-> TRUE]]
       /\ served' = served \cup Mounts(AgentOf(r), c)
  /\ UNCHANGED <<job, pc, override, snap, crashes, shared, wanted, trouble>>

\* A process that outlived the adapter ends, done or not.
OrphanEnds(r) ==
  /\ pc[r] = "lost" /\ comp[r] # "none"
  /\ comp' = [comp EXCEPT ![r] = "none"]
  /\ UNCHANGED <<job, pc, override, container, snap, crashes, ghost>>

-----------------------------------------------------------------------------
\* Exit status 0: a claim goes on to wait for health, an unclaim does not.
ComposeExits(r) ==
  /\ LoopIsMine(r) /\ pc[r] = "compose" /\ comp[r] = "started"
  /\ Goto(r, IF job[r].kind = "claim" THEN "health" ELSE "inspect")
  /\ comp' = [comp EXCEPT ![r] = "none"]
  /\ UNCHANGED <<job, override, container, snap, crashes, ghost>>

\* Mutant: the exit status is not looked at.
ComposeFails_Ignored(r) ==
  /\ LoopIsMine(r) /\ pc[r] = "compose" /\ comp[r] \in {"spawned", "loaded", "stopped"}
  /\ Goto(r, "inspect")
  /\ comp' = [comp EXCEPT ![r] = "none"]
  /\ UNCHANGED <<job, override, container, snap, crashes, ghost>>

\* A non-zero exit, wherever docker compose gave up.
ComposeFails(r) ==
  /\ LoopIsMine(r) /\ pc[r] = "compose" /\ comp[r] \in {"spawned", "loaded", "stopped"}
  /\ Ends(r, "compose_failed")
  /\ comp' = [comp EXCEPT ![r] = "none"]
  /\ UNCHANGED <<job, override, container, snap, crashes, shared, wanted, served>>

\* Mutant: the timeout answers without killing the process.
ComposeTimeout_NoKill(r) ==
  /\ LoopIsMine(r) /\ pc[r] = "compose"
  /\ Ends(r, "compose_failed")
  /\ UNCHANGED <<job, override, container, comp, snap, crashes, shared, wanted, served>>

\* Mutant: proc.communicate() is awaited without wait_for.
ComposeTimeout_Never(r) == FALSE /\ UNCHANGED vars /\ r \in Requests

\* COMPOSE_UP_TIMEOUT passes: the process is killed wherever it is.
ComposeTimeout(r) ==
  /\ LoopIsMine(r) /\ pc[r] = "compose"
  /\ Ends(r, "compose_failed")
  /\ comp' = [comp EXCEPT ![r] = "none"]
  /\ UNCHANGED <<job, override, container, snap, crashes, shared, wanted, served>>

\* /v1/health is asked of whatever container has the agent's name.
HealthOk(r) ==
  /\ LoopIsMine(r) /\ pc[r] = "health" /\ container[AgentOf(r)].running
  /\ Goto(r, "inspect")
  /\ UNCHANGED <<job, override, container, comp, snap, crashes, ghost>>

\* Mutant: a bare TimeoutError instead of HealthTimeoutError, whose reason no
\* caller knows.
HealthTimeout_Bare(r) ==
  /\ LoopIsMine(r) /\ pc[r] = "health"
  /\ Ends(r, "timeout")
  /\ UNCHANGED <<job, override, container, comp, snap, crashes, shared, wanted, served>>

\* HEALTH_WAIT_TIMEOUT passes: an error answer, but the new mount stays.
HealthTimeout(r) ==
  /\ LoopIsMine(r) /\ pc[r] = "health"
  /\ Ends(r, "health_timeout")
  /\ UNCHANGED <<job, override, container, comp, snap, crashes, shared, wanted, served>>

\* docker inspect, then the ok answer; a stopped container is still an ok.
InspectAndAnswer(r) ==
  /\ LoopIsMine(r) /\ pc[r] = "inspect"
  /\ Ends(r, "ok")
  /\ UNCHANGED <<job, override, container, comp, snap, crashes, shared, wanted, served>>

\* The adapter dies.  Its compose processes die with it (one container) or
\* outlive it (a host install).
Crash ==
  /\ crashes < MaxCrashes
  /\ crashes' = crashes + 1
  /\ pc' = [r \in Requests |-> IF pc[r] \in Active THEN "lost" ELSE pc[r]]
  /\ comp' \in {comp, [r \in Requests |-> "none"]}
  /\ trouble' = trouble \cup {AgentOf(r) : r \in {q \in Requests : pc[q] \in Active}}
  /\ UNCHANGED <<job, override, container, snap, shared, wanted, served>>

Handler(r) ==
  \/ Reject(r) \/ BeginWrite(r) \/ FinishWrite(r) \/ WriteFails(r)
  \/ ComposeExits(r) \/ ComposeFails(r) \/ ComposeTimeout(r)
  \/ HealthOk(r) \/ HealthTimeout(r) \/ InspectAndAnswer(r)

Docker(r) == ComposeLoads(r) \/ ComposeStops(r) \/ ComposeStarts(r) \/ OrphanEnds(r)

Next == Crash \/ \E r \in Requests : Handler(r) \/ Docker(r)

Spec == Init /\ [][Next]_vars

\* The loop runs a ready handler and its timers fire; docker owes nothing.  The
\* docker inspect of InspectAndAnswer has no timer: it may hang for ever.
Timers(r) == FinishWrite(r) \/ ComposeTimeout(r) \/ HealthTimeout(r)

FairSpec == Spec /\ \A r \in Requests : WF_vars(Timers(r))

-----------------------------------------------------------------------------
\* An ok answer to a call that had its agent to itself (claim_agent,
\* unclaim_agent) is exact: the container was created from the configuration
\* asked for and the override on disk says the same.  Claims on other agents,
\* crashes and failed or killed calls before it do not matter.
AloneOkIsExact ==
  [][\A r \in Requests \ shared :
       pc[r] # "ok" /\ pc'[r] = "ok"
         => /\ container'[AgentOf(r)].cfg = Want(r)
            /\ override'[AgentOf(r)] = {Want(r)}]_vars

\* docker compose only installs a configuration that one of the calls
\* overlapping it asked for, or the sentinel it falls back on when it meets
\* another call's truncated file: never a leftover of an earlier claim.
RemountIsWanted ==
  [][\A a \in Agents :
       container'[a].cfg # container[a].cfg => container'[a].cfg \in wanted[a]]_vars

\* Container and override only part after a failed, lost or overlapped call.
\* Until then a quiet agent's container runs what its override file says, so a
\* later `docker compose up` changes nothing.
QuietAgentHasNoDrift ==
  \A a \in Agents \ trouble :
    (\A r \in Requests : AgentOf(r) = a => ~Live(r))
      => /\ container[a].running
         /\ Effective(a) = {container[a].cfg}

\* docker compose may hang and the container may never be healthy: the two
\* timeouts still bring every call to its answer, or as far as the docker inspect
\* before it (which nothing bounds), unless the adapter dies.
CallsPassCompose ==
  \A r \in Requests :
    pc[r] \in {"write", "compose", "health"}
      ~> pc[r] \in {"inspect", "lost"} \cup Answers

\* The contract of fleet/__init__.py:12-15, "bind-mount user's workspace into
\* the agent container, force-recreate, wait for health, return": a claim that
\* answers ok had its user mounted in the agent's container at some time during
\* the call, whoever's claim mounted it.  Asked only while the container mounts a
\* user, so that what docker makes of a truncated override does not matter.
OkClaimWasMounted ==
  \A r \in Requests :
    /\ pc[r] = "ok" /\ job[r].kind = "claim"
    /\ container[AgentOf(r)].cfg.user # NoUser
    => r \in served

-----------------------------------------------------------------------------
\* The register this implements: a request is open from its first write to its
\* answer, or until the compose process it left behind by a crash ends.
Phase(r) ==
  CASE pc[r] = "idle" -> "new"
    [] pc[r] = "ok"   -> "ok"
    [] pc[r] \in Active \/ (pc[r] = "lost" /\ comp[r] # "none") -> "open"
    [] OTHER -> "failed"

Register == INSTANCE ClaimRegister WITH
  Configs <- Config,
  Default <- Sentinel,
  task    <- [r \in Requests |-> [agent |-> AgentOf(r), want |-> Want(r)]],
  phase   <- [r \in Requests |-> Phase(r)],
  mounted <- [a \in Agents |-> container[a].cfg],
  allowed <- wanted

\* Override files, compose processes, timeouts and crashes implement the
\* register of ClaimRegister: once a call is answered it no longer remounts.
ImplementsRegister == Register!Spec
=============================================================================
