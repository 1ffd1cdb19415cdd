------------------------------ MODULE FleetHost ------------------------------
(***************************************************************************)
(* The fleet orchestrator with the two parties that look at the same       *)
(* containers: GET /fleet/status, which reads a container with three       *)
(* separate docker inspects, and the operator's ./fleet wrapper, which     *)
(* brings every agent to what the override files say, or stops them all    *)
(* (scripts/install-fleet.sh).  A run of the wrapper is one step: it is a  *)
(* command on the host, taken here to load and apply without interleaving. *)
(***************************************************************************)
EXTENDS FleetClaim

CONSTANTS Readers,   \* status calls
          MaxCmds    \* bound on ./fleet commands

ASSUME HostAssumption == MaxCmds \in Nat

VARIABLES
  cmds,    \* ./fleet up and down commands so far
  row,     \* the row each status call builds: [at step, agent, user, claimed, healthy]
  unsettled \* history: status calls whose agent was not settled all the time

hostVars == <<vars, cmds, row, unsettled>>

Row == [step : {"new", "user", "claimed", "done"}, agent : Agents,
        user : Users \cup {NoUser}, claimed : Requests \cup {NoClaim}, healthy : BOOLEAN]

HostTypeOK == TypeOK /\ cmds \in 0..MaxCmds /\ row \in [Readers -> Row] /\ unsettled \subseteq Readers

HostInit ==
  /\ Init
  /\ cmds = 0
  /\ row \in [Readers -> [step : {"new"}, agent : Agents, user : {NoUser},
                          claimed : {NoClaim}, healthy : {FALSE}]]
  /\ unsettled = {}

\* No call on the agent is under way, and the last one ran alone and answered ok.
Settled(a) == a \notin trouble /\ \A r \in Requests : AgentOf(r) = a => ~Live(r)

\* The status calls that read an agent while it is not settled.
Disturbed == {s \in Readers : row[s].step \in {"user", "claimed"} /\ ~Settled(row[s].agent)}

\* Mutant: the wrapper passes only the base file.
FleetUp_BaseOnly ==
  /\ cmds < MaxCmds
  /\ cmds' = cmds + 1
  /\ container' = [a \in Agents |-> [cfg |-> Sentinel, running |-> TRUE]]
  /\ UNCHANGED <<job, pc, override, comp, snap, crashes, shared, wanted, trouble, row, served>>
  /\ unsettled' = unsettled \cup Disturbed'

\* docker compose -f base -f every override up -d: containers that differ from
\* their configuration are recreated, stopped ones are started.
FleetUp ==
  /\ cmds < MaxCmds
  /\ cmds' = cmds + 1
  /\ \E c \in [Agents -> Config] :
       /\ \A a \in Agents : c[a] \in Effective(a)
       /\ container' = [a \in Agents |-> [cfg |-> c[a], running |-> TRUE]]
       /\ served' = served \cup UNION {Mounts(a, c[a]) : a \in Agents}
  /\ UNCHANGED <<job, pc, override, comp, snap, crashes, shared, wanted, trouble, row>>
  /\ unsettled' = unsettled \cup Disturbed'

\* docker compose stop: the containers stay, stopped.
FleetDown ==
  /\ cmds < MaxCmds
  /\ cmds' = cmds + 1
  /\ container' = [a \in Agents |-> [container[a] EXCEPT !.running = FALSE]]
  /\ UNCHANGED <<job, pc, override, comp, snap, crashes, ghost, row>>
  /\ unsettled' = unsettled \cup Disturbed'

\* One docker inspect of a status call, at a moment the loop is free.
Inspect(s, from, to, read) ==
  /\ \A q \in Requests : pc[q] # "write"
  /\ row[s].step = from
  /\ row' = [row EXCEPT ![s] = [read EXCEPT !.step = to]]
  /\ UNCHANGED <<vars, cmds>>
  /\ unsettled' = unsettled \cup Disturbed'

\* The container's current_user label.
ReadUser(s) ==
  Inspect(s, "new", "user", [row[s] EXCEPT !.user = container[row[s].agent].cfg.user])

\* Mutant: the second inspect reads the first one's label again.
ReadClaimedAt_WrongLabel(s) ==
  Inspect(s, "user", "claimed", [row[s] EXCEPT !.claimed = container[row[s].agent].cfg.user])

\* The container's claimed_at label.
ReadClaimedAt(s) ==
  Inspect(s, "user", "claimed", [row[s] EXCEPT !.claimed = container[row[s].agent].cfg.at])

\* State.Running; the row is then complete.
ReadHealth(s) ==
  Inspect(s, "claimed", "done", [row[s] EXCEPT !.healthy = container[row[s].agent].running])

Orchestrator == Next /\ UNCHANGED <<cmds, row>> /\ unsettled' = unsettled \cup Disturbed'

HostNext ==
  \/ Orchestrator
  \/ FleetUp \/ FleetDown
  \/ \E s \in Readers : ReadUser(s) \/ ReadClaimedAt(s) \/ ReadHealth(s)

HostSpec == HostInit /\ [][HostNext]_hostVars

\* As in FleetClaim: the loop and its timers, but nothing of docker's.
HostFairSpec == HostSpec /\ \A r \in Requests : WF_vars(Timers(r))

-----------------------------------------------------------------------------
\* ./fleet up starts every agent, and a quiet one whose last call ran alone and
\* succeeded with the mount that call gave it, also after a ./fleet down; one that
\* runs is not touched.
UpKeepsSettledAgents ==
  [][FleetUp =>
       \A a \in Agents :
         Settled(a) => container'[a] = [container[a] EXCEPT !.running = TRUE]]_hostVars

\* A status call that finds its agent settled all along names what the last call
\* wrote: user and claim time are those of the override file, which no ./fleet up
\* between the inspects (get_status awaits each) and no earlier failed, killed or
\* orphaned call may have parted from the container.
RowNamesLastCall ==
  [][\A s \in Readers \ unsettled' :
       row[s].step # "done" /\ row'[s].step = "done" =>
         Effective(row[s].agent) = {[user |-> row'[s].user, at |-> row'[s].claimed]}]_hostVars
=============================================================================
