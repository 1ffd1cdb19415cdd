# Verification of hermes-adapter

TLA+ models of the parts of `hermes_adapter` in which order, failure and
concurrency decide whether the program is right; TLC checks small instances of
them, and TLAPS proves every safety property and every refinement that TLC checks
for all values of the constants. Paths below are relative to `src/`.

    tlc -config MCFleetClaim_safety.cfg MCFleetClaim      # one run
    tlapm FleetProofs.tla                                 # one proof module

`PROJECT.json` lists every run, the lines each definition stands for, the
hazards, and for each property a mutant of the code that breaks it. A mutant is
an operator `X_Change` right before the operator `X` it would replace.

## 1. The system

hermes-adapter puts hermes agents behind HTTP. It is a handful of processes:

| part | source | state | operations |
|---|---|---|---|
| fleet orchestrator | `hermes_adapter/fleet/` | override file per agent; containers (docker's) | claim, unclaim, status |
| `./fleet` wrapper | `scripts/install-fleet.sh` | the same files and containers | up, down, set |
| gateway streaming | `hermes_adapter/gateway/openai_compat.py`, `a2a_routes.py` | thread pool; per request a queue and a future | chat completions, `message/stream`, `tasks/send` |
| A2A executor | `hermes_adapter/a2a/server.py` | its own pool, queue, future | execute, cancel |
| symbols cache | `hermes_adapter/workspace/symbols_cache.py` | `_cache` in each process | get_or_build, invalidate |
| file routes | `hermes_adapter/workspace/routes/file.py` | the working trees | GET, POST, DELETE `/file` |
| git routes | `hermes_adapter/workspace/routes/git.py`, `proc.py` | the repos and their index locks | commit, push, pull, pr and read-only commands |
| active link | `hermes_adapter/workspace/routes/activate.py`, `repo_finder.py` | the `active` symlink | activate, deactivate, find_repo |
| supervisor | `hermes_adapter/supervisor.py` | pid and state file, port, child processes | up, down, status |
| repo init | `hermes_adapter/workspace/routes/init.py` | the working trees | clone, pull or create |
| manifest, CLI | `hermes_adapter/manifest.py`, `cli.py` | `agents.yaml`, agent homes | init, agent add/remove, serve |
| LLM proxy | `hermes_adapter/proxy/` | none; one upstream session per request | relay |
| A2A client | `hermes_adapter/a2a/client.py` | agent card cache | discover, call, scan |
| the rest | `workspace/app.py`, `mount.py`, `cors.py`, `gateway/app.py`, entry points, installers, images | none | assembling, rendering, listing |

How they meet: the gateway mirrors the workspace routes
(`gateway/workspace_routes.py`) in a second process on the same trees but with
its own symbols cache; the orchestrator and the wrapper act on the same
containers through the same override files; the supervisor runs the workspace
application in its own process and each agent's gateway as a child; `up`, `down`
and `status` know one another by two files only; the file and git routes reach a
repo through the link that activate moves.

What is hard here:

- *asyncio handlers* interleave at every `await`, and much of the state they look
  at (override files, the link, the repo path) is read before one and used after;
- *threads*: agents and cache fills run in pools beside the event loop;
- *external processes* (docker compose, docker's daemon, git, gateways) run on
  when a handler has failed, timed out or died, and fail half-way themselves;
- *nothing is locked*: no per-agent lock on claims, no lock on the pid file, only
  git's index lock and the listening port;
- *errors are answers*: most failures leave partial effects and an answer whose
  meaning the next request depends on.

What makes each part correct (the properties that are checked are in section 3):

- orchestrator: an ok answer is exact; an error never brings an old user back;
  file and container agree whenever nobody is at work and nothing has failed;
- streaming: clients see a prefix of what the agent said, in order; terminal
  events come once, last; every handler comes to an end once its run has;
- cache: bounded staleness; an invalidation that nothing races with holds;
- supervisor: never two stacks on one port at once, no agent outlives its
  supervisor's own shutdown, a dead agent stops the stack, `down` finds what `up`
  started;
- link and git: an acknowledged write stays where it went, and that is where its
  repo was found or has been rebound to; a commit on its own leaves none behind;
- manifest: an interrupted command leaves something a retry repairs;
- init: an init on its own is answered truly; none takes away what was written;
- proxy, client: resources are released, a broken stream is told from a complete one.

## 2. Modules

| module | models | extends / uses |
|---|---|---|
| `ClaimRegister` | abstract: per agent, which calls may determine its mount, and a register they write | |
| `FleetClaim` | claim and unclaim, override files, docker compose processes, crashes | refines `ClaimRegister` |
| `FleetHost` | `FleetClaim` with status calls, `./fleet up` and `down` | extends `FleetClaim` |
| `TextPipe` | abstract: a pipe of text that closes complete or breaks | |
| `AgentStream` | the four ways to run an agent for a client | refines `TextPipe` (chats) |
| `ProxyRelay` | one relayed LLM call, its upstream session and its two ends | refines `TextPipe` |
| `A2AClient` | discover and call of the A2A client, the card cache, the event stream | |
| `SymbolsCache` | the cache, its fills, the routes that write files | |
| `Supervisor` | `up` and `down` processes, children, port, pid and state file | |
| `ActiveWorkspace` | the `active` link under writes, commits and git commands | |
| `RepoInit` | init (clone, pull, create), find_repo and POST `/file` for one repository name | |
| `ManifestFile` | `agents.yaml` and the agents' homes under `init`, `agent add`, `agent remove` and `up` | |
| `MC...` | symmetry sets for TLC | |
| `FleetProofs` | theorems of both fleet modules | extends `FleetHost` |
| `WorkspaceProofs` | theorems of the cache and of the link | extends `SymbolsCache`, `ActiveWorkspace` |
| `AgentStreamProofs`, `ManifestFileProofs`, `SupervisorProofs`, `RepoInitProofs`, `A2AClientProofs`, `ProxyRelayProofs` | theorems | each extends its component |

### FleetClaim

`pc[r]` is where the handler of request `r` is in `claim_agent` /
`unclaim_agent`: `write` (the override is truncated, not yet written), `compose`,
`health`, `inspect`, then its answer. `override[a]` is the file, `{}` while it is
absent or empty; `container[a]` what docker runs; `comp[r]` the docker compose
process the request has started, with `snap[r]` the override it has loaded. A
process reads the override when it runs, not when the request wrote it, and an
empty one falls back on the base file's sentinel mount. `Reject` .. 
`InspectAndAnswer` are the handler, `ComposeLoads`, `ComposeStops`,
`ComposeStarts`, `OrphanEnds` the process (docker is external: these are the
steps after which it can fail or be killed). The event loop runs one handler at a
time: `LoopIsMine` keeps other handlers out of the stretch between truncating the
file and spawning docker compose, which has no await; docker's own steps are not
kept out. `Crash` kills every handler, with or without their processes.
`shared`, `wanted`, `served` and `trouble` are history; a call is in `served` once its
user has been mounted at some time while it was under way.

`FleetHost` adds the three `docker inspect` calls of `get_status`, one step each,
and the wrapper: `FleetUp`, `compose up` with every override file, and
`FleetDown`, `compose stop`, each taken as one step. `unsettled` holds the status
calls during which their agent was not settled: a call on it was under way, or the
last one had failed or met another.

### AgentStream

`kind[r]` is one of `chat` (streaming chat completion), `task` (`message/stream`),
`once` (both non-streaming paths), `exec` (`HermesAgentExecutor.execute`). The first
three share the gateway's thread pool, `exec` has that of the A2A server (`Pool`);
`Mixes` says which kinds may come together. `Submit` goes straight to the first get,
because no await comes between `run_in_executor` and the first `done()`. The agent's
thread appends to `sent` and `queue` (`Delta`, `ToolCall`) and ends (`FinishRun`); the
future becomes done on the loop, a step later (`FutureResolves`). The handler alternates
between looking at the future (`Poll`) and a 50 ms get (`GetDelta`, `GetTimeout`;
`EnqueueFails` when the executor cannot enqueue what it took and swallows the error),
then awaits the future and closes (`ChatEnds`, `TaskEnds`, `OnceEnds`, `ExecEnds`) or
lets an exception out (`Aborts`). `accumulated[r]` is the text that a task or an
execution has taken from the queue and repeats in each artifact. `out[r]` is what the
client has been sent, in order. Text is a sequence of delta numbers, so lost, repeated
and reordered text differ. What the four paths do differently, and where the difference
shows:

| | chat | task | exec |
|---|---|---|---|
| sends | each delta | all text so far | all text so far |
| drains after the future | and sends | and does not send | not at all |
| no text streamed | error only | final response | final response or error |
| `RuntimeError` | closing events | failed | let out |
| other exceptions | let out | let out | let out |

### ProxyRelay

`pc[r]` is where `handle_proxy` awaits: the agent's `body`, the upstream
`request`, `prepare`, `read` (the `iter_any` loop) and `write`, or `over`, with
`how` it ended. The `ClientSession` is opened by `Ask` and closed by `Unreachable`
(the one `except`) or by the loop's `finally`; `Late` around the request and
`PrepareFails` raise outside both, so the session stays open, which
`CallsEndAndFree` names. The upstream (`UpstreamAnswers`, `UpstreamSends`,
`UpstreamStops`) and the agent (`AgentLeaves`) are external. A chunk is its number;
it goes from `produced` through `buffer` (aiohttp's) and `chunk` (the handler's) to
`received`. `eof` is the one end that maps to a closed pipe: `write_eof` was
reached and the agent was still there.

### A2AClient

`pc[c]` is where a thread is in `a2a_discover` or `a2a_call`: `fetch` and `store` of
the card, `send` or `stream`, then `returned` with a `reply`. `cache`
is the one entry of the URL; `AgentServesCard` is the moment the remote agent, by
then perhaps another one, makes the card, `StoresCard` the later one at which the
thread puts it in the cache with an expiry. `FetchFails` is what follows when no
card comes, and `age[c]` is how old the card was that the call went by. Events
hold what the code looks at: an artifact's text (all so far, so one number) and
whether the status is terminal.

### SymbolsCache

A *slot* is one cache key in one process: the gateway and the workspace
application cache separately, and `repo` and `login/repo` are different keys for
one tree. `build[b]` is a thread in `get_or_build`; the walk reads one file per
step (`ReadFile`, or `SkipFile` for an error), and `Store` stamps the entry with
the time before the walk. Contents are version numbers, so "older" is `<`.
`write[w]` is a handler between the change on disk and its `invalidate`;
`WriteFails` is a change that raised half-way; `ChangeBehind` is everything that
changes files and does not know the cache. `asOf`, `acked`, `owed` and `settled`
are history.

### Supervisor

`sup[s]` is where an `up` process is (boot, bind, spawn, ready, stop, stopping,
draining, leaving or failing, then exited, failed or killed), `child[s][a]` its
gateway for agent `a`. Signals act by where the process is: before the handlers
are installed SIGTERM kills it, afterwards it starts the shutdown, and during the
shutdown it does nothing. `opened` holds the processes that have the pid file
open and unwritten: unlinking it meanwhile sends the pid nowhere. `portOf` is the
`adapter.port` of the manifest each `up` was given, `bound` who listens on theirs: the
run files are shared by all, a port only by those whose manifests name it. A `down` is
another process and takes every step of `stop_running` (exists, read, signal,
poll, SIGKILL) on its own.

### ActiveWorkspace

The module's `LinkInit`, `LinkNext` and `LinkSpec` have names of their own because
`WorkspaceProofs` extends it beside `SymbolsCache`. `active` is what the link points
to, `NoEntry` without an entry, or `Plain` when it is a directory of its own, which
`makedirs` can leave there. One repo name is asked for, alone or as `login/repo`; a
*place* is a directory it can lead to, `<<user, Bare>>`, `<<user, login>>` (init below
`/active` clones there, `init.py:71-73`) or one in a plain `active`. A handler looks
its repo up (`Find`: below the link first, then for a login below the mount) and awaits
its body, keeping the `path`; each later use of the path resolves it again
(`PostFile`, `StartAdd`, `StartCommit`, `StartPr`). A git process stays in the
directory it was started in (`cwd`). Files are the requests that wrote them, so every
write is of its own file; `dirty`, `staged` and `commits` are git's three places,
`lock` its index lock. `found`, `touched`, `before`, `mixed` and `unadded` (commits
whose `git add` failed unseen) are history.

### RepoInit

One repository name and every place it may be at, numbered in the order in which
`find_repo` looks: the direct child of the root, the owners' directories, the
legacy path. `dir` says what is there (`plain` is a directory no git has made,
`partial` one that a clone has begun), `files` what was posted into it, `tops` which
owner directories exist. `isolated` is the layout in which the root ends in
`/active` and only the direct child counts. `InitPulls` .. `InitClones` are
`handle_init` up to its git process, with no await in between; `PullAnswers`,
`EmptyAnswers`, `CloneAnswers` the rest of it. `proc[r]` is the git process: a clone
removes what it has made when it fails (`cloning`), or only the contents when the
directory was there (`filling`), and nothing when it is killed. `alone` marks calls
that no other handler or process has met, `sound` a write into a repository.

### ManifestFile

Each command of the CLI is a process. `at[c]` is what it does next: make the home
(`mkdir`, then `openEnv`, `fillEnv`, `openCfg`, `fillCfg`, since `write_text` truncates
and then writes), save (`truncate`, `write`), `purge` a home, `start` the agents, or how
it ended: `torn` when it was killed with a file of the home empty. `mem[c]` is the
manifest it has loaded and changed. `AnyPort` stands for a command line without a port,
which takes the first of `Pickable` that is free. `file` is what is on disk: a manifest,
`Absent`, or `Blank` between `write_text`'s truncation and its write, which `load` takes
for a manifest without agents and key. An entry remembers the add that made it, a home
the adds that wrote its two files; what is there already is kept. `rmtree` deletes one
thing after the other. `told` is what the answers so far say the file holds, `mixed` the
commands that ran beside one that writes: for those nothing is promised, because the
second save overwrites the first.

## 3. Runs

States are distinct states; runs take seconds to about two minutes and a half.

| run | instance | states | shows |
|---|---|---|---|
| `fleet_claims` | 2 agents, 2 users, 3 calls, 1 crash | 2.20 M | `TypeOK`, `QuietAgentHasNoDrift`, `AloneOkIsExact`, `RemountIsWanted`, `ImplementsRegister` |
| `fleet_host` | 1 agent, 1 user, 2 calls, 1 crash, 1 status, 2 wrapper commands | 830 k | `UpKeepsSettledAgents`, `RowNamesLastCall`, `CallsPassCompose`, `HostTypeOK` |
| `agent_streams` | 2 gateway requests of any kinds on 1 thread, or 1 execution beside 1 request; 2 deltas, 1 tool call, 1 cancel | 413 k | `TypeOK`, `StreamClosesOnce`, `TaskArtifactsGrow`, `ChatImplementsPipe`, `EveryHandlerEnds` |
| `symbols` | 2 files, 1 slot, 2 fills, 1 writer, TTL 2, time 0..2 | 1.74 M | `BoundedStaleness`, `QuietInvalidateSticks`, `TypeOK` |
| `supervisor` | 2 ups on one port or two, 2 agents, 1 down | 1.33 M | `StopLeavesNoAgent`, `StacksDoNotOverlap`, `FilesNameTheSupervisor`, `DeadAgentStopsStack`, `TypeOK` |
| `active_link` | 2 users, 3 requests of 4 kinds for a repo or login/repo, 2 rebinds | 6.9 M | `WriteIsKept`, `LoneCommitIsComplete`, `LinkTypeOK` |
| `manifest` | 4 commands of any kind, 2 names, ports 1..7 | 8.5 M | `PortsNeverCollide`, `ListedHasHome`, `LoneUpStartsWhatWasTold`, `TypeOK` |
| `repo_init` | 3 calls, 3 owners (one of them `.git` or `local`, one the user's), both layouts, 1 crash | 553 k | `WrittenIsKept`, `OddityHasReason`, `LoneAnswerIsTrue`, `TypeOK` |
| `proxy_relay` | 1 call, 4 chunks | 666 | `RelayImplementsPipe`, `CallsEndAndFree`, `TypeOK` |
| `a2a_client` | 2 calls, TTL 2, fetches of at most 1, time 0..5, 2 artifacts per stream | 271 k | `CardIsRecent`, `CallsReturnAllText`, `TypeOK` |

Two runs are expected to end in a violation. Each states what a docstring says, and
TLC shows how the code does otherwise:

| run | property | what happens |
|---|---|---|
| `fleet_contract` | `OkClaimWasMounted` | claims of two users overlap; docker compose of the first installs the second's override, and the first answers ok though its user was at no time mounted |
| `task_text` | `TaskShowsAllText` | the first get times out, then a delta arrives and the run ends before the next poll: the delta is drained and not sent, and since it is then in the accumulated text the final response is not sent either |

Bounds, and why they are enough for these questions. Three calls on one agent
are needed for a leftover: one that fails and leaves its file, one that overlaps
it, one that runs alone afterwards. Two agents show that overrides read across
agents change nothing; claims on different agents share only the base file. With
status and the wrapper one user is enough: two claims of one user still differ in
their claim time, and the user's absence is a third value. Two wrapper commands
are a `down` and the `up` after it. One
thread for two requests makes one wait for the other; the pool's size of four
only moves that point. Two deltas distinguish lost, repeated and swapped text,
and one delta before and one after the last poll. Two fills of one slot give both
orders of start and store; a third would only repeat one of them. With TTL 2 and
three ticks an entry is hit while young, hit at its last tick and missed. Two
`up`s on one pid file give every overlap of one's start with the other's life.
Three requests are a write, a commit, and one that disturbs them; two rebinds are a
deactivation, after which a write makes a plain directory, and the activation that
removes it, or a link that moves away and back. Every user has the repo, and one below
the login of the other. Four commands
are an add, the purge of its agent, a second add and an `up`, or an `init`, two
adds and an `up`; the one port a command line may give (2) is also the first that
`next_free_port` tries, so a given port, a picked one and the adapter's collide.
Six of the seven ports can be
picked, one more than four agents and the adapter hold. Three calls of `repo_init`
are two that overlap and the one that finds what they leave; the skipped owner
stands before the user's in the order of names and after another, so each is once
the first directory found and once not. Relayed calls share nothing, so one is
enough; of four chunks some are with the upstream's end, some in the buffer and
some in the handler's hand at once. Two calls are needed for one thread to store an
older card over a newer one, and five ticks pass a TTL of two twice, with a fetch
in between. Deadlock is
checked in `repo_init`, where `Rest` is the only way to stop (all answered, no
process left), and not in the others: each of those systems stops when its bounded
requests, processes or clock are used up.

Fairness. `FleetClaim`: weak fairness on the handler's own steps and timers
(`Timers`) only; docker, git and the network owe nothing, and calls get past docker
compose and the health check because `COMPOSE_UP_TIMEOUT` and `HEALTH_WAIT_TIMEOUT`
expire. The docker inspect before an answer has no timeout
(`orchestrator.py:288-297`), so nothing is assumed of it and `CallsPassCompose` ends
there. `FleetHost` assumes the same and nothing of the wrapper. `AgentStream`: the
event loop and the pool schedule what is ready and *an agent run ends*; the
adapter has no timeout of its own on it, so without that assumption nothing here
would end. `Supervisor`: a live `up` process goes on, with its watchdog and its
timeouts; agents may ignore every signal but SIGKILL. `ProxyRelay`: the loop runs
the handler, the deadline of ten minutes passes, and an agent takes what it is sent
or leaves; the upstream owes nothing, nor does an agent that is still sending its body.
`A2AClient`: threads run and httpx gives up on a silent connection; the remote owes
nothing, but each of httpx's timeouts is per read, so an agent that goes on sending
forever is bounded by `MaxTexts` and the wire here and by nothing in the code. The
safety properties need no fairness.

Mutants (`PROJECT.json`) stand for plausible slips: the TTL stamped after the
walk, `--force-recreate` dropped, the timed-out docker compose not killed, its exit
status ignored, the queue not drained, a get without a timeout, `git add` of some files
only, an activate that empties what the link points to, a listener closed before the
agents are gone, an agent add that returns early when the home is there, the manifest
saved before the home is made, a failed clone cleaned up twice, the end of the stream
written in the `finally`, an expired card used when a fetch fails, and so on.

## 4. Proofs

What is proved holds for every set of agents, users, requests, files, threads,
owners, calls, commands and processes and every bound, from the named assumptions on
the constants: `FleetAssumption`, `HostAssumption`, `StreamAssumption`,
`CacheAssumption`, `ActiveAssumption`, `SupervisorAssumption`, `InitAssumption`,
`ManifestAssumption`, `FileAssumption`, `ClientAssumption`, `RelayAssumption`. They
say that model values are distinct, that bounds are natural numbers (the TTL not 0);
for `ActiveWorkspace` that the repositories are in users' directories, any of them;
for `RepoInit` that owners are numbers and the user's directory is none of the
skipped ones; for `ManifestFile` that ports are numbers and that there are more of
them to pick from than agents and adapter can hold.

Every invariant and action property of the runs has a theorem, and so has each of
the three refinements. Each proof module has the same plan: types are invariant;
the properties are not inductive, so `IInv` adds what a step needs to know;
`Init => IInv`; one lemma per action, per group of actions that leave the same parts
alone, or per conjunct of `IInv`, that a step keeps it; then the theorems. Every
`IInv` was first checked by TLC on the instance of its run.

`FleetProofs`, about `FleetClaim`: `TypeCorrect`, `Invariance`, `NoDrift`,
`AloneExact`, `RemountWanted`, `Implements`. `IInv` is the types and

- `ProcessHasOwner`: a docker compose process belongs to a request that waits
  for it or was lost in a crash;
- `OverlapIsShared`: two live requests of one agent are both marked shared;
- `AloneProgress`: a request that is not shared has, in each of its phases, the
  override and then the container it wanted (this is what makes an ok exact);
- `WantedCovers`: what file, loaded override and live requests hold is wanted;
- `OrphanIsTrouble`: an agent with an orphaned process is in trouble;
- `QuietMount`: a quiet agent out of trouble has the mount its file says.

It says nothing of containers that run, because `./fleet down` stops them: so it is
kept by the steps of `FleetHost` too, and is the core of both. What only
`FleetClaim` has, that a quiet agent runs and that a lone request finds its
container running (`AloneRuns`, `QuietRuns`), is proved on top of it for `NoDrift` and
`AloneExact`.

`Implements` is the refinement: `Init` maps to the register's, and under `IInv` each
step is one of its steps or leaves the register as it is. `BeginWrite` is a `Begin`,
`ComposeStarts` a `Mount`, an ok answer a `Succeed` (here `AloneProgress` is what
makes the register's condition true), failures, crashes and the ends of orphans are
`Fail`; the other steps are inner ones.

About `FleetHost`: `HostInvariance`, `HostTypeCorrect`, `UpKeepsSettled`, `RowNames`.
`HostInv` is `IInv` with the types of status rows and wrapper, and `RowSettled`: a
status call that has found its agent settled so far has read the labels which the
container still has, because `./fleet up` recreates a settled container from the
configuration it has already (`QuietMount`). `UpKeepsSettled` needs `QuietMount` only:
what `./fleet up` reads from the file of a quiet agent out of trouble is what its
container has.

`AgentStreamProofs`: `TypeCorrect`, `Invariance`, `ClosesOnce`, `ArtifactsGrow`,
`Implements`, `NobodyIsForgotten`. `IInv` is the types, `BacklogWaits` (a pool's
backlog holds runs of that pool that wait, each once) and `Follows(r)` for each
request, which ties what the agent has said to what the client has been sent:

- `RunFollows`: what stage the run can be in by where its handler is;
- `QueueFollows`: while the handler is at work, what it has taken and what is queued
  are all that was produced, in order; in an execution, where a tool's hint may
  stand between two deltas, the deltas keep their order and none is missing;
- `OutFollows`: nothing that closes a stream has been sent before its end;
- `ArtifactsFollow`: each artifact is a beginning of the accumulated text and longer
  than the one before;
- `EndFollows`: a stream that has ended was closed by its last events only, but for an
  execution's `canceled`.

`Implements` is that a chat is a text pipe: `Delta` is a `Produce`, `GetDelta` a
`Receive`, `ChatEnds` receives what the drain finds and closes in one step of the
pipe, or breaks, and `QueueFollows` is why nothing is left when it closes.
`NobodyIsForgotten` is what `EveryHandlerEnds` rests on before any fairness: a
handler that waits has a run, and a run that waits is in the backlog from which its
pool's threads take theirs.

`ManifestFileProofs`: `TypeCorrect`, `Invariance`, `PortsDiffer`, `HomesOfListed`,
`LoneUpIsTold`. `IInv` is the types, `ListedHasHome` and

- `AllSound`: names and ports differ in the file and in every copy that a command
  has in memory, and each entry is signed by a command that has begun (copies
  overwrite the file, so soundness of the file alone is not inductive);
- `AtByKind`, `CopyByKind`, `BesideIsMixed`: which stages and copies a command can be at
  and have, and that a command that runs beside one that writes is mixed;
- `EmptyIsTorn`: an empty file of a home belongs to an add that is filling it or was
  killed at that;
- `HomeInTheMaking`, `CopiesHaveHomes`: what a command is about to write lists agents
  that have their homes, or homes that a purge beside it took;
- `ToldIsFile`, `ToldHaveHomes`, `CopyIsTold`, `PurgeWroteFile`: what was told is in the
  file, complete on disk, and in the copy of a command that met no writer.

That `next_free_port` finds a port, so that `TypeOK` holds after every `add`, is a count
(`FiniteSetTheorems`): an entry has a port and was added by one command, so there are
fewer of them than `Pickable`.

`WorkspaceProofs`, about `SymbolsCache`: `TypeCorrect`, `Invariance`, `Staleness`,
`Sticks`. `IInv` is the types and `BoundedStaleness` with `DiskGrows` (the disk at
earlier ticks is at most the disk now), `EntriesStamped` and `WalksStamped` (what an
entry or a walk holds is at least the disk at its stamp) and `SettledHolds` (a slot
and the fills for it hold at least what its last invalidation that met no fill left).

About `ActiveWorkspace`: `LinkInvariance`, `LinkTypeCorrect`, `WriteKept`,
`LoneCommit`. `LinkIInv` is the types, `WriteIsKept` and

- `NewIsBlank`: a request has touched nothing before its body is read;
- `StageByKind`, `LockIsHeld`, `ReposStage`: where a request of each kind can be, that
  an index lock is that of an add at work in its directory, and that only repositories
  have an index;
- `PathHolds`: what was found is what the path leads to, for a path through the mount
  always, and for one through the link until a rebind;
- `BeforeIsAnswered`: a commit looks back on answered writes only;
- `LoneStays`, `AddedIsStaged`: a commit that met no rebind runs git where its repo was
  found, and once its `git add` has ended without failing none of the writes before the
  commit is dirty. This last one is what `LoneCommit` rests on, with `WriteIsKept`: what
  is not dirty is staged, and so in this commit, or in a commit already.

`SupervisorProofs`: `TypeCorrect`, `Invariance`, `NoAgentLeft`, `NoOverlap`,
`FilesName`. `IInv` adds `PortIsHeld` (whoever is between bind and drain listens, and
no two that listen have one port), `ShutdownIsComplete`, `SoloIsAlone`,
`DownsAreAfterIt` and `FilesInPlace` (an `up` that met no other one owns both
files as far as it has written them, and each `down` on its way is after it).

`RepoInitProofs`: `TypeCorrect`, `Invariance`, `Kept`, `Reason`, `LoneTruth`. `IInv` is
the types, `OddityHasReason` and

- `Stages`, `ClonesApart`: what a request is at and what its process is agree, and
  no two clones work in one directory;
- `WrittenStays`: what was a repository when it was written into stays one (so no
  clone, which takes free or empty places only, removes its files);
- `WorkersHaveMet`: of two at work neither is alone;
- `PartialHasClone`, `FillingHasReason`: half-made clones are of a clone at work or
  killed, and a directory that a clone fills was left by something that
  `OddityHasReason` admits: without this its failure would leave an empty directory
  with no reason;
- `LoneWriteFinds`, `LoneInitSees`, `LonePullSees`: what a call that is alone still
  finds. With `OddityHasReason`, `LonePullSees` makes `pulled` true.

`find_repo`'s order is the minimum of a set of numbers; that it is in the set
(`MinIsInIt`) comes from the well-foundedness of the natural numbers.

`A2AClientProofs`: `TypeCorrect`, `Invariance`, `Recent`, `TextIsAll`. `IInv` adds
`CacheIsFresh` (an entry expires at most a fetch and a TTL after its card was served)
and `FetchesAreShort` to `CardIsRecent`. `TextIsAll`, what `CallsReturnAllText` says
beyond that calls return, rests on `StreamInv`: the events on the wire go on from what
was read, one text more each, and only the last can be terminal.

`ProxyRelayProofs`: `TypeCorrect`, `Invariance`, `Implements`, `EndedIsFree`. `IInv` adds
`ReceivedIsPrefix`, `NothingIsLost` (received, in hand and buffered are all that was
produced, in order, while the agent is there), `HandIsFull` and `EofIsClosed`. A
write is then a `Receive` of the pipe, the end of the stream a `Close` with nothing
left to receive, every other end a `Break`.

`EndedIsFree` is what `CallsEndAndFree` says beyond that calls end.

Only model-checked: liveness, which needs fairness, so `ENABLED`, and is outside what
the prover can do. These are `EveryHandlerEnds` (agent streams), `CallsPassCompose`
(fleet), `DeadAgentStopsStack` (supervisor), and that calls end and return in
`CallsEndAndFree` and `CallsReturnAllText`. No module uses a recursive operator, and
nothing here needs induction over data.

## 5. What the models leave out

- docker, git, the A2A SDK, the thread pool and the agent itself are modelled by
  what the code relies on; they are marked external in `PROJECT.json`.
- Authentication, validation patterns, CORS, listings and renderings: an
  invalid request is one `Reject`, `Refuse` or `BadBody`.
- A pid that the system gives to another process after the supervisor's death
  (`down` would signal it): pids are used once.
- Several processes that move the link at the same time, and a root that does
  not end in `/active`.
- What a failing `git add` has staged by then: in `ActiveWorkspace` it stages all or
  nothing. Two writes of one file, and what a pull changes, are left out.
- `./fleet up` and `./fleet down` take no time: they do not interleave with docker
  compose processes of claims.
- The text of a home's file and of `agents.yaml` is written at once after the
  truncation; a disk that fills up half-way through the text is not modelled.
- `RepoInit` has one name without a `/`; DELETE `/file`, which could remove the
  directory, is in `SymbolsCache` only, and an unreadable owner directory
  (`repo_finder.py:57`) is not modelled. The link of the `/active` layout stands still
  in it, as the tree does in `ActiveWorkspace`.
- `ProxyRelay`: an upstream whose answer has neither a length nor chunks ends by
  closing its connection, and a cut there cannot be told from its end, by the code or
  here. The agent's key is there or not; how `./fleet set` rewrites it is not
  modelled. A session left open may be closed by the garbage collector later.
- `A2AClient` takes a fetch of the card to last `MaxFetch` at most. httpx's
  `timeout=10.0` (`a2a/client.py:65`) bounds each connect, write and read, so a server
  that sends its card byte by byte can make a fetch longer than that.
- `A2AClient` has one URL, as URLs share nothing; the ports that
  `a2a_local_scan` asks and the configured agents are read and not kept.

Disagreements met while reading and modelling that no run shows. Two are stated as
properties in their modules; listed under `PROPERTY` or `INVARIANT` in the
configuration of that module, each is violated. `NextGetIsFresh` in `SymbolsCache`: after a
write the next GET is not fresh, as `docs/workspace-api.md:7` has it, because a
fill under way caches the old contents after the invalidation. `DownFindsTheStack` in
`Supervisor`: `down` stops the detached stack (`docs/deploy-local.md:164`) unless a
second `up` that could not bind has removed the first one's pid file.

The others:

- `SIGTERM` between the first spawn and `add_signal_handler`
  (`supervisor.py:88-103`) kills the supervisor and leaves its agents, where the
  module's docstring (`supervisor.py:11-12`) has `down` signal every child.
- A chat whose agent streams nothing closes without the final response the comment
  at `gateway/openai_compat.py:179-180` promises.
- A task whose agent raises anything but `RuntimeError` is told no terminal status
  (`gateway/a2a_routes.py:245`).
- After deactivate, a POST that had looked its repo up before recreates `active` as
  a directory (`workspace/routes/file.py:73`), and one that has looked up a
  `login/repo` goes on writing through the mount, where the docstring at
  `workspace/routes/activate.py:63` says that no user files are seen from then on.
  `WriteIsKept` allows both; what is in the plain directory is lost at the next activate.
- A commit answers ok though its `git add` has failed and its changes are not in it
  (`workspace/routes/git.py:61`): `LoneCommitIsComplete` leaves out these, and no others.
- An execution that is cancelled is told a final `canceled` (`a2a/server.py:282`) and,
  since its run goes on, artifacts and a final `completed` after it.
- Two `up`s with manifests of different ports run side by side on one pid file
  (`supervisor.py:60`, `supervisor.py:78`), and `down` finds the second only.
- An agent add killed between truncating `.env` or `config.yaml` and writing it leaves
  an empty file, which the retry keeps (`manifest.py:216`, `manifest.py:229`).
- `_ensure_sentinel` says that the sentinel directory "is empty"
  (`fleet/orchestrator.py:211`) and does not look.
- The A2A client streams with `tasks/sendSubscribe` (`a2a/client.py:120`) whenever a
  card advertises streaming (`docs/a2a-architecture.md:73`). The gateway's card
  does, and the gateway refuses that method as unknown
  (`gateway/a2a_routes.py:100`); the client also reads `artifacts` and `type` where
  the gateway sends `artifact` and `kind`. So a streamed `a2a_call` to this gateway
  ends in "empty streaming response".
- The client takes the end of a stream without a terminal status for completion and
  returns what there is (`a2a/client.py:127-153`).
- Init and pull change files and do not invalidate the symbols cache, against
  `docs/workspace-api.md:7`.
- Below `/active`, init clones into `active/{owner}/{repo}`
  (`workspace/routes/init.py:68-73`), where `find_repo`, which looks at direct
  children only, never finds it: every further init of that name clones again and
  fails.
- Init for a bare name pulls in the repository of whichever owner comes first and
  answers `pulled`.
- The proxy's message for a missing key suggests `./fleet set {agent} --key`
  (`proxy/routes.py:84`), which exits because `--model` is required
  (`scripts/install-fleet.sh:978`).
- An agent that stops reading without leaving holds its proxy handler and the
  upstream: `response.write` has no deadline (`proxy/routes.py:130`).
- An agent removed without `--purge` and added again with another model keeps the
  old `config.yaml` and key (`manifest.py:216-231`), while `agents.yaml` shows the
  new model.

`agents.yaml` is not locked: of two agent commands that overlap, the second save
undoes the first, and one that loads while the file is truncated takes it for
empty and saves it so (`manifest.py:94`, `manifest.py:127`). `ManifestFile` has
these steps and its properties say where they stop mattering.

## 6. Plan

Done in this order, the most consequential first: fleet claims, streaming, cache,
supervisor, link, manifest; then repo init, proxy and A2A client with their proofs,
and both refinements `ImplementsRegister` and `RelayImplementsPipe`.

Next, extending the models:

1. `RepoInit` composed with `ActiveWorkspace`: an init whose link moves, so that
   what it found, what it clones into and what later calls see differ; DELETE beside it.
2. `A2AClient` composed with `AgentStream`: what the client makes of the events the
   two servers really send, in place of a free remote.
3. Finer `FleetUp`, with docker compose steps between those of claims, and
   `ManifestFile` composed with `Supervisor`.

Done in the proofs: every safety property of the runs, the three refinements, and the
safety halves of `CallsReturnAllText`, `CallsEndAndFree` and of what waits in
`AgentStream`.

Then, proving more: the safety halves of the other liveness properties (a
`Supervisor` whose agent has died stays on its way to the stop; a claim that waits
has a process or a timer to wait for); lemmas that
several proof modules could share; and the theorems of whatever the models above
gain.
