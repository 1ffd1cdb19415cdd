----------------------------- MODULE ManifestFile -----------------------------
(***************************************************************************)
(* agents.yaml and the agents' home directories                            *)
(* (hermes_adapter/manifest.py) under the commands `init`, `agent add`,    *)
(* `agent remove` and `up` (hermes_adapter/cli.py).  Each command is a     *)
(* process that loads the file, changes its copy and writes the file back  *)
(* in place; nothing locks it, an add may wait for a key to be typed in    *)
(* between, and a command can be killed anywhere.  `up` reads the file     *)
(* once and starts the agents that have a home.                            *)
(***************************************************************************)
EXTENDS Naturals, FiniteSets

CONSTANTS Commands,    \* the commands that are run, each a process
          Names,       \* agent names
          Ports,       \* port numbers
          Given,       \* those that command lines name
          DefaultPort, \* the adapter's port unless `init --adapter-port` gives one
          FirstPort,   \* where next_free_port starts
          AnyPort,     \* no port is given on the command line
          Absent,      \* no agents.yaml
          Blank,       \* agents.yaml truncated and not yet written
          Unknown,     \* nothing can be said of what the file should hold
          Nobody       \* no name, no key, no manifest

Pickable == {p \in Ports : p >= FirstPort}

ASSUME ManifestAssumption ==
  /\ Ports \subseteq Nat /\ Given \subseteq Ports /\ DefaultPort \in Ports /\ AnyPort \notin Ports
  /\ Nobody \notin Commands /\ Nobody \notin Names
  /\ IsFiniteSet(Pickable) /\ IsFiniteSet(Commands)
  /\ Cardinality(Pickable) > Cardinality(Commands) + 1

\* An entry of the manifest; `by`, the command that added it, stands for model
\* and description.
Entry == [name : Names, port : Ports, by : Commands]

\* A manifest: the init that made its bearer key, the adapter's port, the agents.
Manifest == [key : Commands \cup {Nobody}, port : Ports, agents : SUBSET Entry]

ASSUME FileAssumption == /\ {Absent, Blank, Unknown, Nobody} \cap Manifest = {}
                         /\ Cardinality({Absent, Blank, Unknown}) = 3

\* A home directory with its .env and config.yaml.
Text == {"none", "empty", "full"}
Home == [dir : BOOLEAN, env : Text, cfg : Text]

Job == [kind : {"init", "force"}, name : {Nobody}, port : Given \cup {AnyPort}]
         \cup [kind : {"add"}, name : Names, port : Given \cup {AnyPort}]
         \cup [kind : {"remove", "purge"}, name : Names, port : {AnyPort}]
         \cup [kind : {"up"}, name : {Nobody}, port : {AnyPort}]

VARIABLES
  job,      \* what each command is: kind "force" is init --force, "purge" is
            \* remove --purge
  at,       \* what it does next, or how it ended
  mem,      \* its copy of the manifest
  file,     \* agents.yaml
  home,     \* the home directory of each agent name
  started,  \* the agents each `up` has started
  told,     \* history: what the commands' answers say the file holds
  mixed     \* history: commands that ran beside one that writes

vars == <<job, at, mem, file, home, started, told, mixed>>

UnderWay == {"mkdir", "openEnv", "fillEnv", "openCfg", "fillCfg",
             "truncate", "write", "purge", "start"}
Ended    == {"ok", "refused", "failed", "killed",
             "torn"}  \* killed while a file of the agent's home was empty

TypeOK ==
  /\ job \in [Commands -> Job]
  /\ at \in [Commands -> {"new"} \cup UnderWay \cup Ended]
  /\ mem \in [Commands -> Manifest \cup {Nobody}]
  /\ file \in Manifest \cup {Absent, Blank}
  /\ home \in [Names -> Home]
  /\ started \in [Commands -> SUBSET Entry]
  /\ told \in Manifest \cup {Absent, Unknown}
  /\ mixed \subseteq Commands

-----------------------------------------------------------------------------
(* Manifests *)

\* default_manifest, and what load makes of an empty file.
NewManifest(key, port) == [key |-> key, port |-> port, agents |-> {}]
Loaded == IF file = Blank THEN NewManifest(Nobody, DefaultPort) ELSE file

Used(m) == {e.port : e \in m.agents} \cup {m.port}

NextFreePort(m) ==
  CHOOSE p \in Pickable \ Used(m) : \A q \in Pickable \ Used(m) : p <= q

\* The entry an add makes.
Spec_of(c, m) ==
  [name |-> job[c].name, by |-> c,
   port |-> IF job[c].port = AnyPort THEN NextFreePort(m) ELSE job[c].port]

\* Mutant: the adapter's own port is not compared.
CanAdd_AgentsOnly(m, e) == \A a \in m.agents : a.name # e.name /\ a.port # e.port

\* Manifest.add: no agent has the name, nobody has the port.
CanAdd(m, e) == (\A a \in m.agents : a.name # e.name) /\ e.port \notin Used(m)

Listed(m, n) == \E e \in m.agents : e.name = n
Without(m, n) == [m EXCEPT !.agents = {e \in @ : e.name # n}]

-----------------------------------------------------------------------------
Init ==
  /\ job \in [Commands -> Job]
  /\ at = [c \in Commands |-> "new"]
  /\ mem = [c \in Commands |-> Nobody]
  /\ file \in {Absent, NewManifest(Nobody, DefaultPort)}
  /\ home = [n \in Names |-> [dir |-> FALSE, env |-> "none", cfg |-> "none"]]
  /\ started = [c \in Commands |-> {}]
  /\ told = file
  /\ mixed = {}

Goto(c, l) == at' = [at EXCEPT ![c] = l]

\* A command starts: it, and those under way, may now run beside a writer.
Begin(c, l, m) ==
  LET others == {q \in Commands : at[q] \in UnderWay} IN
  /\ Goto(c, l)
  /\ mem' = [mem EXCEPT ![c] = m]
  /\ mixed' = mixed \cup (IF job[c].kind # "up" THEN others ELSE {})
                    \cup {p \in {c} : \E q \in others : job[q].kind # "up"}
  /\ UNCHANGED <<job, file, home, started, told>>

Refuse(c) == Goto(c, "refused") /\ UNCHANGED <<job, mem, file, home, started, told, mixed>>

\* Mutant: the adapter's port is set to the option though none was given.
InitLooks_NoPort(c) ==
  /\ at[c] = "new" /\ job[c].kind \in {"init", "force"}
  /\ IF file # Absent /\ job[c].kind = "init"
       THEN Refuse(c)
       ELSE Begin(c, "truncate", NewManifest(c, job[c].port))

\* cmd_init: an existing file is only replaced by --force.
InitLooks(c) ==
  /\ at[c] = "new" /\ job[c].kind \in {"init", "force"}
  /\ IF file # Absent /\ job[c].kind = "init"
       THEN Refuse(c)
       ELSE Begin(c, "truncate",
                  NewManifest(c, IF job[c].port = AnyPort THEN DefaultPort ELSE job[c].port))

\* Mutant: the manifest is saved before the home is made.
AddLoads_SavesFirst(c) ==
  /\ at[c] = "new" /\ job[c].kind = "add"
  /\ IF file = Absent \/ ~CanAdd(Loaded, Spec_of(c, Loaded))
       THEN Refuse(c)
       ELSE LET m == [Loaded EXCEPT !.agents = @ \cup {Spec_of(c, Loaded)}] IN
            /\ Goto(c, "mkdir")
            /\ mem' = [mem EXCEPT ![c] = m]
            /\ file' = m
            /\ UNCHANGED <<job, home, started, told, mixed>>

\* cmd_agent_add, up to the key prompt: load, pick a port, add to the copy.
AddLoads(c) ==
  /\ at[c] = "new" /\ job[c].kind = "add"
  /\ IF file = Absent \/ ~CanAdd(Loaded, Spec_of(c, Loaded))
       THEN Refuse(c)
       ELSE Begin(c, "mkdir", [Loaded EXCEPT !.agents = @ \cup {Spec_of(c, Loaded)}])

RemoveLoads(c) ==
  /\ at[c] = "new" /\ job[c].kind \in {"remove", "purge"}
  /\ IF file = Absent \/ ~Listed(Loaded, job[c].name)
       THEN Refuse(c)
       ELSE Begin(c, "truncate", Without(Loaded, job[c].name))

UpLoads(c) ==
  /\ at[c] = "new" /\ job[c].kind = "up"
  /\ IF file = Absent THEN Refuse(c) ELSE Begin(c, "start", Loaded)

-----------------------------------------------------------------------------
(* write_agent_home: what is there already is kept *)

\* What is told of the file by c's answer, given what was told before.
Says(c) ==
  LET k == job[c].kind IN
  told' = CASE c \in mixed -> Unknown
            [] c \notin mixed /\ k \in {"init", "force"} -> mem[c]
            [] c \notin mixed /\ k \notin {"init", "force"} /\ told \notin Manifest -> told
            [] c \notin mixed /\ k = "add" /\ told \in Manifest ->
                 [told EXCEPT !.agents = @ \cup {e \in mem[c].agents : e.by = c}]
            [] c \notin mixed /\ k \in {"remove", "purge"} /\ told \in Manifest ->
                 Without(told, job[c].name)

\* What c does to the home of its agent; a directory that has gone is an error.
InHome(c, next, h) ==
  LET n == job[c].name IN
  /\ IF home[n].dir \/ h.dir
       THEN Goto(c, next) /\ home' = [home EXCEPT ![n] = h]
       ELSE Goto(c, "failed") /\ UNCHANGED home
  /\ UNCHANGED <<job, mem, file, started, told, mixed>>

\* Where write_agent_home goes from a file that it has, or has written: exists()
\* is asked at once.
AfterEnv(c) == IF home[job[c].name].cfg = "none" THEN "openCfg" ELSE "truncate"
AfterDir(c) == IF home[job[c].name].env = "none" THEN "openEnv" ELSE AfterEnv(c)

\* Mutant: a home that was there already ends the command before it saves.
MakeHome_ReturnsEarly(c) ==
  /\ at[c] = "mkdir"
  /\ IF home[job[c].name].dir
       THEN Goto(c, "ok") /\ Says(c) /\ UNCHANGED <<job, mem, file, home, started, mixed>>
       ELSE InHome(c, AfterDir(c), [home[job[c].name] EXCEPT !.dir = TRUE])

MakeHome(c) ==
  /\ at[c] = "mkdir"
  /\ InHome(c, AfterDir(c), [home[job[c].name] EXCEPT !.dir = TRUE])

\* write_text truncates ...
OpensEnv(c) ==
  /\ at[c] = "openEnv"
  /\ InHome(c, "fillEnv", [home[job[c].name] EXCEPT !.env = "empty"])

\* ... and writes; the chmod that follows fails if the file has gone.
FillsEnv(c) ==
  /\ at[c] = "fillEnv"
  /\ IF home[job[c].name].env = "none"
       THEN Goto(c, "failed") /\ UNCHANGED home
       ELSE Goto(c, AfterEnv(c)) /\ home' = [home EXCEPT ![job[c].name].env = "full"]
  /\ UNCHANGED <<job, mem, file, started, told, mixed>>

OpensCfg(c) ==
  /\ at[c] = "openCfg"
  /\ InHome(c, "fillCfg", [home[job[c].name] EXCEPT !.cfg = "empty"])

\* No chmod: if the file has gone the text goes with it, and nobody notices.
FillsCfg(c) ==
  /\ at[c] = "fillCfg"
  /\ Goto(c, "truncate")
  /\ home' = [home EXCEPT ![job[c].name].cfg = IF @ = "none" THEN @ ELSE "full"]
  /\ UNCHANGED <<job, mem, file, started, told, mixed>>

-----------------------------------------------------------------------------
(* Manifest.save, then the rest of a remove --purge *)

Truncate(c) ==
  /\ at[c] = "truncate"
  /\ Goto(c, "write")
  /\ file' = Blank
  /\ UNCHANGED <<job, mem, home, started, told, mixed>>

\* The text is small enough to be written at once; the answer is printed.
Write(c) ==
  /\ at[c] = "write"
  /\ Goto(c, IF job[c].kind = "purge" THEN "purge" ELSE "ok")
  /\ file' = mem[c]
  /\ Says(c)
  /\ UNCHANGED <<job, mem, home, started, mixed>>

\* rmtree takes one thing after the other ...
PurgeFile(c) ==
  /\ at[c] = "purge"
  /\ \E h \in {[home[job[c].name] EXCEPT !.env = "none"], [home[job[c].name] EXCEPT !.cfg = "none"]} :
       /\ h # home[job[c].name]
       /\ home' = [home EXCEPT ![job[c].name] = h]
  /\ UNCHANGED <<job, at, mem, file, started, told, mixed>>

\* ... and its errors, a directory that is not empty among them, are ignored.
PurgeEnds(c) ==
  /\ at[c] = "purge"
  /\ Goto(c, "ok")
  /\ home' = [home EXCEPT ![job[c].name].dir =
                @ /\ (home[job[c].name].env # "none" \/ home[job[c].name].cfg # "none")]
  /\ UNCHANGED <<job, mem, file, started, told, mixed>>

\* `up` starts the agents of the manifest it has read; those without a home are
\* skipped with a warning.
StartAgents(c) ==
  /\ at[c] = "start"
  /\ Goto(c, "ok")
  /\ started' = [started EXCEPT ![c] = {e \in mem[c].agents : home[e.name].dir}]
  /\ UNCHANGED <<job, mem, file, home, told, mixed>>

\* Ctrl-C at the prompt, a kill, a full disk.
Kill(c) ==
  /\ at[c] \in UnderWay
  /\ Goto(c, IF at[c] \in {"fillEnv", "fillCfg"} THEN "torn" ELSE "killed")
  /\ told' = IF at[c] = "write" THEN Unknown ELSE told
  /\ UNCHANGED <<job, mem, file, home, started, mixed>>

Command(c) == \/ InitLooks(c) \/ AddLoads(c) \/ RemoveLoads(c) \/ UpLoads(c)
              \/ MakeHome(c) \/ OpensEnv(c) \/ FillsEnv(c) \/ OpensCfg(c) \/ FillsCfg(c)
              \/ Truncate(c) \/ Write(c) \/ PurgeFile(c) \/ PurgeEnds(c)
              \/ StartAgents(c)

Next == \E c \in Commands : Command(c) \/ Kill(c)

Spec == Init /\ [][Next]_vars

-----------------------------------------------------------------------------
\* Whatever runs beside what and is killed where, agents.yaml is never written
\* with two agents of one name or one port, or with an agent on the adapter's
\* port: `up` could not start them all.
PortsNeverCollide ==
  file \in Manifest =>
    \A e \in file.agents : /\ e.port # file.port
                           /\ \A f \in file.agents \ {e} : e.name # f.name /\ e.port # f.port

\* A listed agent has a home with both files, also after commands that were
\* killed: agent add makes it before it saves, remove saves before it purges, so
\* that a kill between the two leaves a home too many, never one too few.  A file
\* in it is empty only while an add of that name is writing it, or after one was
\* killed at that: the next add keeps what exists.  Only a purge that ran beside
\* another command can take the home away.
ListedHasHome ==
  file \in Manifest =>
    \A e \in file.agents :
      LET h == home[e.name]
          Of(kind) == {c \in Commands : job[c].kind = kind /\ job[c].name = e.name} IN
      \/ /\ h.dir /\ h.env # "none" /\ h.cfg # "none"
         /\ h.env = "empty" => \E a \in Of("add") : at[a] \in {"fillEnv", "torn"}
         /\ h.cfg = "empty" => \E a \in Of("add") : at[a] \in {"fillCfg", "torn"}
      \/ Of("purge") \cap mixed # {}

\* An `up` that runs beside no other command starts, with the key init made,
\* exactly the agents the commands before it have reported as added and not
\* removed, the refused, failed and killed ones having changed nothing.  From a
\* kill while the file is truncated, or a report of commands that ran side by
\* side, on nothing is promised until the next init.
LoneUpStartsWhatWasTold ==
  [][\A c \in Commands \ mixed :
       job[c].kind = "up" /\ at[c] = "start" /\ at'[c] = "ok" /\ told # Unknown
         => mem[c].key = told.key /\ started'[c] = told.agents]_vars
=============================================================================
