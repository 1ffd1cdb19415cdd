---------------------------- MODULE ClaimRegister ----------------------------
(***************************************************************************)
(* What the fleet control plane promises of an agent's mount, without      *)
(* override files, processes or timeouts: a register per agent that        *)
(* requests write.  A write takes effect any number of times while its     *)
(* request is open, possibly with the value of a request it overlaps; an   *)
(* ok answer to a request that was alone means that its value is in.       *)
(***************************************************************************)
EXTENDS FiniteSets

CONSTANTS Agents, Requests,
          Configs,   \* what an agent can have mounted
          Default    \* the mount of an agent nobody claims

VARIABLES
  task,      \* [agent, want] of each request
  phase,     \* "new", "open", "ok" or "failed"
  mounted,   \* the register of each agent
  allowed,   \* what a remount of the agent may install
  shared     \* requests that overlapped another on their agent

vars == <<task, phase, mounted, allowed, shared>>

OpenOn(a) == {r \in Requests : phase[r] = "open" /\ task[r].agent = a}

Init ==
  /\ task \in [Requests -> [agent : Agents, want : Configs]]
  /\ phase = [r \in Requests |-> "new"]
  /\ mounted = [a \in Agents |-> Default]
  /\ allowed = [a \in Agents |-> {}]
  /\ shared = {}

\* A request starts to write: its value becomes possible, and the only possible
\* one when it is alone.
Begin(r) ==
  LET a == task[r].agent
      others == OpenOn(a)
  IN /\ phase[r] = "new"
     /\ phase' = [phase EXCEPT ![r] = "open"]
     /\ allowed' = [allowed EXCEPT ![a] =
          IF others = {} THEN {task[r].want} ELSE @ \cup {task[r].want, Default}]
     /\ shared' = IF others = {} THEN shared ELSE shared \cup {r} \cup others
     /\ UNCHANGED <<task, mounted>>

\* An open request's remount takes effect.
Mount(r) ==
  /\ phase[r] = "open"
  /\ \E c \in allowed[task[r].agent] :
        mounted' = [mounted EXCEPT ![task[r].agent] = c]
  /\ UNCHANGED <<task, phase, allowed, shared>>

Succeed(r) ==
  /\ phase[r] = "open"
  /\ r \notin shared => mounted[task[r].agent] = task[r].want
  /\ phase' = [phase EXCEPT ![r] = "ok"]
  /\ UNCHANGED <<task, mounted, allowed, shared>>

\* Requests fail, alone or, when the adapter dies, together.
Fail ==
  \E S \in SUBSET {r \in Requests : phase[r] \in {"new", "open"}} :
     /\ phase' = [r \in Requests |-> IF r \in S THEN "failed" ELSE phase[r]]
     /\ UNCHANGED <<task, mounted, allowed, shared>>

Next == Fail \/ \E r \in Requests : Begin(r) \/ Mount(r) \/ Succeed(r)

Spec == Init /\ [][Next]_vars
=============================================================================
