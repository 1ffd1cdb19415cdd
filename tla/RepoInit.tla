------------------------------ MODULE RepoInit ------------------------------
(***************************************************************************)
(* POST /ws/{repo}/init (hermes_adapter/workspace/routes/init.py, and its  *)
(* copy in gateway/workspace_routes.py) with find_repo and POST /file: the *)
(* handlers that bring a repository of one name into being, pull it or     *)
(* write into it, around git processes that nothing orders.                *)
(* Places are numbered in the order in which find_repo looks at them: 0 is *)
(* {root}/{repo}, an owner o is {root}/{o}/{repo}, Legacy a path outside   *)
(* the root.                                                               *)
(***************************************************************************)
EXTENDS Naturals, FiniteSets, FiniteSetsExt

CONSTANTS Requests,
          Layouts,     \* the values that `isolated` takes
          NOwners,     \* top-level directories that may come to exist, in order of name
          Skipped,     \* those of them named .git or local
          UserDir,     \* the one named user, for a URL without an owner
          MaxCrashes   \* bound on adapter crashes

Owners == 1..NOwners
Legacy == NOwners + 1
Places == 0..Legacy
Nowhere == NOwners + 2

ASSUME InitAssumption == /\ NOwners \in Nat \ {0}
                         /\ Layouts \subseteq BOOLEAN
                         /\ Skipped \subseteq Owners
                         /\ UserDir \in Owners \ Skipped
                         /\ MaxCrashes \in Nat

VARIABLES
  isolated,  \* whether the root ends with /active
  tops,      \* the owner directories that exist below the root
  dir,       \* what is at each place
  files,     \* the POSTed files at each place
  pc,        \* where the handler of each request is
  call,      \* what it asked for, and git with it
  place,     \* the directory it works on
  proc,      \* its git process
  answer,    \* what its client was told
  alone,     \* no other request or process met it
  sound,     \* a write's directory was a repository when it wrote
  crashes

vars == <<isolated, tops, dir, files, pc, call, place, proc, answer, alone, sound, crashes>>

\* A directory without a repository in it is "plain"; "partial" is one that
\* git clone has begun.
Contents == {"absent", "empty", "plain", "partial", "repo"}
Cloning  == {"cloning", "filling"}
Oks      == {"pulled", "cloned", "created"}

TypeOK ==
  /\ isolated \in Layouts
  /\ tops \subseteq Owners
  /\ dir \in [Places -> Contents]
  /\ files \in [Places -> SUBSET Requests]
  /\ pc \in [Requests -> {"new", "git", "body", "done", "dead"}]
  /\ call \in [Requests -> {"none", "pull", "clone", "empty", "write"}]
  /\ place \in [Requests -> Places \cup {Nowhere}]
  /\ proc \in [Requests -> {"none", "spawned", "ok", "failed", "killed"} \cup Cloning]
  /\ answer \in [Requests -> Oks \cup {"none", "404", "500", "written"}]
  /\ alone \in [Requests -> BOOLEAN]
  /\ sound \in [Requests -> BOOLEAN]
  /\ crashes \in 0..MaxCrashes
  /\ \A p \in Places : dir[p] \in {"absent", "empty"} => files[p] = {}
  /\ \A r \in Requests : proc[r] \in Cloning => dir[place[r]] = "partial"

-----------------------------------------------------------------------------
Present == {p \in Places : dir[p] # "absent"}

\* Mutant: the nested scan is skipped in every layout.
FindRepo_Direct == IF dir[0] # "absent" THEN 0 ELSE Nowhere

\* find_repo: the first place in its order; below /active only the direct child.
FindRepo ==
  LET seen == IF isolated THEN Present \cap {0} ELSE Present
  IN IF seen = {} THEN Nowhere ELSE Min(seen)

\* Where an empty repository goes: below the first directory of the root.
EmptyOwner == LET dirs == tops \ Skipped IN IF dirs = {} THEN UserDir ELSE Min(dirs)

\* Mutant: the directory of a file is not made.
WithFile_NoMakedirs(d) == d

\* A directory a file is put into, made for it where it is missing.
WithFile(d) == IF d \in {"absent", "empty"} THEN "plain" ELSE d

AtWork == {r \in Requests : pc[r] \in {"git", "body"} \/ proc[r] \in {"spawned"} \cup Cloning}

\* A request whose directory has been looked up: those at work and it have met.
Enter(r, l, c, p) ==
  /\ pc' = [pc EXCEPT ![r] = l]
  /\ call' = [call EXCEPT ![r] = c]
  /\ place' = [place EXCEPT ![r] = p]
  /\ alone' = [s \in Requests |-> IF s = r THEN AtWork = {} ELSE alone[s] /\ s \notin AtWork]

Spawn(r) == proc' = [proc EXCEPT ![r] = "spawned"]

Answer(r, a) == /\ pc' = [pc EXCEPT ![r] = "done"]
                /\ answer' = [answer EXCEPT ![r] = a]

Init ==
  /\ isolated \in Layouts
  /\ tops \in SUBSET Owners
  /\ \E p \in {0, Legacy, Nowhere} \cup tops :
       dir = [q \in Places |-> IF q = p THEN "repo" ELSE "absent"]
  /\ files = [p \in Places |-> {}]
  /\ pc = [r \in Requests |-> "new"]
  /\ call = [r \in Requests |-> "none"]
  /\ place = [r \in Requests |-> Nowhere]
  /\ proc = [r \in Requests |-> "none"]
  /\ answer = [r \in Requests |-> "none"]
  /\ alone = [r \in Requests |-> TRUE]
  /\ sound = [r \in Requests |-> FALSE]
  /\ crashes = 0

-----------------------------------------------------------------------------
\* handle_init, from the body to its git process, without an await.

InitPulls(r) ==
  /\ pc[r] = "new" /\ FindRepo # Nowhere
  /\ Enter(r, "git", "pull", FindRepo)
  /\ Spawn(r)
  /\ UNCHANGED <<isolated, tops, dir, files, answer, sound, crashes>>

\* Neither a repository, nor a URL, nor empty.
InitRefuses(r) ==
  /\ pc[r] = "new" /\ FindRepo = Nowhere
  /\ Answer(r, "404")
  /\ UNCHANGED <<isolated, tops, dir, files, call, place, proc, alone, sound, crashes>>

\* empty: the directory is made, then git init runs in it.
InitEmpties(r) ==
  /\ pc[r] = "new" /\ FindRepo = Nowhere
  /\ LET o == EmptyOwner IN
       /\ tops' = tops \cup {o}
       /\ dir' = [dir EXCEPT ![o] = IF @ = "absent" THEN "empty" ELSE @]
       /\ Enter(r, "git", "empty", o)
  /\ Spawn(r)
  /\ UNCHANGED <<isolated, files, answer, sound, crashes>>

\* Mutant: the directory of the clone itself is made.
InitClones_MakesDest(r, o) ==
  /\ pc[r] = "new" /\ FindRepo = Nowhere
  /\ tops' = tops \cup {o}
  /\ dir' = [dir EXCEPT ![o] = IF @ = "absent" THEN "empty" ELSE @]
  /\ Enter(r, "git", "clone", o)
  /\ Spawn(r)
  /\ UNCHANGED <<isolated, files, answer, sound, crashes>>

\* A URL: the owner's directory is made, then git clone runs in that.
InitClones(r, o) ==
  /\ pc[r] = "new" /\ FindRepo = Nowhere
  /\ tops' = tops \cup {o}
  /\ Enter(r, "git", "clone", o)
  /\ Spawn(r)
  /\ UNCHANGED <<isolated, dir, files, answer, sound, crashes>>

-----------------------------------------------------------------------------
\* The git processes, which are external.

\* git pull, which changes no more than what is in the repository, and fails
\* where there is none.
PullEnds(r) ==
  /\ proc[r] = "spawned" /\ call[r] = "pull"
  /\ \E e \in IF dir[place[r]] = "repo" THEN {"ok", "failed"} ELSE {"failed"} :
       proc' = [proc EXCEPT ![r] = e]
  /\ UNCHANGED <<isolated, tops, dir, files, pc, call, place, answer, alone, sound, crashes>>

\* git init, which leaves a clone that was begun as it is, and may fail.
GitInitEnds(r) ==
  /\ proc[r] = "spawned" /\ call[r] = "empty"
  /\ \/ /\ dir[place[r]] # "absent"
        /\ proc' = [proc EXCEPT ![r] = "ok"]
        /\ dir' = [dir EXCEPT ![place[r]] = IF @ = "partial" THEN @ ELSE "repo"]
     \/ /\ proc' = [proc EXCEPT ![r] = "failed"]
        /\ UNCHANGED dir
  /\ UNCHANGED <<isolated, tops, files, pc, call, place, answer, alone, sound, crashes>>

\* git clone takes a path that is free or an empty directory, and no other.
CloneBegins(r) ==
  /\ proc[r] = "spawned" /\ call[r] = "clone"
  /\ CASE dir[place[r]] = "absent" -> proc' = [proc EXCEPT ![r] = "cloning"]
       [] dir[place[r]] = "empty"  -> proc' = [proc EXCEPT ![r] = "filling"]
       [] OTHER                    -> proc' = [proc EXCEPT ![r] = "failed"]
  /\ dir' = [dir EXCEPT ![place[r]] = IF @ \in {"absent", "empty"} THEN "partial" ELSE @]
  /\ UNCHANGED <<isolated, tops, files, pc, call, place, answer, alone, sound, crashes>>

\* The checkout may replace files that were written meanwhile.
CloneSucceeds(r) ==
  /\ proc[r] \in Cloning
  /\ proc' = [proc EXCEPT ![r] = "ok"]
  /\ dir' = [dir EXCEPT ![place[r]] = "repo"]
  /\ \E kept \in SUBSET files[place[r]] : files' = [files EXCEPT ![place[r]] = kept]
  /\ UNCHANGED <<isolated, tops, pc, call, place, answer, alone, sound, crashes>>

\* A clone that fails removes all there is, and the directory if it made it.
CloneFails(r) ==
  /\ proc[r] \in Cloning
  /\ proc' = [proc EXCEPT ![r] = "failed"]
  /\ dir' = [dir EXCEPT ![place[r]] = IF proc[r] = "filling" THEN "empty" ELSE "absent"]
  /\ files' = [files EXCEPT ![place[r]] = {}]
  /\ UNCHANGED <<isolated, tops, pc, call, place, answer, alone, sound, crashes>>

-----------------------------------------------------------------------------
\* handle_init after its git process.

\* ok, whatever git pull said.
PullAnswers(r) ==
  /\ pc[r] = "git" /\ call[r] = "pull" /\ proc[r] \in {"ok", "failed"}
  /\ Answer(r, "pulled")
  /\ UNCHANGED <<isolated, tops, dir, files, call, place, proc, alone, sound, crashes>>

\* .gitkeep, then ok, whatever git init said; a directory that is gone raises.
EmptyAnswers(r) ==
  /\ pc[r] = "git" /\ call[r] = "empty" /\ proc[r] \in {"ok", "failed"}
  /\ IF dir[place[r]] = "absent"
       THEN Answer(r, "500") /\ UNCHANGED dir
       ELSE /\ Answer(r, "created")
            /\ dir' = [dir EXCEPT ![place[r]] = WithFile(@)]
  /\ UNCHANGED <<isolated, tops, files, call, place, proc, alone, sound, crashes>>

\* Mutant: a clone that failed is cleaned up by the handler too.
CloneAnswers_Cleans(r) ==
  /\ pc[r] = "git" /\ call[r] = "clone" /\ proc[r] \in {"ok", "failed"}
  /\ Answer(r, IF proc[r] = "ok" THEN "cloned" ELSE "500")
  /\ IF proc[r] = "ok"
       THEN UNCHANGED <<dir, files>>
       ELSE /\ dir' = [dir EXCEPT ![place[r]] = "absent"]
            /\ files' = [files EXCEPT ![place[r]] = {}]
  /\ UNCHANGED <<isolated, tops, call, place, proc, alone, sound, crashes>>

CloneAnswers(r) ==
  /\ pc[r] = "git" /\ call[r] = "clone" /\ proc[r] \in {"ok", "failed"}
  /\ Answer(r, IF proc[r] = "ok" THEN "cloned" ELSE "500")
  /\ UNCHANGED <<isolated, tops, dir, files, call, place, proc, alone, sound, crashes>>

-----------------------------------------------------------------------------
\* POST /file finds the repository, then awaits its body.
WriteFinds(r) ==
  /\ pc[r] = "new" /\ FindRepo # Nowhere
  /\ Enter(r, "body", "write", FindRepo)
  /\ UNCHANGED <<isolated, tops, dir, files, proc, answer, sound, crashes>>

\* makedirs brings the directory back where a clone has taken it away.
WritePuts(r) ==
  /\ pc[r] = "body"
  /\ Answer(r, "written")
  /\ dir' = [dir EXCEPT ![place[r]] = WithFile(@)]
  /\ files' = [files EXCEPT ![place[r]] = @ \cup {r}]
  /\ sound' = [sound EXCEPT ![r] = dir[place[r]] = "repo"]
  /\ UNCHANGED <<isolated, tops, call, place, proc, alone, crashes>>

\* The adapter dies and starts again; its git processes go on or are killed,
\* and one that is killed removes nothing.
Crash ==
  /\ crashes < MaxCrashes
  /\ crashes' = crashes + 1
  /\ pc' = [r \in Requests |-> IF pc[r] \in {"git", "body"} THEN "dead" ELSE pc[r]]
  /\ \E killed \in SUBSET {r \in Requests : proc[r] \in {"spawned"} \cup Cloning} :
       proc' = [r \in Requests |-> IF r \in killed THEN "killed" ELSE proc[r]]
  /\ UNCHANGED <<isolated, tops, dir, files, call, place, answer, alone, sound>>

\* A run ends when every request has been answered and every process has ended.
Rest == /\ AtWork = {} /\ \A r \in Requests : pc[r] # "new"
        /\ UNCHANGED vars

Next == \/ \E r \in Requests :
             \/ InitPulls(r) \/ InitRefuses(r) \/ InitEmpties(r)
             \/ \E o \in Owners : InitClones(r, o)
             \/ PullEnds(r) \/ GitInitEnds(r)
             \/ CloneBegins(r) \/ CloneSucceeds(r) \/ CloneFails(r)
             \/ PullAnswers(r) \/ EmptyAnswers(r) \/ CloneAnswers(r)
             \/ WriteFinds(r) \/ WritePuts(r)
        \/ Crash
        \/ Rest

Spec == Init /\ [][Next]_vars

-----------------------------------------------------------------------------
\* What r may have left at its place for good: a half-made clone, a directory
\* that git could not init, or what requests that met have made of it.
Spoilt(r) == proc[r] = "killed" \/ (call[r] = "empty" /\ proc[r] = "failed") \/ ~alone[r]

\* An init that meets no other call of that name is answered truly.  After pulled
\* the directory it names is the one that is found, and it holds a repository
\* unless an earlier call has spoilt it: a lone pull never takes for a clone what
\* lone calls that ran to their end have left.  Outside the /active layout, after
\* cloned or created there is one directory of that name, a repository if git
\* succeeded, and find_repo finds it for the calls that follow; after a failed
\* clone there is none, so that the next init clones again.
LoneAnswerIsTrue ==
  [][\A r \in Requests :
       alone[r] /\ answer[r] = "none" =>
         /\ answer'[r] = "pulled" =>
              /\ FindRepo' = place[r]
              /\ dir[place[r]] # "repo" =>
                   \E q \in Requests \ {r} : place[q] = place[r] /\ Spoilt(q)
         /\ ~isolated /\ answer'[r] \in {"cloned", "created"} =>
              /\ Present' = {place[r]} /\ FindRepo' = place[r]
              /\ proc[r] = "ok" => dir'[place[r]] = "repo"
         /\ ~isolated /\ answer'[r] = "500" => FindRepo' = Nowhere]_vars

\* A file whose write was answered ok in a repository stays there: whatever
\* inits follow, overlap with it, fail or are killed, they take nothing away.
WrittenIsKept ==
  \A r \in Requests : answer[r] = "written" /\ sound[r] => r \in files[place[r]]

\* Any directory of that name is a repository unless git clone or git init is at work
\* there, was killed there or could not init it, or requests that met have left it: no
\* single call leaves behind what a later init would take for a clone.
OddityHasReason ==
  \A p \in Present :
    dir[p] # "repo" =>
      \E r \in Requests :
        /\ place[r] = p
        /\ \/ proc[r] \in Cloning \cup {"killed"}
           \/ call[r] = "empty" /\ proc[r] \in {"spawned", "failed"}
           \/ ~alone[r]
=============================================================================
