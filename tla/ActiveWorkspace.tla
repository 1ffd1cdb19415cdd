--------------------------- MODULE ActiveWorkspace ---------------------------
(***************************************************************************)
(* The active-user symlink (hermes_adapter/workspace/routes/activate.py)   *)
(* under the routes that look a repo up behind it: POST /file              *)
(* (routes/file.py), the git commands and the commit (routes/git.py).      *)
(* The root is {mount}/active, a link to {mount}/{user}.  A handler looks  *)
(* its repo up once (repo_finder.py) and keeps the path; what is behind    *)
(* the path is resolved again at each later use.  Handlers share one       *)
(* event loop and interleave at their awaits only; the git processes they  *)
(* start run beside them, each in the directory it was started in.         *)
(*                                                                         *)
(* One repo name is asked for, alone or as login/repo.  It may be found in *)
(* a user's directory, <<user, Bare>>, below a login in there as init puts *)
(* it below /active, <<user, login>>, and in a plain directory that has    *)
(* taken the link's place, <<Plain, _>>.  Every write is of its own file.  *)
(***************************************************************************)
EXTENDS Naturals, FiniteSets

CONSTANTS Users,     \* user directories below the mount, and logins
          Repos,     \* the git repositories of that name
          Requests,  \* calls of the routes
          Kinds,     \* their kinds, of "write", "commit" (git add, then git commit),
                     \* "git" (push or pull) and "pr" (gh, once the body is read)
          Bare,      \* a request's {repo} without a login
          NoEntry,   \* no `active` entry; nowhere
          Plain,     \* `active` is a directory of its own
          MaxBinds   \* bound on the calls of activate and deactivate

Places == (Users \cup {Plain}) \X (Users \cup {Bare})

ASSUME ActiveAssumption == /\ {Bare, NoEntry, Plain} \cap Users = {}
                           /\ Cardinality({Bare, NoEntry, Plain}) = 3
                           /\ NoEntry \notin Places
                           /\ Repos \subseteq Users \X (Users \cup {Bare})
                           /\ Kinds \subseteq {"write", "commit", "git", "pr"}
                           /\ MaxBinds \in Nat

VARIABLES
  active,   \* what {mount}/active is
  binds,    \* calls of activate and deactivate so far
  req,      \* each request: [kind, name]
  at,       \* where it is
  path,     \* the path its handler keeps: through "active" or the "mount"
  cwd,      \* the directory its last git process was started in
  dirty,    \* in each place: changes neither staged nor committed
  staged,   \* changes in the index
  commits,  \* commits, as the sets of changes they hold
  lock,     \* who holds the index lock: {} or {r}
  found,    \* history: the place where its repo was found
  touched,  \* history: the places it wrote to or started git in
  before,   \* history: the writes answered ok when it came
  mixed,    \* history: requests that met a rebind, commits that met a push or
            \* pull, and these
  unadded   \* history: commits whose git add failed

repo     == <<dirty, staged, commits, lock>>
ghost    == <<found, touched, before, mixed, unadded>>
linkVars == <<active, binds, req, at, path, cwd, repo, ghost>>

Open   == {"body", "run", "add", "adding", "added", "commit"}
Closed == {"new", "ok", "refused", "failed"}

LinkTypeOK ==
  /\ active \in Users \cup {Plain, NoEntry}
  /\ binds \in 0..MaxBinds
  /\ req \in [Requests -> [kind : Kinds, name : Users \cup {Bare}]]
  /\ at \in [Requests -> Open \cup Closed]
  /\ path \in [Requests -> {"active", "mount"}]
  /\ cwd \in [Requests -> Places \cup {NoEntry}]
  /\ \A r \in Requests : at[r] \in {"run", "add", "adding", "commit"} => cwd[r] # NoEntry
  /\ {dirty, staged} \subseteq [Places -> SUBSET Requests]
  /\ commits \in [Places -> SUBSET SUBSET Requests]
  /\ lock \in [Places -> SUBSET Requests]
  /\ found \in [Requests -> Places \cup {NoEntry}]
  /\ touched \in [Requests -> SUBSET (Places \cup {NoEntry})]
  /\ before \in [Requests -> SUBSET Requests]
  /\ {mixed, unadded} \subseteq SUBSET Requests

-----------------------------------------------------------------------------
\* What is behind a path of a request's repo, now.
Behind(v, r) == IF v = "mount" THEN <<req[r].name, Bare>>
                ELSE IF active = NoEntry THEN NoEntry ELSE <<active, req[r].name>>

\* A repository, or a directory that a write has made.
Exists(p) == p \in Repos \/ (p \in Places /\ dirty[p] # {})

\* find_repo: the mount is tried after the root, and for a login/repo only;
\* nothing else is tried below a root that ends in /active.
Finds(v, r) == /\ Exists(Behind(v, r))
               /\ v = "mount" => req[r].name # Bare /\ ~Exists(Behind("active", r))

Handled == {r \in Requests : at[r] \in Open}
Goto(r, l) == at' = [at EXCEPT ![r] = l]

Touch(r, p) == touched' = [touched EXCEPT ![r] = @ \cup {p}]

LinkInit ==
  /\ active \in Users \cup {Plain, NoEntry}
  /\ binds = 0
  /\ req \in [Requests -> [kind : Kinds, name : Users \cup {Bare}]]
  /\ at = [r \in Requests |-> "new"]
  /\ path = [r \in Requests |-> "active"]
  /\ cwd = [r \in Requests |-> NoEntry]
  /\ dirty = [p \in Places |-> {}]
  /\ staged = [p \in Places |-> {}]
  /\ commits = [p \in Places |-> {}]
  /\ lock = [p \in Places |-> {}]
  /\ found = [r \in Requests |-> NoEntry]
  /\ touched = [r \in Requests |-> {}]
  /\ before = [r \in Requests |-> {}]
  /\ mixed = {}
  /\ unadded = {}

-----------------------------------------------------------------------------
(* activate and deactivate: no await between the removal and the new link *)

Rebind(to) ==
  /\ binds < MaxBinds
  /\ binds' = binds + 1
  /\ active' = to
  /\ mixed' = mixed \cup {r \in Handled : path[r] = "active"}
  /\ UNCHANGED <<req, at, path, cwd, staged, commits, lock, found, touched, before, unadded>>

\* Mutant: what is there is emptied without a look at whether it is a link.
Activate_EmptiesTarget(u) ==
  /\ Rebind(u)
  /\ dirty' = [p \in Places |-> IF p[1] = active THEN {} ELSE dirty[p]]

\* A plain directory in the link's place is removed with all that is in it.
Activate(u) ==
  /\ Rebind(u)
  /\ dirty' = [p \in Places |-> IF p[1] = Plain THEN {} ELSE dirty[p]]

\* Only a link is removed.
Deactivate ==
  /\ Rebind(IF active \in Users THEN NoEntry ELSE active)
  /\ UNCHANGED dirty

-----------------------------------------------------------------------------
(* The routes *)

\* The repo is looked up; then the body is awaited.  Push and pull need no body:
\* git is started at once.
Find(r, v) ==
  /\ at[r] = "new" /\ Finds(v, r)
  /\ path' = [path EXCEPT ![r] = v]
  /\ found' = [found EXCEPT ![r] = Behind(v, r)]
  /\ before' = [before EXCEPT ![r] = {w \in Requests : at[w] = "ok" /\ req[w].kind = "write"}]
  /\ mixed' = LET beside == {q \in Handled : {req[q].kind, req[r].kind} = {"commit", "git"}} IN
       IF beside = {} THEN mixed ELSE mixed \cup beside \cup {r}
  /\ IF req[r].kind = "git"
       THEN /\ Goto(r, "run")
            /\ cwd' = [cwd EXCEPT ![r] = Behind(v, r)]
            /\ Touch(r, Behind(v, r))
       ELSE /\ Goto(r, "body")
            /\ UNCHANGED <<cwd, touched>>
  /\ UNCHANGED <<active, binds, req, repo, unadded>>

NotFound(r) ==
  /\ at[r] = "new" /\ ~Finds("active", r) /\ ~Finds("mount", r)
  /\ Goto(r, "refused")
  /\ UNCHANGED <<active, binds, req, path, cwd, repo, ghost>>

\* No JSON, no path, no message.
BadBody(r) ==
  /\ at[r] = "body"
  /\ Goto(r, "refused")
  /\ UNCHANGED <<active, binds, req, path, cwd, repo, ghost>>

\* handle_post resolves the path, makes its directories and writes the file.
\* When `active` has gone meanwhile, makedirs puts a plain directory there.
PostFile(r) ==
  LET gone == Behind(path[r], r) = NoEntry
      p    == IF gone THEN <<Plain, req[r].name>> ELSE Behind(path[r], r)
  IN
  /\ at[r] = "body" /\ req[r].kind = "write"
  /\ Goto(r, "ok")
  /\ active' = IF gone THEN Plain ELSE active
  /\ dirty' = [dirty EXCEPT ![p] = @ \cup {r}]
  /\ Touch(r, p)
  /\ UNCHANGED <<binds, req, path, cwd, staged, commits, lock, found, before, mixed, unadded>>

\* A git process starts in what is behind the path now; there may be nothing.
Start(r, l) ==
  /\ IF Exists(Behind(path[r], r))
       THEN /\ Goto(r, l)
            /\ cwd' = [cwd EXCEPT ![r] = Behind(path[r], r)]
            /\ Touch(r, Behind(path[r], r))
       ELSE Goto(r, "failed") /\ UNCHANGED <<cwd, touched>>
  /\ UNCHANGED <<active, binds, req, path, repo, found, before, mixed, unadded>>

\* Mutant: the directory is not looked at when git is started.
StartAdd_Unchecked(r) ==
  /\ at[r] = "body" /\ req[r].kind = "commit"
  /\ Goto(r, "add")
  /\ cwd' = [cwd EXCEPT ![r] = Behind(path[r], r)]
  /\ Touch(r, Behind(path[r], r))
  /\ UNCHANGED <<active, binds, req, path, repo, found, before, mixed, unadded>>

StartAdd(r) == at[r] = "body" /\ req[r].kind = "commit" /\ Start(r, "add")

\* git add -A takes the index lock ...
AddLocks(r) ==
  /\ at[r] = "add" /\ cwd[r] \in Repos /\ lock[cwd[r]] = {}
  /\ Goto(r, "adding")
  /\ lock' = [lock EXCEPT ![cwd[r]] = {r}]
  /\ UNCHANGED <<active, binds, req, path, cwd, dirty, staged, commits, ghost>>

\* Mutant: `git add -u` leaves new files out.
AddEnds_SomeOnly(r) ==
  /\ at[r] = "adding"
  /\ Goto(r, "added")
  /\ \E S \in SUBSET dirty[cwd[r]] :
       /\ staged' = [staged EXCEPT ![cwd[r]] = @ \cup S]
       /\ dirty' = [dirty EXCEPT ![cwd[r]] = @ \ S]
  /\ lock' = [lock EXCEPT ![cwd[r]] = {}]
  /\ UNCHANGED <<active, binds, req, path, cwd, commits, ghost>>

\* ... and stages what is there.
AddEnds(r) ==
  /\ at[r] = "adding"
  /\ Goto(r, "added")
  /\ staged' = [staged EXCEPT ![cwd[r]] = @ \cup dirty[cwd[r]]]
  /\ dirty' = [dirty EXCEPT ![cwd[r]] = {}]
  /\ lock' = [lock EXCEPT ![cwd[r]] = {}]
  /\ UNCHANGED <<active, binds, req, path, cwd, commits, ghost>>

\* Another git holds the lock, this is no git repo, a file cannot be read, the
\* disk is full: nothing is staged, and the exit status is not looked at.
AddFails(r) ==
  /\ at[r] \in {"add", "adding"}
  /\ Goto(r, "added")
  /\ lock' = [lock EXCEPT ![cwd[r]] = @ \ {r}]
  /\ unadded' = unadded \cup {r}
  /\ UNCHANGED <<active, binds, req, path, cwd, dirty, staged, commits, found, touched, before, mixed>>

StartPr(r) == at[r] = "body" /\ req[r].kind = "pr" /\ Start(r, "run")

StartCommit(r) == at[r] = "added" /\ Start(r, "commit")

Commits(r) ==
  /\ at[r] = "commit" /\ lock[cwd[r]] = {} /\ staged[cwd[r]] # {}
  /\ Goto(r, "ok")
  /\ commits' = [commits EXCEPT ![cwd[r]] = @ \cup {staged[cwd[r]]}]
  /\ staged' = [staged EXCEPT ![cwd[r]] = {}]
  /\ UNCHANGED <<active, binds, req, path, cwd, dirty, lock, ghost>>

\* Nothing is staged, the lock is held, a hook or the configuration objects.
CommitFails(r) ==
  /\ at[r] = "commit"
  /\ Goto(r, "failed")
  /\ UNCHANGED <<active, binds, req, path, cwd, repo, ghost>>

\* push, pull and pr answer as git or gh does.
GitEnds(r) ==
  /\ at[r] = "run"
  /\ \E l \in {"ok", "failed"} : Goto(r, l)
  /\ UNCHANGED <<active, binds, req, path, cwd, repo, ghost>>

Handle(r) == \/ (\E v \in {"active", "mount"} : Find(r, v)) \/ NotFound(r)
             \/ BadBody(r) \/ PostFile(r) \/ StartAdd(r) \/ StartCommit(r) \/ StartPr(r)
             \/ AddLocks(r) \/ AddEnds(r) \/ AddFails(r)
             \/ Commits(r) \/ CommitFails(r) \/ GitEnds(r)

LinkNext == \/ Deactivate
            \/ \E u \in Users : Activate(u)
            \/ \E r \in Requests : Handle(r)

LinkSpec == LinkInit /\ [][LinkNext]_linkVars

-----------------------------------------------------------------------------
\* The change is in the place's files, index or commits.
Holds(p, w) == w \in dirty[p] \cup staged[p] \cup UNION commits[p]

\* A write answered ok stays where it went, however add, commit and rebinds
\* follow: in the files, the index or a commit.  That is the repository its
\* lookup found, unless a rebind came before its body did: then it is the one of
\* the same name active by then, or a plain directory, which the next activate
\* removes with what is in it.
WriteIsKept ==
  \A w \in Requests : req[w].kind = "write" /\ at[w] = "ok" =>
    \E p \in Places : /\ touched[w] = {p}
                      /\ p = found[w] \/ (w \in mixed /\ p[2] = req[w].name)
                      /\ Holds(p, w) \/ p[1] = Plain

\* A commit that answers ok, met no rebind, push or pull, and whose git add did
\* not fail unseen, leaves no write uncommitted that was answered ok before it
\* came, in the repository its lookup found; whatever other commits and writes
\* run beside it.
LoneCommitIsComplete ==
  [][\A r \in Requests \ (mixed \cup unadded) :
       req[r].kind = "commit" /\ at[r] # "ok" /\ at'[r] = "ok"
         => \A w \in before[r] :
              touched[w] = {found[r]} => \E c \in commits'[found[r]] : w \in c]_linkVars
=============================================================================
