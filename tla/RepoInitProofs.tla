---------------------------- MODULE RepoInitProofs ----------------------------
(***************************************************************************)
(* Proofs about RepoInit, for any number of requests, owners and crashes:  *)
(* its type invariant, that written files are kept, that what is not a     *)
(* repository has a reason, and that an init on its own is answered truly. *)
(***************************************************************************)
EXTENDS RepoInit, TLAPS, WellFoundedInduction

-----------------------------------------------------------------------------
(* The inductive invariant *)

\* A request that has not begun has no process, place or answer; what one that has
\* begun works on follows from where it is.
Stages ==
  \A r \in Requests :
    /\ pc[r] = "new" => /\ proc[r] = "none" /\ call[r] = "none"
                        /\ place[r] = Nowhere
    /\ answer[r] # "none" => pc[r] = "done"
    /\ answer[r] = "written" => call[r] = "write"
    /\ pc[r] = "git" => call[r] \in {"pull", "clone", "empty"} /\ proc[r] \notin {"none", "killed"}
    /\ pc[r] = "body" => call[r] = "write"
    /\ call[r] \in {"none", "write"} => proc[r] = "none"
    /\ call[r] # "none" => place[r] \in Places
    /\ proc[r] \in Cloning => call[r] = "clone"

\* git clone works in one directory at a time.
ClonesApart ==
  \A r, s \in Requests :
    proc[r] \in Cloning /\ proc[s] \in Cloning /\ place[r] = place[s] => r = s

\* A directory that was a repository when it was written into stays one.
WrittenStays ==
  \A r \in Requests :
    answer[r] = "written" /\ sound[r] => dir[place[r]] = "repo" /\ r \in files[place[r]]

\* Two that are at work have met.
WorkersHaveMet ==
  \A r, s \in AtWork : alone[r] => r = s

\* Only git clone begins a clone, and leaves it so where it is killed.
PartialHasClone ==
  \A p \in Places :
    dir[p] = "partial" =>
      \E r \in Requests : place[r] = p /\ proc[r] \in Cloning \cup {"killed"}

\* A reason that no step takes away.
LastingReason(p) ==
  \E r \in Requests :
    /\ place[r] = p
    /\ proc[r] = "killed" \/ (call[r] = "empty" /\ proc[r] = "failed") \/ ~alone[r]

\* git clone fills a directory that was there only where that has such a reason.
FillingHasReason ==
  \A r \in Requests : proc[r] = "filling" => LastingReason(place[r])

\* What a POST has found is there until another call takes it away.
LoneWriteFinds ==
  \A r \in Requests : pc[r] = "body" /\ alone[r] => dir[place[r]] # "absent"

\* What there is of that name, while an init that makes it is on its own.
LoneInitSees ==
  \A r \in Requests :
    alone[r] /\ ~isolated /\ pc[r] = "git" /\ call[r] \in {"clone", "empty"} =>
      /\ Present = IF call[r] = "clone" /\ proc[r] \in {"spawned", "failed"}
                     THEN {} ELSE {place[r]}
      /\ proc[r] # "filling"
      /\ proc[r] = "ok" => dir[place[r]] = "repo"
      /\ call[r] = "empty" => dir[place[r]] # "partial"

\* A pull that is on its own works on what find_repo finds.
LonePullSees ==
  \A r \in Requests : alone[r] /\ pc[r] = "git" /\ call[r] = "pull" => FindRepo = place[r]

Inv1 == TypeOK /\ Stages /\ ClonesApart

IInv == /\ Inv1
        /\ WrittenStays
        /\ WorkersHaveMet
        /\ PartialHasClone
        /\ FillingHasReason
        /\ OddityHasReason
        /\ LoneWriteFinds
        /\ LoneInitSees
        /\ LonePullSees

-----------------------------------------------------------------------------
(* Where things are *)

\* A set of natural numbers that is not empty holds its minimum.
LEMMA MinIsInIt ==
  ASSUME NEW S, S \subseteq Nat, S # {}
  PROVE  Min(S) \in S /\ \A y \in S : Min(S) <= y
<1> DEFINE R == {ss \in Nat \X Nat : ss[1] < ss[2]}
<1>1. PICK x \in S : \A y \in S : <<y, x>> \notin R
  <2>1. IsWellFoundedOn(R, Nat)
    BY NatLessThanWellFounded, Zenon DEF OpToRel
  <2> HIDE DEF R
  <2>2. QED
    BY <2>1, WFMin, Zenon
<1>2. \A y \in S : x <= y
  <2> SUFFICES ASSUME NEW y \in S
               PROVE  x <= y
    OBVIOUS
  <2>1. ~(y < x)
    BY <1>1
  <2>2. QED
    BY <2>1
<1>3. QED
  BY <1>2 DEF Min

\* The minimum of one place is that place.
LEMMA MinOfOne ==
  ASSUME NEW x \in Nat
  PROVE  Min({x}) = x
  BY DEF Min

\* The names of the places.
LEMMA PlacesAreNumbers ==
  /\ Places \subseteq Nat /\ Owners \subseteq Places /\ Nowhere \notin Places
  /\ UserDir \in Owners /\ 0 \in Places
  BY InitAssumption DEF Places, Owners, Legacy, Nowhere

\* find_repo finds a directory that is there, or nothing.
LEMMA FindRepoFinds ==
  FindRepo # Nowhere => FindRepo \in Present /\ FindRepo \in Places
<1>1. CASE isolated
  <2>1. Present \cap {0} # {} => Min(Present \cap {0}) \in Present \cap {0}
    BY MinIsInIt, PlacesAreNumbers DEF Present
  <2>2. QED
    BY <1>1, <2>1 DEF FindRepo, Present
<1>2. CASE ~isolated
  <2>1. Present # {} => Min(Present) \in Present
    BY MinIsInIt, PlacesAreNumbers DEF Present
  <2>2. QED
    BY <1>2, <2>1 DEF FindRepo, Present
<1>3. QED
  BY <1>1, <1>2

\* Outside the /active layout it finds what there is, if there is one, and else nothing.
LEMMA FindRepoSees ==
  ASSUME ~isolated
  PROVE  /\ FindRepo = Nowhere <=> Present = {}
         /\ \A p \in Places : Present = {p} => FindRepo = p
<1>1. Present # {} => Min(Present) \in Places
  BY MinIsInIt, PlacesAreNumbers DEF Present
<1>2. \A p \in Places : Present = {p} => Min(Present) = p
  BY MinOfOne, PlacesAreNumbers
<1>3. QED
  BY <1>1, <1>2, PlacesAreNumbers DEF FindRepo

\* The owner of an empty repository is one of the owners.
LEMMA EmptyOwnerTyped ==
  ASSUME TypeOK
  PROVE  EmptyOwner \in Owners
<1>1. tops \ Skipped # {} => Min(tops \ Skipped) \in tops \ Skipped
  BY MinIsInIt, PlacesAreNumbers DEF TypeOK
<1>2. QED
  BY <1>1, PlacesAreNumbers DEF EmptyOwner, TypeOK

-----------------------------------------------------------------------------
(* The invariant, conjunct by conjunct *)

\* Every step keeps what is known of a request by where it is.
LEMMA StagesKept ==
  ASSUME Inv1, [Next]_vars
  PROVE  Stages'
<1>1. ASSUME NEW r \in Requests, InitPulls(r)
      PROVE  Stages'
  BY <1>1, FindRepoFinds DEF InitPulls, Enter, Spawn, Inv1, TypeOK, Stages, Cloning
<1>2. ASSUME NEW r \in Requests, InitEmpties(r)
      PROVE  Stages'
  <2>1. PICK p \in Places : p = EmptyOwner
    BY EmptyOwnerTyped, PlacesAreNumbers DEF Inv1
  <2>2. QED
    BY <1>2, <2>1 DEF InitEmpties, Enter, Spawn, Inv1, TypeOK, Stages, Cloning
<1>3. ASSUME NEW r \in Requests, NEW o \in Owners, InitClones(r, o)
      PROVE  Stages'
  BY <1>3, PlacesAreNumbers DEF InitClones, Enter, Spawn, Inv1, TypeOK, Stages, Cloning
<1>4. ASSUME NEW r \in Requests, WriteFinds(r)
      PROVE  Stages'
  BY <1>4, FindRepoFinds DEF WriteFinds, Enter, Inv1, TypeOK, Stages, Cloning
<1>5. ASSUME NEW r \in Requests, PullEnds(r)
      PROVE  Stages'
  BY <1>5 DEF PullEnds, Inv1, TypeOK, Stages, Cloning
<1>6. ASSUME NEW r \in Requests, GitInitEnds(r)
      PROVE  Stages'
  BY <1>6 DEF GitInitEnds, Inv1, TypeOK, Stages, Cloning
<1>7. ASSUME NEW r \in Requests, CloneBegins(r)
      PROVE  Stages'
  BY <1>7 DEF CloneBegins, Inv1, TypeOK, Stages, Cloning
<1>8. ASSUME NEW r \in Requests, CloneSucceeds(r)
      PROVE  Stages'
  BY <1>8 DEF CloneSucceeds, Inv1, TypeOK, Stages, Cloning
<1>9. ASSUME NEW r \in Requests, CloneFails(r)
      PROVE  Stages'
  BY <1>9 DEF CloneFails, Inv1, TypeOK, Stages, Cloning
<1>10. ASSUME NEW r \in Requests, InitRefuses(r)
      PROVE  Stages'
  BY <1>10 DEF InitRefuses, Answer, Inv1, TypeOK, Stages, Cloning
<1>11. ASSUME NEW r \in Requests, PullAnswers(r)
      PROVE  Stages'
  BY <1>11 DEF PullAnswers, Answer, Inv1, TypeOK, Stages, Cloning
<1>12. ASSUME NEW r \in Requests, EmptyAnswers(r)
      PROVE  Stages'
  BY <1>12 DEF EmptyAnswers, Answer, WithFile, Inv1, TypeOK, Stages, Cloning
<1>13. ASSUME NEW r \in Requests, CloneAnswers(r)
      PROVE  Stages'
  BY <1>13 DEF CloneAnswers, Answer, Inv1, TypeOK, Stages, Cloning
<1>14. ASSUME NEW r \in Requests, WritePuts(r)
      PROVE  Stages'
  BY <1>14 DEF WritePuts, Answer, WithFile, Inv1, TypeOK, Stages, Cloning
<1>15. ASSUME Crash
      PROVE  Stages'
  BY <1>15 DEF Crash, Inv1, TypeOK, Stages, Cloning
<1>16. CASE UNCHANGED vars
  BY <1>16 DEF vars, Inv1, TypeOK, Stages, Cloning
<1>17. QED
  BY <1>1, <1>2, <1>3, <1>4, <1>5, <1>6, <1>7, <1>8, <1>9, <1>10, <1>11, <1>12, <1>13, <1>14,
       <1>15, <1>16 DEF Next, Rest

\* A clone begins only where no clone is under way.
LEMMA ApartKept ==
  ASSUME Inv1, [Next]_vars
  PROVE  ClonesApart'
<1>1. ASSUME NEW r \in Requests, InitPulls(r)
      PROVE  ClonesApart'
  BY <1>1, FindRepoFinds DEF InitPulls, Enter, Spawn, Inv1, TypeOK, Stages, ClonesApart,
       Cloning, Contents
<1>2. ASSUME NEW r \in Requests, InitEmpties(r)
      PROVE  ClonesApart'
  BY <1>2, EmptyOwnerTyped, PlacesAreNumbers DEF InitEmpties, Enter, Spawn, Inv1, TypeOK,
       Stages, ClonesApart, Cloning, Contents
<1>3. ASSUME NEW r \in Requests, NEW o \in Owners, InitClones(r, o)
      PROVE  ClonesApart'
  BY <1>3, PlacesAreNumbers DEF InitClones, Enter, Spawn, Inv1, TypeOK, Stages, ClonesApart,
       Cloning, Contents
<1>4. ASSUME NEW r \in Requests, WriteFinds(r)
      PROVE  ClonesApart'
  BY <1>4, FindRepoFinds DEF WriteFinds, Enter, Inv1, TypeOK, Stages, ClonesApart, Cloning,
       Contents
<1>5. ASSUME NEW r \in Requests, PullEnds(r)
      PROVE  ClonesApart'
  BY <1>5 DEF PullEnds, Inv1, TypeOK, Stages, ClonesApart, Cloning, Contents
<1>6. ASSUME NEW r \in Requests, GitInitEnds(r)
      PROVE  ClonesApart'
  BY <1>6 DEF GitInitEnds, Inv1, TypeOK, Stages, ClonesApart, Cloning, Contents
<1>7. ASSUME NEW r \in Requests, CloneBegins(r)
      PROVE  ClonesApart'
  BY <1>7 DEF CloneBegins, Inv1, TypeOK, Stages, ClonesApart, Cloning, Contents
<1>8. ASSUME NEW r \in Requests, CloneSucceeds(r)
      PROVE  ClonesApart'
  BY <1>8 DEF CloneSucceeds, Inv1, TypeOK, Stages, ClonesApart, Cloning, Contents
<1>9. ASSUME NEW r \in Requests, CloneFails(r)
      PROVE  ClonesApart'
  BY <1>9 DEF CloneFails, Inv1, TypeOK, Stages, ClonesApart, Cloning, Contents
<1>10. ASSUME NEW r \in Requests, InitRefuses(r)
      PROVE  ClonesApart'
  BY <1>10 DEF InitRefuses, Answer, Inv1, TypeOK, Stages, ClonesApart, Cloning, Contents
<1>11. ASSUME NEW r \in Requests, PullAnswers(r)
      PROVE  ClonesApart'
  BY <1>11 DEF PullAnswers, Answer, Inv1, TypeOK, Stages, ClonesApart, Cloning, Contents
<1>12. ASSUME NEW r \in Requests, EmptyAnswers(r)
      PROVE  ClonesApart'
  BY <1>12 DEF EmptyAnswers, Answer, WithFile, Inv1, TypeOK, Stages, ClonesApart, Cloning,
       Contents
<1>13. ASSUME NEW r \in Requests, CloneAnswers(r)
      PROVE  ClonesApart'
  BY <1>13 DEF CloneAnswers, Answer, Inv1, TypeOK, Stages, ClonesApart, Cloning, Contents
<1>14. ASSUME NEW r \in Requests, WritePuts(r)
      PROVE  ClonesApart'
  BY <1>14 DEF WritePuts, Answer, WithFile, Inv1, TypeOK, Stages, ClonesApart, Cloning, Contents
<1>15. ASSUME Crash
      PROVE  ClonesApart'
  BY <1>15 DEF Crash, Inv1, TypeOK, Stages, ClonesApart, Cloning, Contents
<1>16. CASE UNCHANGED vars
  BY <1>16 DEF vars, Inv1, TypeOK, Stages, ClonesApart, Cloning, Contents
<1>17. QED
  BY <1>1, <1>2, <1>3, <1>4, <1>5, <1>6, <1>7, <1>8, <1>9, <1>10, <1>11, <1>12, <1>13, <1>14,
       <1>15, <1>16 DEF Next, Rest

\* Every step keeps the types.
LEMMA TypesKept ==
  ASSUME Inv1, [Next]_vars
  PROVE  TypeOK'
<1>1. ASSUME NEW r \in Requests, InitPulls(r)
      PROVE  TypeOK'
  BY <1>1, FindRepoFinds DEF InitPulls, Enter, Spawn, Inv1, TypeOK, Stages, ClonesApart,
       Cloning, Contents, Oks
<1>2. ASSUME NEW r \in Requests, InitEmpties(r)
      PROVE  TypeOK'
  <2>1. TypeOK
    BY DEF Inv1
  <2>2. PICK p \in Owners : p = EmptyOwner
    BY <2>1, EmptyOwnerTyped
  <2>3. /\ tops' \subseteq Owners
        /\ dir' \in [Places -> Contents]
        /\ pc' \in [Requests -> {"new", "git", "body", "done", "dead"}]
        /\ call' \in [Requests -> {"none", "pull", "clone", "empty", "write"}]
        /\ place' \in [Requests -> Places \cup {Nowhere}]
        /\ proc' \in [Requests -> {"none", "spawned", "ok", "failed", "killed"} \cup Cloning]
        /\ alone' \in [Requests -> BOOLEAN]
    BY <1>2, <2>1, <2>2, PlacesAreNumbers DEF InitEmpties, Enter, Spawn, TypeOK, Contents
  <2>4. \A q \in Places : dir'[q] \in {"absent", "empty"} => files'[q] = {}
    BY <1>2, <2>1, <2>2, PlacesAreNumbers DEF InitEmpties, TypeOK
  <2>5. \A s \in Requests : proc'[s] \in Cloning => dir'[place'[s]] = "partial"
    <3>1. \A s \in Requests : proc'[s] \in Cloning =>
            place'[s] = place[s] /\ place[s] \in Places /\ dir[place[s]] = "partial"
      BY <1>2, <2>1 DEF InitEmpties, Enter, Spawn, TypeOK, Cloning, Inv1, Stages
    <3>2. \A q \in Places : dir[q] = "partial" => dir'[q] = "partial"
      BY <1>2, <2>1, <2>2, PlacesAreNumbers DEF InitEmpties, TypeOK
    <3>3. QED
      BY <3>1, <3>2
  <2>6. QED
    BY <1>2, <2>1, <2>3, <2>4, <2>5 DEF InitEmpties, TypeOK
<1>3. ASSUME NEW r \in Requests, NEW o \in Owners, InitClones(r, o)
      PROVE  TypeOK'
  BY <1>3, PlacesAreNumbers DEF InitClones, Enter, Spawn, Inv1, TypeOK, Stages, ClonesApart,
       Cloning, Contents, Oks
<1>4. ASSUME NEW r \in Requests, WriteFinds(r)
      PROVE  TypeOK'
  BY <1>4, FindRepoFinds DEF WriteFinds, Enter, Inv1, TypeOK, Stages, ClonesApart, Cloning,
       Contents, Oks
<1>5. ASSUME NEW r \in Requests, PullEnds(r)
      PROVE  TypeOK'
  BY <1>5 DEF PullEnds, Inv1, TypeOK, Stages, ClonesApart, Cloning, Contents, Oks
<1>6. ASSUME NEW r \in Requests, GitInitEnds(r)
      PROVE  TypeOK'
  BY <1>6 DEF GitInitEnds, Inv1, TypeOK, Stages, ClonesApart, Cloning, Contents, Oks
<1>7. ASSUME NEW r \in Requests, CloneBegins(r)
      PROVE  TypeOK'
  BY <1>7 DEF CloneBegins, Inv1, TypeOK, Stages, ClonesApart, Cloning, Contents, Oks
<1>8. ASSUME NEW r \in Requests, CloneSucceeds(r)
      PROVE  TypeOK'
  BY <1>8 DEF CloneSucceeds, Inv1, TypeOK, Stages, ClonesApart, Cloning, Contents, Oks
<1>9. ASSUME NEW r \in Requests, CloneFails(r)
      PROVE  TypeOK'
  BY <1>9 DEF CloneFails, Inv1, TypeOK, Stages, ClonesApart, Cloning, Contents, Oks
<1>10. ASSUME NEW r \in Requests, InitRefuses(r)
      PROVE  TypeOK'
  BY <1>10 DEF InitRefuses, Answer, Inv1, TypeOK, Stages, ClonesApart, Cloning, Contents, Oks
<1>11. ASSUME NEW r \in Requests, PullAnswers(r)
      PROVE  TypeOK'
  BY <1>11 DEF PullAnswers, Answer, Inv1, TypeOK, Stages, ClonesApart, Cloning, Contents, Oks
<1>12. ASSUME NEW r \in Requests, EmptyAnswers(r)
      PROVE  TypeOK'
  BY <1>12 DEF EmptyAnswers, Answer, WithFile, Inv1, TypeOK, Stages, ClonesApart, Cloning,
       Contents, Oks
<1>13. ASSUME NEW r \in Requests, CloneAnswers(r)
      PROVE  TypeOK'
  BY <1>13 DEF CloneAnswers, Answer, Inv1, TypeOK, Stages, ClonesApart, Cloning, Contents, Oks
<1>14. ASSUME NEW r \in Requests, WritePuts(r)
      PROVE  TypeOK'
  BY <1>14 DEF WritePuts, Answer, WithFile, Inv1, TypeOK, Stages, ClonesApart, Cloning,
       Contents, Oks
<1>15. ASSUME Crash
      PROVE  TypeOK'
  <2>1. /\ pc' \in [Requests -> {"new", "git", "body", "done", "dead"}]
        /\ crashes' \in 0..MaxCrashes
    BY <1>15, InitAssumption DEF Crash, Inv1, TypeOK
  <2>2. PICK killed \in SUBSET Requests :
          proc' = [r \in Requests |-> IF r \in killed THEN "killed" ELSE proc[r]]
    BY <1>15 DEF Crash
  <2>3. /\ proc' \in [Requests -> {"none", "spawned", "ok", "failed", "killed"} \cup Cloning]
        /\ \A r \in Requests : proc'[r] \in Cloning => proc[r] \in Cloning
    BY <2>2 DEF Inv1, TypeOK, Cloning
  <2>4. QED
    BY <1>15, <2>1, <2>3 DEF Crash, Inv1, TypeOK
<1>16. CASE UNCHANGED vars
  BY <1>16 DEF vars, Inv1, TypeOK, Stages, ClonesApart, Cloning, Contents, Oks
<1>17. QED
  BY <1>1, <1>2, <1>3, <1>4, <1>5, <1>6, <1>7, <1>8, <1>9, <1>10, <1>11, <1>12, <1>13, <1>14,
       <1>15, <1>16 DEF Next, Rest


\* What a request that begins changes, whichever call it is.
Begun(r) ==
  /\ r \notin AtWork /\ AtWork' = AtWork \cup {r}
  /\ alone'[r] <=> AtWork = {}
  /\ \A s \in Requests \ {r} :
       /\ pc'[s] = pc[s] /\ call'[s] = call[s]
       /\ place'[s] = place[s] /\ proc'[s] = proc[s]
       /\ alone'[s] => alone[s] /\ s \notin AtWork
  /\ UNCHANGED <<isolated, files, answer, sound>>
  /\ pc[r] = "new" /\ place'[r] \in Places
  /\ IF call'[r] = "write" THEN proc'[r] = "none" /\ dir[place'[r]] # "absent"
                           ELSE proc'[r] = "spawned" /\ pc'[r] = "git"
  /\ call'[r] \in {"clone", "empty"} => FindRepo = Nowhere
  /\ IF call'[r] = "empty"
       THEN /\ \A p \in Places \ {place'[r]} : dir'[p] = dir[p]
            /\ IF dir[place'[r]] = "absent" THEN dir'[place'[r]] = "empty"
                                            ELSE dir'[place'[r]] = dir[place'[r]]
       ELSE dir' = dir

\* The four calls that begin so.
LEMMA BeginEffect ==
  ASSUME IInv, NEW r \in Requests,
         InitPulls(r) \/ InitEmpties(r) \/ (\E o \in Owners : InitClones(r, o)) \/ WriteFinds(r)
  PROVE  Begun(r)
<1>1. \E l \in {"git", "body"}, c \in {"pull", "clone", "empty", "write"}, p \in Places :
        /\ pc[r] = "new" /\ Enter(r, l, c, p)
        /\ UNCHANGED <<isolated, files, answer, sound>>
        /\ IF c = "write" THEN l = "body" /\ proc' = proc /\ dir[p] # "absent"
                          ELSE l = "git" /\ Spawn(r)
        /\ c \in {"clone", "empty"} => FindRepo = Nowhere
        /\ IF c = "empty" THEN dir' = [dir EXCEPT ![p] = IF @ = "absent" THEN "empty" ELSE @]
                          ELSE dir' = dir
  <2>1. CASE InitPulls(r)
    BY <2>1, FindRepoFinds, Zenon DEF InitPulls
  <2>2. CASE InitEmpties(r)
    <3>1. TypeOK
      BY DEF IInv, Inv1
    <3>2. EmptyOwner \in Places
      BY <3>1, EmptyOwnerTyped, PlacesAreNumbers
    <3>3. QED
      BY <2>2, <3>2 DEF InitEmpties
  <2>3. CASE \E o \in Owners : InitClones(r, o)
    BY <2>3, PlacesAreNumbers DEF InitClones
  <2>4. CASE WriteFinds(r)
    <3>1. FindRepo \in Places /\ dir[FindRepo] # "absent"
      BY <2>4, FindRepoFinds DEF WriteFinds, Present
    <3>2. QED
      BY <2>4, <3>1 DEF WriteFinds
  <2>5. QED
    BY <2>1, <2>2, <2>3, <2>4
<1>2. PICK l \in {"git", "body"}, c \in {"pull", "clone", "empty", "write"}, p \in Places :
        /\ pc[r] = "new" /\ Enter(r, l, c, p)
        /\ UNCHANGED <<isolated, files, answer, sound>>
        /\ IF c = "write" THEN l = "body" /\ proc' = proc /\ dir[p] # "absent"
                          ELSE l = "git" /\ Spawn(r)
        /\ c \in {"clone", "empty"} => FindRepo = Nowhere
        /\ IF c = "empty" THEN dir' = [dir EXCEPT ![p] = IF @ = "absent" THEN "empty" ELSE @]
                          ELSE dir' = dir
  BY <1>1
<1>3. /\ pc'[r] = l /\ call'[r] = c /\ place'[r] = p
      /\ proc'[r] = IF c = "write" THEN "none" ELSE "spawned"
      /\ \A s \in Requests \ {r} :
           /\ pc'[s] = pc[s] /\ call'[s] = call[s]
           /\ place'[s] = place[s] /\ proc'[s] = proc[s]
  BY <1>2 DEF Enter, Spawn, IInv, Inv1, TypeOK, Stages
<1>4. /\ alone'[r] <=> AtWork = {}
      /\ \A s \in Requests \ {r} : alone'[s] => alone[s] /\ s \notin AtWork
  BY <1>2 DEF Enter
<1>5. r \notin AtWork /\ AtWork' = AtWork \cup {r}
  BY <1>2, <1>3 DEF AtWork, Cloning, IInv, Inv1, Stages
<1>6. IF c = "empty"
         THEN /\ \A q \in Places \ {p} : dir'[q] = dir[q]
              /\ IF dir[p] = "absent" THEN dir'[p] = "empty" ELSE dir'[p] = dir[p]
         ELSE dir' = dir
  BY <1>2 DEF IInv, Inv1, TypeOK
<1>7. QED
  BY <1>2, <1>3, <1>4, <1>5, <1>6 DEF Begun

\* What is in a repository stays in it.
LEMMA WrittenKept ==
  ASSUME IInv, [Next]_vars
  PROVE  WrittenStays'
<1>1. ASSUME NEW r \in Requests, InitPulls(r) \/ InitEmpties(r)
                                  \/ (\E o \in Owners : InitClones(r, o)) \/ WriteFinds(r)
      PROVE  WrittenStays'
  <2>1. Begun(r)
    BY <1>1, BeginEffect
  <2>2. \A s \in Requests : answer'[s] = "written" =>
          answer[s] = "written" /\ s # r /\ place[s] \in Places
    BY <2>1 DEF Begun, IInv, Inv1, Stages
  <2>3. \A p \in Places : dir[p] = "repo" => dir'[p] = "repo"
    BY <2>1 DEF Begun
  <2>4. QED
    BY <2>1, <2>2, <2>3 DEF Begun, IInv, WrittenStays
<1>2. ASSUME NEW r \in Requests, PullEnds(r)
      PROVE  WrittenStays'
  BY <1>2 DEF PullEnds, IInv, Inv1, TypeOK, Stages, WrittenStays, Cloning, Contents
<1>3. ASSUME NEW r \in Requests, GitInitEnds(r)
      PROVE  WrittenStays'
  <2>1. place[r] \in Places /\ \A p \in Places : dir[p] = "repo" => dir'[p] = "repo"
    BY <1>3 DEF GitInitEnds, IInv, Inv1, TypeOK, Stages
  <2>2. \A s \in Requests : answer[s] = "written" => place[s] \in Places
    BY DEF IInv, Inv1, TypeOK, Stages
  <2>3. QED
    BY <1>3, <2>1, <2>2 DEF GitInitEnds, IInv, WrittenStays
<1>4. ASSUME NEW r \in Requests, CloneBegins(r)
      PROVE  WrittenStays'
  BY <1>4 DEF CloneBegins, IInv, Inv1, TypeOK, Stages, WrittenStays, Cloning, Contents
<1>5. ASSUME NEW r \in Requests, CloneSucceeds(r)
      PROVE  WrittenStays'
  BY <1>5 DEF CloneSucceeds, IInv, Inv1, TypeOK, Stages, WrittenStays, Cloning, Contents
<1>6. ASSUME NEW r \in Requests, CloneFails(r)
      PROVE  WrittenStays'
  BY <1>6 DEF CloneFails, IInv, Inv1, TypeOK, Stages, WrittenStays, Cloning, Contents
<1>7. ASSUME NEW r \in Requests, InitRefuses(r)
      PROVE  WrittenStays'
  BY <1>7 DEF InitRefuses, Answer, IInv, Inv1, TypeOK, Stages, WrittenStays, Cloning, Contents
<1>8. ASSUME NEW r \in Requests, PullAnswers(r)
      PROVE  WrittenStays'
  BY <1>8 DEF PullAnswers, Answer, IInv, Inv1, TypeOK, Stages, WrittenStays, Cloning, Contents
<1>9. ASSUME NEW r \in Requests, EmptyAnswers(r)
      PROVE  WrittenStays'
  <2>1. place[r] \in Places /\ \A p \in Places : dir[p] = "repo" => dir'[p] = "repo"
    BY <1>9 DEF EmptyAnswers, WithFile, IInv, Inv1, TypeOK, Stages
  <2>2. \A s \in Requests : answer'[s] = "written" => answer[s] = "written" /\ place[s] \in Places
    BY <1>9 DEF EmptyAnswers, Answer, IInv, Inv1, TypeOK, Stages
  <2>3. QED
    BY <1>9, <2>1, <2>2 DEF EmptyAnswers, IInv, WrittenStays
<1>10. ASSUME NEW r \in Requests, CloneAnswers(r)
      PROVE  WrittenStays'
  BY <1>10 DEF CloneAnswers, Answer, IInv, Inv1, TypeOK, Stages, WrittenStays, Cloning, Contents
<1>11. ASSUME NEW r \in Requests, WritePuts(r)
      PROVE  WrittenStays'
  <2>1. /\ place[r] \in Places
        /\ \A p \in Places : dir[p] = "repo" => dir'[p] = "repo"
        /\ \A p \in Places : files[p] \subseteq files'[p]
        /\ r \in files'[place[r]]
    BY <1>11 DEF WritePuts, WithFile, IInv, Inv1, TypeOK, Stages
  <2>2. /\ \A s \in Requests \ {r} : answer'[s] = answer[s] /\ sound'[s] = sound[s]
        /\ sound'[r] => dir[place[r]] = "repo"
    BY <1>11 DEF WritePuts, Answer, IInv, Inv1, TypeOK, Stages
  <2>3. QED
    BY <1>11, <2>1, <2>2 DEF WritePuts, IInv, Inv1, TypeOK, Stages, WrittenStays
<1>12. ASSUME Crash
      PROVE  WrittenStays'
  BY <1>12 DEF Crash, IInv, Inv1, TypeOK, Stages, WrittenStays, Cloning, Contents
<1>13. CASE UNCHANGED vars
  BY <1>13 DEF vars, IInv, Inv1, TypeOK, Stages, WrittenStays, Cloning, Contents
<1>14. QED
  BY <1>1, <1>2, <1>3, <1>4, <1>5, <1>6, <1>7, <1>8, <1>9, <1>10, <1>11, <1>12, <1>13
       DEF Next, Rest

\* Whoever begins meets those at work; nothing else brings a request to work.
LEMMA MetKept ==
  ASSUME IInv, [Next]_vars
  PROVE  WorkersHaveMet'
<1>1. ASSUME NEW r \in Requests, InitPulls(r) \/ InitEmpties(r)
                                  \/ (\E o \in Owners : InitClones(r, o)) \/ WriteFinds(r)
      PROVE  WorkersHaveMet'
  <2>1. Begun(r)
    BY <1>1, BeginEffect
  <2>2. AtWork \subseteq Requests
    BY DEF AtWork
  <2>3. QED
    BY <2>1, <2>2 DEF Begun, WorkersHaveMet
<1>2. ASSUME NEW r \in Requests, PullEnds(r)
      PROVE  WorkersHaveMet'
  BY <1>2 DEF PullEnds, IInv, Inv1, TypeOK, Stages, WorkersHaveMet, AtWork, Cloning
<1>3. ASSUME NEW r \in Requests, GitInitEnds(r)
      PROVE  WorkersHaveMet'
  BY <1>3 DEF GitInitEnds, IInv, Inv1, TypeOK, Stages, WorkersHaveMet, AtWork, Cloning
<1>4. ASSUME NEW r \in Requests, CloneBegins(r)
      PROVE  WorkersHaveMet'
  BY <1>4 DEF CloneBegins, IInv, Inv1, TypeOK, Stages, WorkersHaveMet, AtWork, Cloning
<1>5. ASSUME NEW r \in Requests, CloneSucceeds(r)
      PROVE  WorkersHaveMet'
  BY <1>5 DEF CloneSucceeds, IInv, Inv1, TypeOK, Stages, WorkersHaveMet, AtWork, Cloning
<1>6. ASSUME NEW r \in Requests, CloneFails(r)
      PROVE  WorkersHaveMet'
  BY <1>6 DEF CloneFails, IInv, Inv1, TypeOK, Stages, WorkersHaveMet, AtWork, Cloning
<1>7. ASSUME NEW r \in Requests, InitRefuses(r)
      PROVE  WorkersHaveMet'
  BY <1>7 DEF InitRefuses, Answer, IInv, Inv1, TypeOK, Stages, WorkersHaveMet, AtWork, Cloning
<1>8. ASSUME NEW r \in Requests, PullAnswers(r)
      PROVE  WorkersHaveMet'
  BY <1>8 DEF PullAnswers, Answer, IInv, Inv1, TypeOK, Stages, WorkersHaveMet, AtWork, Cloning
<1>9. ASSUME NEW r \in Requests, EmptyAnswers(r)
      PROVE  WorkersHaveMet'
  BY <1>9 DEF EmptyAnswers, Answer, WithFile, IInv, Inv1, TypeOK, Stages, WorkersHaveMet,
       AtWork, Cloning
<1>10. ASSUME NEW r \in Requests, CloneAnswers(r)
      PROVE  WorkersHaveMet'
  BY <1>10 DEF CloneAnswers, Answer, IInv, Inv1, TypeOK, Stages, WorkersHaveMet, AtWork, Cloning
<1>11. ASSUME NEW r \in Requests, WritePuts(r)
      PROVE  WorkersHaveMet'
  BY <1>11 DEF WritePuts, Answer, WithFile, IInv, Inv1, TypeOK, Stages, WorkersHaveMet,
       AtWork, Cloning
<1>12. ASSUME Crash
      PROVE  WorkersHaveMet'
  BY <1>12 DEF Crash, IInv, Inv1, TypeOK, Stages, WorkersHaveMet, AtWork, Cloning
<1>13. CASE UNCHANGED vars
  BY <1>13 DEF vars, IInv, Inv1, TypeOK, Stages, WorkersHaveMet, AtWork, Cloning
<1>14. QED
  BY <1>1, <1>2, <1>3, <1>4, <1>5, <1>6, <1>7, <1>8, <1>9, <1>10, <1>11, <1>12, <1>13
       DEF Next, Rest

\* A begun clone ends with its process, or stays with one that was killed.
LEMMA PartialKept ==
  ASSUME IInv, [Next]_vars
  PROVE  PartialHasClone'
<1>1. ASSUME NEW r \in Requests, InitPulls(r) \/ InitEmpties(r)
                                  \/ (\E o \in Owners : InitClones(r, o)) \/ WriteFinds(r)
      PROVE  PartialHasClone'
  <2>1. Begun(r)
    BY <1>1, BeginEffect
  <2>2. QED
    BY <2>1 DEF Begun, IInv, Inv1, Stages, PartialHasClone, Cloning
<1>2. ASSUME NEW r \in Requests, PullEnds(r)
      PROVE  PartialHasClone'
  BY <1>2 DEF PullEnds, IInv, Inv1, TypeOK, Stages, PartialHasClone, Cloning, Contents
<1>3. ASSUME NEW r \in Requests, GitInitEnds(r)
      PROVE  PartialHasClone'
  BY <1>3 DEF GitInitEnds, IInv, Inv1, TypeOK, Stages, PartialHasClone, Cloning, Contents
<1>4. ASSUME NEW r \in Requests, CloneBegins(r)
      PROVE  PartialHasClone'
  BY <1>4 DEF CloneBegins, IInv, Inv1, TypeOK, Stages, PartialHasClone, Cloning, Contents
<1>5. ASSUME NEW r \in Requests, CloneSucceeds(r)
      PROVE  PartialHasClone'
  BY <1>5 DEF CloneSucceeds, IInv, Inv1, TypeOK, Stages, PartialHasClone, Cloning, Contents
<1>6. ASSUME NEW r \in Requests, CloneFails(r)
      PROVE  PartialHasClone'
  BY <1>6 DEF CloneFails, IInv, Inv1, TypeOK, Stages, PartialHasClone, Cloning, Contents
<1>7. ASSUME NEW r \in Requests, InitRefuses(r)
      PROVE  PartialHasClone'
  BY <1>7 DEF InitRefuses, Answer, IInv, Inv1, TypeOK, Stages, PartialHasClone, Cloning,
       Contents
<1>8. ASSUME NEW r \in Requests, PullAnswers(r)
      PROVE  PartialHasClone'
  BY <1>8 DEF PullAnswers, Answer, IInv, Inv1, TypeOK, Stages, PartialHasClone, Cloning,
       Contents
<1>9. ASSUME NEW r \in Requests, EmptyAnswers(r)
      PROVE  PartialHasClone'
  BY <1>9 DEF EmptyAnswers, Answer, WithFile, IInv, Inv1, TypeOK, Stages, PartialHasClone,
       Cloning, Contents
<1>10. ASSUME NEW r \in Requests, CloneAnswers(r)
      PROVE  PartialHasClone'
  BY <1>10 DEF CloneAnswers, Answer, IInv, Inv1, TypeOK, Stages, PartialHasClone, Cloning,
       Contents
<1>11. ASSUME NEW r \in Requests, WritePuts(r)
      PROVE  PartialHasClone'
  BY <1>11 DEF WritePuts, Answer, WithFile, IInv, Inv1, TypeOK, Stages, PartialHasClone,
       Cloning, Contents
<1>12. ASSUME Crash
      PROVE  PartialHasClone'
  BY <1>12 DEF Crash, IInv, Inv1, TypeOK, Stages, PartialHasClone, Cloning, Contents
<1>13. CASE UNCHANGED vars
  BY <1>13 DEF vars, IInv, Inv1, TypeOK, Stages, PartialHasClone, Cloning, Contents
<1>14. QED
  BY <1>1, <1>2, <1>3, <1>4, <1>5, <1>6, <1>7, <1>8, <1>9, <1>10, <1>11, <1>12, <1>13
       DEF Next, Rest

\* A reason that lasts is not taken away, and a clone that begins to fill a directory finds one.
LEMMA FillingKept ==
  ASSUME IInv, [Next]_vars
  PROVE  FillingHasReason'
<1>1. ASSUME NEW r \in Requests, InitPulls(r) \/ InitEmpties(r)
                                  \/ (\E o \in Owners : InitClones(r, o)) \/ WriteFinds(r)
      PROVE  FillingHasReason'
  <2>1. Begun(r)
    BY <1>1, BeginEffect
  <2>2. QED
    BY <2>1, PlacesAreNumbers DEF Begun, IInv, Inv1, Stages, FillingHasReason, LastingReason,
         Cloning
<1>2. ASSUME NEW r \in Requests, PullEnds(r)
      PROVE  FillingHasReason'
  BY <1>2 DEF PullEnds, IInv, Inv1, TypeOK, Stages, FillingHasReason, LastingReason, Cloning,
       Contents
<1>3. ASSUME NEW r \in Requests, GitInitEnds(r)
      PROVE  FillingHasReason'
  BY <1>3 DEF GitInitEnds, IInv, Inv1, TypeOK, Stages, FillingHasReason, LastingReason,
       Cloning, Contents
<1>4. ASSUME NEW r \in Requests, CloneBegins(r)
      PROVE  FillingHasReason'
  <2>1. /\ place[r] \in Places /\ r \in AtWork
        /\ \A s \in Requests \ {r} : proc'[s] = proc[s]
        /\ proc[r] = "spawned" /\ call[r] = "clone"
        /\ UNCHANGED <<place, call, alone>>
    BY <1>4 DEF CloneBegins, AtWork, IInv, Inv1, TypeOK, Stages
  <2>2. ASSUME NEW p, LastingReason(p)
        PROVE  LastingReason(p)'
    BY <2>1, <2>2 DEF LastingReason
  <2>3. ASSUME proc'[r] = "filling"
        PROVE  LastingReason(place[r])
    <3>1. dir[place[r]] = "empty"
      BY <1>4, <2>3 DEF CloneBegins, IInv, Inv1, TypeOK
    <3>2. PICK s \in Requests :
            /\ place[s] = place[r]
            /\ \/ proc[s] \in Cloning \cup {"killed"}
               \/ call[s] = "empty" /\ proc[s] \in {"spawned", "failed"}
               \/ ~alone[s]
      BY <2>1, <3>1 DEF IInv, OddityHasReason, Present
    <3>3. proc[s] \notin Cloning
      BY <3>1, <3>2 DEF IInv, Inv1, TypeOK
    <3>4. CASE call[s] = "empty" /\ proc[s] = "spawned"
      <4>1. s \in AtWork /\ s # r
        BY <2>1, <3>4 DEF AtWork
      <4>2. ~alone[r]
        BY <2>1, <4>1 DEF IInv, WorkersHaveMet
      <4>3. QED
        BY <4>2 DEF LastingReason
    <3>5. QED
      BY <3>2, <3>3, <3>4 DEF LastingReason
  <2>4. QED
    BY <2>1, <2>2, <2>3 DEF IInv, FillingHasReason
<1>5. ASSUME NEW r \in Requests, CloneSucceeds(r)
      PROVE  FillingHasReason'
  BY <1>5 DEF CloneSucceeds, IInv, Inv1, TypeOK, Stages, FillingHasReason, LastingReason,
       Cloning, Contents
<1>6. ASSUME NEW r \in Requests, CloneFails(r)
      PROVE  FillingHasReason'
  BY <1>6 DEF CloneFails, IInv, Inv1, TypeOK, Stages, FillingHasReason, LastingReason,
       Cloning, Contents
<1>7. ASSUME NEW r \in Requests, InitRefuses(r)
      PROVE  FillingHasReason'
  BY <1>7 DEF InitRefuses, Answer, IInv, Inv1, TypeOK, Stages, FillingHasReason,
       LastingReason, Cloning, Contents
<1>8. ASSUME NEW r \in Requests, PullAnswers(r)
      PROVE  FillingHasReason'
  BY <1>8 DEF PullAnswers, Answer, IInv, Inv1, TypeOK, Stages, FillingHasReason,
       LastingReason, Cloning, Contents
<1>9. ASSUME NEW r \in Requests, EmptyAnswers(r)
      PROVE  FillingHasReason'
  BY <1>9 DEF EmptyAnswers, Answer, WithFile, IInv, Inv1, TypeOK, Stages, FillingHasReason,
       LastingReason, Cloning, Contents
<1>10. ASSUME NEW r \in Requests, CloneAnswers(r)
      PROVE  FillingHasReason'
  BY <1>10 DEF CloneAnswers, Answer, IInv, Inv1, TypeOK, Stages, FillingHasReason,
       LastingReason, Cloning, Contents
<1>11. ASSUME NEW r \in Requests, WritePuts(r)
      PROVE  FillingHasReason'
  BY <1>11 DEF WritePuts, Answer, WithFile, IInv, Inv1, TypeOK, Stages, FillingHasReason,
       LastingReason, Cloning, Contents
<1>12. ASSUME Crash
      PROVE  FillingHasReason'
  BY <1>12 DEF Crash, IInv, Inv1, TypeOK, Stages, FillingHasReason, LastingReason, Cloning,
       Contents
<1>13. CASE UNCHANGED vars
  BY <1>13 DEF vars, IInv, Inv1, TypeOK, Stages, FillingHasReason, LastingReason, Cloning,
       Contents
<1>14. QED
  BY <1>1, <1>2, <1>3, <1>4, <1>5, <1>6, <1>7, <1>8, <1>9, <1>10, <1>11, <1>12, <1>13
       DEF Next, Rest

\* A directory that is not a repository always has a reason.
LEMMA OddityKept ==
  ASSUME IInv, [Next]_vars
  PROVE  OddityHasReason'
<1>1. ASSUME NEW r \in Requests, InitPulls(r) \/ InitEmpties(r)
                                  \/ (\E o \in Owners : InitClones(r, o)) \/ WriteFinds(r)
      PROVE  OddityHasReason'
  <2>1. Begun(r)
    BY <1>1, BeginEffect
  <2>2. QED
    BY <2>1, PlacesAreNumbers DEF Begun, IInv, Inv1, TypeOK, Stages, OddityHasReason, Present,
         Cloning
<1>2. ASSUME NEW r \in Requests, PullEnds(r)
      PROVE  OddityHasReason'
  BY <1>2 DEF PullEnds, IInv, Inv1, TypeOK, Stages, OddityHasReason, Present, Cloning, Contents
<1>3. ASSUME NEW r \in Requests, GitInitEnds(r)
      PROVE  OddityHasReason'
  <2>1. /\ place[r] \in Places /\ call[r] = "empty" /\ proc[r] = "spawned"
        /\ \A s \in Requests \ {r} : proc'[s] = proc[s]
        /\ UNCHANGED <<place, call, alone>>
    BY <1>3 DEF GitInitEnds, IInv, Inv1, TypeOK, Stages
  <2>2. CASE proc' = [proc EXCEPT ![r] = "failed"] /\ UNCHANGED dir
    <3>1. proc'[r] = "failed" /\ Present' = Present
      BY <2>2 DEF IInv, Inv1, TypeOK, Present
    <3>2. QED
      BY <2>1, <2>2, <3>1 DEF IInv, OddityHasReason, Cloning
  <2>3. CASE dir' = [dir EXCEPT ![place[r]] = IF @ = "partial" THEN @ ELSE "repo"]
    <3>0. dir \in [Places -> Contents]
      BY DEF IInv, Inv1, TypeOK
    <3>1. /\ \A p \in Places \ {place[r]} : dir'[p] = dir[p]
          /\ dir'[place[r]] # "repo" => dir[place[r]] = "partial"
      BY <2>1, <2>3, <3>0
    <3>2. SUFFICES ASSUME NEW p \in Places, dir'[p] \notin {"absent", "repo"}
                   PROVE  \E s \in Requests :
                            /\ place[s] = p
                            /\ \/ proc'[s] \in Cloning \cup {"killed"}
                               \/ call[s] = "empty" /\ proc'[s] \in {"spawned", "failed"}
                               \/ ~alone[s]
      BY <2>1 DEF OddityHasReason, Present
    <3>3. CASE p = place[r]
      <4>1. PICK s \in Requests : place[s] = p /\ proc[s] \in Cloning \cup {"killed"}
        BY <3>1, <3>2, <3>3 DEF IInv, PartialHasClone
      <4>2. QED
        BY <2>1, <4>1 DEF Cloning
    <3>4. CASE p # place[r]
      BY <2>1, <3>1, <3>2, <3>4 DEF IInv, OddityHasReason, Present
    <3>5. QED
      BY <3>3, <3>4
  <2>4. QED
    <3>1. (proc' = [proc EXCEPT ![r] = "failed"] /\ UNCHANGED dir)
            \/ dir' = [dir EXCEPT ![place[r]] = IF @ = "partial" THEN @ ELSE "repo"]
      BY <1>3, Zenon DEF GitInitEnds
    <3>2. QED
      BY <2>2, <2>3, <3>1
<1>4. ASSUME NEW r \in Requests, CloneBegins(r)
      PROVE  OddityHasReason'
  BY <1>4 DEF CloneBegins, IInv, Inv1, TypeOK, Stages, OddityHasReason, Present, Cloning,
       Contents
<1>5. ASSUME NEW r \in Requests, CloneSucceeds(r)
      PROVE  OddityHasReason'
  BY <1>5 DEF CloneSucceeds, IInv, Inv1, TypeOK, Stages, OddityHasReason, Present, Cloning,
       Contents
<1>6. ASSUME NEW r \in Requests, CloneFails(r)
      PROVE  OddityHasReason'
  <2>1. /\ place[r] \in Places /\ proc[r] \in Cloning /\ call[r] = "clone"
        /\ \A s \in Requests \ {r} : proc'[s] = proc[s]
        /\ \A p \in Places \ {place[r]} : dir'[p] = dir[p]
        /\ proc[r] # "filling" => dir'[place[r]] = "absent"
        /\ UNCHANGED <<place, call, alone>>
    BY <1>6 DEF CloneFails, IInv, Inv1, TypeOK, Stages, Cloning
  <2>2. ASSUME NEW p, LastingReason(p)
        PROVE  \E s \in Requests :
                 /\ place[s] = p
                 /\ \/ proc'[s] \in Cloning \cup {"killed"}
                    \/ call[s] = "empty" /\ proc'[s] \in {"spawned", "failed"}
                    \/ ~alone[s]
    BY <2>1, <2>2 DEF LastingReason, Cloning
  <2>3. proc[r] = "filling" => LastingReason(place[r])
    BY DEF IInv, FillingHasReason
  <2>4. QED
    BY <2>1, <2>2, <2>3 DEF IInv, OddityHasReason, Present
<1>7. ASSUME NEW r \in Requests, InitRefuses(r)
      PROVE  OddityHasReason'
  BY <1>7 DEF InitRefuses, Answer, IInv, Inv1, TypeOK, Stages, OddityHasReason, Present,
       Cloning, Contents
<1>8. ASSUME NEW r \in Requests, PullAnswers(r)
      PROVE  OddityHasReason'
  BY <1>8 DEF PullAnswers, Answer, IInv, Inv1, TypeOK, Stages, OddityHasReason, Present,
       Cloning, Contents
<1>9. ASSUME NEW r \in Requests, EmptyAnswers(r)
      PROVE  OddityHasReason'
  BY <1>9 DEF EmptyAnswers, Answer, WithFile, IInv, Inv1, TypeOK, Stages, OddityHasReason,
       Present, Cloning, Contents
<1>10. ASSUME NEW r \in Requests, CloneAnswers(r)
      PROVE  OddityHasReason'
  BY <1>10 DEF CloneAnswers, Answer, IInv, Inv1, TypeOK, Stages, OddityHasReason, Present,
       Cloning, Contents
<1>11. ASSUME NEW r \in Requests, WritePuts(r)
      PROVE  OddityHasReason'
  <2>1. /\ place[r] \in Places /\ UNCHANGED <<place, call, alone, proc>>
        /\ \A p \in Places : dir'[p] # "repo" => dir[p] # "repo"
        /\ \A p \in Places \ {place[r]} : dir'[p] = dir[p]
    BY <1>11 DEF WritePuts, WithFile, IInv, Inv1, TypeOK, Stages
  <2>2. dir[place[r]] = "absent" => ~alone[r]
    BY <1>11 DEF WritePuts, IInv, LoneWriteFinds
  <2>3. QED
    BY <2>1, <2>2 DEF IInv, OddityHasReason, Present
<1>12. ASSUME Crash
      PROVE  OddityHasReason'
  BY <1>12 DEF Crash, IInv, Inv1, TypeOK, Stages, OddityHasReason, Present, Cloning, Contents
<1>13. CASE UNCHANGED vars
  BY <1>13 DEF vars, IInv, Inv1, TypeOK, Stages, OddityHasReason, Present, Cloning, Contents
<1>14. QED
  BY <1>1, <1>2, <1>3, <1>4, <1>5, <1>6, <1>7, <1>8, <1>9, <1>10, <1>11, <1>12, <1>13
       DEF Next, Rest

\* Only another call takes away the directory that a POST has found.
LEMMA LoneWriteKept ==
  ASSUME IInv, [Next]_vars
  PROVE  LoneWriteFinds'
<1>1. ASSUME NEW r \in Requests, InitPulls(r) \/ InitEmpties(r)
                                  \/ (\E o \in Owners : InitClones(r, o)) \/ WriteFinds(r)
      PROVE  LoneWriteFinds'
  <2>1. Begun(r)
    BY <1>1, BeginEffect
  <2>2. QED
    BY <2>1 DEF Begun, IInv, Inv1, Stages, LoneWriteFinds
<1>2. ASSUME NEW r \in Requests, PullEnds(r)
      PROVE  LoneWriteFinds'
  BY <1>2 DEF PullEnds, IInv, Inv1, TypeOK, Stages, WorkersHaveMet, AtWork, Present,
       LoneWriteFinds, Cloning, Contents
<1>3. ASSUME NEW r \in Requests, GitInitEnds(r)
      PROVE  LoneWriteFinds'
  BY <1>3 DEF GitInitEnds, IInv, Inv1, TypeOK, Stages, WorkersHaveMet, AtWork, Present,
       LoneWriteFinds, Cloning, Contents
<1>4. ASSUME NEW r \in Requests, CloneBegins(r)
      PROVE  LoneWriteFinds'
  BY <1>4 DEF CloneBegins, IInv, Inv1, TypeOK, Stages, WorkersHaveMet, AtWork, Present,
       LoneWriteFinds, Cloning, Contents
<1>5. ASSUME NEW r \in Requests, CloneSucceeds(r)
      PROVE  LoneWriteFinds'
  BY <1>5 DEF CloneSucceeds, IInv, Inv1, TypeOK, Stages, WorkersHaveMet, AtWork, Present,
       LoneWriteFinds, Cloning, Contents
<1>6. ASSUME NEW r \in Requests, CloneFails(r)
      PROVE  LoneWriteFinds'
  BY <1>6 DEF CloneFails, IInv, Inv1, TypeOK, Stages, WorkersHaveMet, AtWork, Present,
       LoneWriteFinds, Cloning, Contents
<1>7. ASSUME NEW r \in Requests, InitRefuses(r)
      PROVE  LoneWriteFinds'
  BY <1>7 DEF InitRefuses, Answer, IInv, Inv1, TypeOK, Stages, WorkersHaveMet, AtWork,
       Present, LoneWriteFinds, Cloning, Contents
<1>8. ASSUME NEW r \in Requests, PullAnswers(r)
      PROVE  LoneWriteFinds'
  BY <1>8 DEF PullAnswers, Answer, IInv, Inv1, TypeOK, Stages, WorkersHaveMet, AtWork,
       Present, LoneWriteFinds, Cloning, Contents
<1>9. ASSUME NEW r \in Requests, EmptyAnswers(r)
      PROVE  LoneWriteFinds'
  BY <1>9 DEF EmptyAnswers, Answer, WithFile, IInv, Inv1, TypeOK, Stages, WorkersHaveMet,
       AtWork, Present, LoneWriteFinds, Cloning, Contents
<1>10. ASSUME NEW r \in Requests, CloneAnswers(r)
      PROVE  LoneWriteFinds'
  BY <1>10 DEF CloneAnswers, Answer, IInv, Inv1, TypeOK, Stages, WorkersHaveMet, AtWork,
       Present, LoneWriteFinds, Cloning, Contents
<1>11. ASSUME NEW r \in Requests, WritePuts(r)
      PROVE  LoneWriteFinds'
  BY <1>11 DEF WritePuts, Answer, WithFile, IInv, Inv1, TypeOK, Stages, WorkersHaveMet,
       AtWork, Present, LoneWriteFinds, Cloning, Contents
<1>12. ASSUME Crash
      PROVE  LoneWriteFinds'
  BY <1>12 DEF Crash, IInv, Inv1, TypeOK, Stages, WorkersHaveMet, AtWork, Present,
       LoneWriteFinds, Cloning, Contents
<1>13. CASE UNCHANGED vars
  BY <1>13 DEF vars, IInv, Inv1, TypeOK, Stages, WorkersHaveMet, AtWork, Present,
       LoneWriteFinds, Cloning, Contents
<1>14. QED
  BY <1>1, <1>2, <1>3, <1>4, <1>5, <1>6, <1>7, <1>8, <1>9, <1>10, <1>11, <1>12, <1>13
       DEF Next, Rest

\* Only its own steps change what a lone init sees.
LEMMA LoneInitKept ==
  ASSUME IInv, [Next]_vars
  PROVE  LoneInitSees'
<1>1. ASSUME NEW r \in Requests, InitPulls(r) \/ InitEmpties(r)
                                  \/ (\E o \in Owners : InitClones(r, o)) \/ WriteFinds(r)
      PROVE  LoneInitSees'
  <2>1. Begun(r)
    BY <1>1, BeginEffect
  <2>2. SUFFICES ASSUME NEW s \in Requests, alone'[s], ~isolated, pc'[s] = "git",
                        call'[s] \in {"clone", "empty"}
                 PROVE  /\ Present' = IF call'[s] = "clone" /\ proc'[s] \in {"spawned", "failed"}
                                        THEN {} ELSE {place'[s]}
                        /\ proc'[s] # "filling"
                        /\ proc'[s] = "ok" => dir'[place'[s]] = "repo"
                        /\ call'[s] = "empty" => dir'[place'[s]] # "partial"
    BY <2>1 DEF LoneInitSees, Begun
  <2>3. s = r
    BY <2>1, <2>2 DEF Begun, AtWork
  <2>4. proc'[r] = "spawned" /\ Present = {}
    BY <2>1, <2>2, <2>3, FindRepoSees DEF Begun
  <2>5. /\ Present' = IF call'[r] = "clone" THEN {} ELSE {place'[r]}
        /\ call'[r] = "empty" => dir'[place'[r]] # "partial"
    BY <2>1, <2>2, <2>3, <2>4 DEF Begun, Present
  <2>6. QED
    BY <2>3, <2>4, <2>5
<1>2. ASSUME NEW r \in Requests, PullEnds(r)
      PROVE  LoneInitSees'
  BY <1>2 DEF PullEnds, IInv, Inv1, TypeOK, Stages, WorkersHaveMet, AtWork, Present,
       LoneInitSees, Cloning, Contents
<1>3. ASSUME NEW r \in Requests, GitInitEnds(r)
      PROVE  LoneInitSees'
  <2>1. SUFFICES ASSUME NEW s \in Requests, alone[s], ~isolated, pc[s] = "git",
                        call[s] \in {"clone", "empty"}
                 PROVE  /\ Present' = IF call[s] = "clone" /\ proc'[s] \in {"spawned", "failed"}
                                        THEN {} ELSE {place[s]}
                        /\ proc'[s] # "filling"
                        /\ proc'[s] = "ok" => dir'[place[s]] = "repo"
                        /\ call[s] = "empty" => dir'[place[s]] # "partial"
    BY <1>3 DEF GitInitEnds, LoneInitSees
  <2>2. s = r
    BY <1>3, <2>1 DEF GitInitEnds, IInv, WorkersHaveMet, AtWork
  <2>3. Present = {place[r]} /\ proc[r] = "spawned" /\ call[r] = "empty" /\ place[r] \in Places
    BY <1>3, <2>1, <2>2 DEF GitInitEnds, IInv, Inv1, Stages, LoneInitSees
  <2>4. dir[place[r]] # "partial"
    BY <2>1, <2>2, <2>3 DEF IInv, LoneInitSees
  <2>5. QED
    BY <1>3, <2>2, <2>3, <2>4 DEF GitInitEnds, IInv, Inv1, TypeOK, Present
<1>4. ASSUME NEW r \in Requests, CloneBegins(r)
      PROVE  LoneInitSees'
  BY <1>4 DEF CloneBegins, IInv, Inv1, TypeOK, Stages, WorkersHaveMet, AtWork, Present,
       LoneInitSees, Cloning, Contents
<1>5. ASSUME NEW r \in Requests, CloneSucceeds(r)
      PROVE  LoneInitSees'
  BY <1>5 DEF CloneSucceeds, IInv, Inv1, TypeOK, Stages, WorkersHaveMet, AtWork, Present,
       LoneInitSees, Cloning, Contents
<1>6. ASSUME NEW r \in Requests, CloneFails(r)
      PROVE  LoneInitSees'
  BY <1>6 DEF CloneFails, IInv, Inv1, TypeOK, Stages, WorkersHaveMet, AtWork, Present,
       LoneInitSees, Cloning, Contents
<1>7. ASSUME NEW r \in Requests, InitRefuses(r)
      PROVE  LoneInitSees'
  BY <1>7 DEF InitRefuses, Answer, IInv, Inv1, TypeOK, Stages, WorkersHaveMet, AtWork,
       Present, LoneInitSees, Cloning, Contents
<1>8. ASSUME NEW r \in Requests, PullAnswers(r)
      PROVE  LoneInitSees'
  BY <1>8 DEF PullAnswers, Answer, IInv, Inv1, TypeOK, Stages, WorkersHaveMet, AtWork,
       Present, LoneInitSees, Cloning, Contents
<1>9. ASSUME NEW r \in Requests, EmptyAnswers(r)
      PROVE  LoneInitSees'
  BY <1>9 DEF EmptyAnswers, Answer, WithFile, IInv, Inv1, TypeOK, Stages, WorkersHaveMet,
       AtWork, Present, LoneInitSees, Cloning, Contents
<1>10. ASSUME NEW r \in Requests, CloneAnswers(r)
      PROVE  LoneInitSees'
  BY <1>10 DEF CloneAnswers, Answer, IInv, Inv1, TypeOK, Stages, WorkersHaveMet, AtWork,
       Present, LoneInitSees, Cloning, Contents
<1>11. ASSUME NEW r \in Requests, WritePuts(r)
      PROVE  LoneInitSees'
  BY <1>11 DEF WritePuts, Answer, WithFile, IInv, Inv1, TypeOK, Stages, WorkersHaveMet,
       AtWork, Present, LoneInitSees, Cloning, Contents
<1>12. ASSUME Crash
      PROVE  LoneInitSees'
  BY <1>12 DEF Crash, IInv, Inv1, TypeOK, Stages, WorkersHaveMet, AtWork, Present,
       LoneInitSees, Cloning, Contents
<1>13. CASE UNCHANGED vars
  BY <1>13 DEF vars, IInv, Inv1, TypeOK, Stages, WorkersHaveMet, AtWork, Present,
       LoneInitSees, Cloning, Contents
<1>14. QED
  BY <1>1, <1>2, <1>3, <1>4, <1>5, <1>6, <1>7, <1>8, <1>9, <1>10, <1>11, <1>12, <1>13
       DEF Next, Rest

\* What find_repo finds depends on what there is.
LEMMA FindRepoStays ==
  ASSUME Present' = Present, isolated' = isolated
  PROVE  FindRepo' = FindRepo
  BY DEF FindRepo

\* Only a call that works on a directory changes what find_repo finds.
LEMMA LonePullKept ==
  ASSUME IInv, [Next]_vars
  PROVE  LonePullSees'
<1>1. SUFFICES ASSUME NEW s \in Requests, alone'[s], pc'[s] = "git", call'[s] = "pull"
               PROVE  FindRepo' = place'[s]
  BY DEF LonePullSees
<1>2. ASSUME NEW r \in Requests, InitPulls(r) \/ InitEmpties(r)
                                  \/ (\E o \in Owners : InitClones(r, o)) \/ WriteFinds(r)
      PROVE  FindRepo' = place'[s]
  <2>1. Begun(r)
    BY <1>2, BeginEffect
  <2>2. s = r
    BY <1>1, <2>1 DEF Begun, AtWork
  <2>3. InitPulls(r)
    BY <1>1, <1>2, <2>2 DEF InitEmpties, InitClones, WriteFinds, Enter, IInv, Inv1, TypeOK
  <2>4. place'[r] = FindRepo /\ dir' = dir /\ isolated' = isolated
    BY <2>3 DEF InitPulls, Enter, IInv, Inv1, TypeOK
  <2>5. QED
    BY <2>2, <2>4, FindRepoStays DEF Present
<1>3. ASSUME NEW r \in Requests,
             \/ GitInitEnds(r) \/ CloneBegins(r) \/ CloneSucceeds(r) \/ CloneFails(r)
             \/ EmptyAnswers(r) \/ WritePuts(r)
      PROVE  FindRepo' = place'[s]
  <2>1. r \in AtWork /\ call[r] # "pull"
    BY <1>3 DEF GitInitEnds, CloneBegins, CloneSucceeds, CloneFails, EmptyAnswers, WritePuts,
      AtWork, Cloning, IInv, Inv1, Stages
  <2>2. s \in AtWork /\ alone[s] /\ call[s] = "pull"
    BY <1>1, <1>3 DEF GitInitEnds, CloneBegins, CloneSucceeds, CloneFails, EmptyAnswers, WritePuts,
      Answer, AtWork, IInv, Inv1, TypeOK
  <2>3. QED
    BY <2>1, <2>2 DEF IInv, WorkersHaveMet
<1>4. ASSUME NEW r \in Requests,
             PullEnds(r) \/ InitRefuses(r) \/ PullAnswers(r) \/ CloneAnswers(r)
      PROVE  FindRepo' = place'[s]
  <2>1. /\ dir' = dir /\ isolated' = isolated /\ place' = place
        /\ alone[s] /\ pc[s] = "git" /\ call[s] = "pull"
    BY <1>1, <1>4 DEF PullEnds, InitRefuses, PullAnswers, CloneAnswers, Answer, IInv, Inv1, TypeOK
  <2>2. QED
    BY <2>1, FindRepoStays DEF Present, IInv, LonePullSees
<1>5. CASE Crash \/ UNCHANGED vars
  <2>1. /\ dir' = dir /\ isolated' = isolated /\ place' = place
        /\ alone[s] /\ pc[s] = "git" /\ call[s] = "pull"
    BY <1>1, <1>5 DEF Crash, vars, IInv, Inv1, TypeOK
  <2>2. QED
    BY <2>1, FindRepoStays DEF Present, IInv, LonePullSees
<1>6. QED
  BY <1>2, <1>3, <1>4, <1>5 DEF Next, Rest

-----------------------------------------------------------------------------
(* The theorems *)

\* Initially there is one repository of the name, or none, and nothing is at work.
LEMMA Initially == Init => IInv
<1> SUFFICES ASSUME Init
             PROVE  IInv
  OBVIOUS
<1>1. /\ dir \in [Places -> Contents]
      /\ \A p \in Places : dir[p] \in {"absent", "repo"}
  BY DEF Init, Contents
<1>2. TypeOK
  BY <1>1, InitAssumption DEF Init, TypeOK, Cloning
<1>3. Stages /\ ClonesApart
  BY DEF Init, Stages, ClonesApart, Cloning
<1>4. /\ WrittenStays /\ WorkersHaveMet /\ FillingHasReason /\ LoneWriteFinds /\ LoneInitSees
      /\ LonePullSees
  BY DEF Init, WrittenStays, WorkersHaveMet, AtWork, Cloning, FillingHasReason, LoneWriteFinds,
    LoneInitSees, LonePullSees
<1>5. PartialHasClone /\ OddityHasReason
  BY <1>1 DEF PartialHasClone, OddityHasReason, Present
<1>6. QED
  BY <1>2, <1>3, <1>4, <1>5 DEF IInv, Inv1

\* The invariant holds throughout.
THEOREM Invariance == Spec => []IInv
<1>1. IInv /\ [Next]_vars => IInv'
  <2> SUFFICES ASSUME IInv, [Next]_vars
               PROVE  IInv'
    OBVIOUS
  <2>1. Inv1
    BY DEF IInv
  <2>2. Inv1'
    BY <2>1, TypesKept, StagesKept, ApartKept DEF Inv1
  <2>3. /\ WrittenStays' /\ WorkersHaveMet' /\ PartialHasClone' /\ FillingHasReason'
        /\ OddityHasReason' /\ LoneWriteFinds' /\ LoneInitSees' /\ LonePullSees'
    BY WrittenKept, MetKept, PartialKept, FillingKept, OddityKept, LoneWriteKept, LoneInitKept,
      LonePullKept
  <2>4. QED
    BY <2>2, <2>3 DEF IInv
<1>2. QED
  BY Initially, <1>1, PTL DEF Spec

\* Every variable keeps its type, and directories that are not there hold no files.
THEOREM TypeCorrect == Spec => []TypeOK
<1>1. IInv => TypeOK
  BY DEF IInv, Inv1
<1>2. QED
  BY <1>1, Invariance, PTL

\* A file written into a repository stays there, whatever inits do.
THEOREM Kept == Spec => []WrittenIsKept
<1>1. IInv => WrittenIsKept
  BY DEF IInv, WrittenStays, WrittenIsKept
<1>2. QED
  BY <1>1, Invariance, PTL

\* Whatever is not a repository has a reason.
THEOREM Reason == Spec => []OddityHasReason
<1>1. IInv => OddityHasReason
  BY DEF IInv
<1>2. QED
  BY <1>1, Invariance, PTL

\* No step but the end of an init answers it.
LEMMA AnswerStep ==
  ASSUME IInv, [Next]_vars, NEW r \in Requests, answer[r] = "none",
         answer'[r] \in {"pulled", "cloned", "created", "500"}
  PROVE  \/ EmptyAnswers(r) \/ CloneAnswers(r)
         \/ PullAnswers(r) /\ answer'[r] = "pulled"
<1>1. ASSUME NEW s \in Requests, InitPulls(s) \/ InitEmpties(s)
                                  \/ (\E o \in Owners : InitClones(s, o)) \/ WriteFinds(s)
      PROVE  FALSE
  BY <1>1 DEF InitPulls, InitEmpties, InitClones, WriteFinds
<1>2. ASSUME NEW s \in Requests, PullEnds(s) \/ GitInitEnds(s) \/ CloneBegins(s)
                                  \/ CloneSucceeds(s) \/ CloneFails(s)
      PROVE  FALSE
  BY <1>2 DEF PullEnds, GitInitEnds, CloneBegins, CloneSucceeds, CloneFails
<1>3. ASSUME NEW s \in Requests, InitRefuses(s) \/ WritePuts(s)
      PROVE  FALSE
  BY <1>3 DEF InitRefuses, WritePuts, Answer, IInv, Inv1, TypeOK
<1>4. ASSUME NEW s \in Requests, EmptyAnswers(s) \/ CloneAnswers(s) \/ PullAnswers(s)
      PROVE  s = r /\ (PullAnswers(s) => answer'[r] = "pulled")
  BY <1>4 DEF EmptyAnswers, CloneAnswers, PullAnswers, Answer, IInv, Inv1, TypeOK
<1>5. ~Crash /\ ~UNCHANGED vars
  BY DEF Crash, vars
<1>6. QED
  BY <1>1, <1>2, <1>3, <1>4, <1>5 DEF Next, Rest

\* A pull on its own names the directory that is found, and finds a repository in
\* it unless another request has spoilt it.
LEMMA LonePull ==
  ASSUME IInv, NEW r \in Requests, alone[r], PullAnswers(r)
  PROVE  /\ FindRepo' = place[r]
         /\ dir[place[r]] # "repo" =>
              \E q \in Requests \ {r} : place[q] = place[r] /\ Spoilt(q)
<1>1. /\ pc[r] = "git" /\ call[r] = "pull" /\ dir' = dir /\ isolated' = isolated
      /\ r \in AtWork /\ proc[r] \in {"ok", "failed"}
  BY DEF PullAnswers, AtWork
<1>2. FindRepo = place[r] /\ place[r] \in Places
  BY <1>1 DEF IInv, Inv1, Stages, LonePullSees
<1>3. FindRepo' = place[r]
  BY <1>1, <1>2, FindRepoStays DEF Present
<1>4. place[r] \in Present
  BY <1>2, FindRepoFinds, PlacesAreNumbers
<1>5. ASSUME dir[place[r]] # "repo"
      PROVE  \E q \in Requests \ {r} : place[q] = place[r] /\ Spoilt(q)
  <2>1. PICK q \in Requests :
          /\ place[q] = place[r]
          /\ \/ proc[q] \in Cloning \cup {"killed"}
             \/ call[q] = "empty" /\ proc[q] \in {"spawned", "failed"}
             \/ ~alone[q]
    BY <1>4, <1>5 DEF IInv, OddityHasReason
  <2>2. q # r
    BY <1>1, <2>1 DEF Cloning
  <2>3. q \notin AtWork
    BY <1>1, <2>2 DEF IInv, WorkersHaveMet
  <2>4. proc[q] \notin Cloning \cup {"spawned"}
    BY <2>3 DEF AtWork
  <2>5. QED
    BY <2>1, <2>2, <2>4 DEF Spoilt
<1>6. QED
  BY <1>3, <1>5

\* An init on its own is answered truly (handle_init): pulled names a repository
\* unless an earlier call has spoilt it, and outside the /active layout cloned and
\* created name the one directory there is, and a failed clone leaves none.
THEOREM LoneTruth == Spec => LoneAnswerIsTrue
<1> DEFINE T(r) == alone[r] /\ answer[r] = "none" =>
                     /\ answer'[r] = "pulled" =>
                          /\ FindRepo' = place[r]
                          /\ dir[place[r]] # "repo" =>
                               \E q \in Requests \ {r} : place[q] = place[r] /\ Spoilt(q)
                     /\ ~isolated /\ answer'[r] \in {"cloned", "created"} =>
                          /\ Present' = {place[r]} /\ FindRepo' = place[r]
                          /\ proc[r] = "ok" => dir'[place[r]] = "repo"
                     /\ ~isolated /\ answer'[r] = "500" => FindRepo' = Nowhere
<1>1. ASSUME IInv, [Next]_vars, NEW r \in Requests, alone[r], ~isolated, answer[r] = "none",
             answer'[r] \in {"cloned", "created", "500"}
      PROVE  /\ answer'[r] \in {"cloned", "created"} =>
                  /\ Present' = {place[r]} /\ FindRepo' = place[r]
                  /\ proc[r] = "ok" => dir'[place[r]] = "repo"
             /\ answer'[r] = "500" => FindRepo' = Nowhere
  <2>1. EmptyAnswers(r) \/ CloneAnswers(r)
    BY <1>1, AnswerStep
  <2>2. /\ pc[r] = "git" /\ call[r] \in {"clone", "empty"} /\ place[r] \in Places
        /\ dir \in [Places -> Contents]
        /\ answer \in [Requests -> Oks \cup {"none", "404", "500", "written"}]
    BY <1>1, <2>1 DEF EmptyAnswers, CloneAnswers, IInv, Inv1, TypeOK, Stages
  <2>3. /\ Present = IF call[r] = "clone" /\ proc[r] \in {"spawned", "failed"}
                       THEN {} ELSE {place[r]}
        /\ proc[r] = "ok" => dir[place[r]] = "repo"
    BY <1>1, <2>2 DEF IInv, LoneInitSees
  <2>4. ~isolated'
    BY <1>1, <2>1 DEF EmptyAnswers, CloneAnswers
  <2>5. /\ Present' = {} => FindRepo' = Nowhere
        /\ Present' = {place[r]} => FindRepo' = place[r]
    BY <2>2, <2>4, MinOfOne, PlacesAreNumbers DEF FindRepo
  <2>6. CASE EmptyAnswers(r)
    <3>1. Present = {place[r]} /\ dir[place[r]] # "absent"
      BY <2>2, <2>3, <2>6 DEF EmptyAnswers, Present
    <3>2. /\ answer'[r] = "created" /\ Present' = Present
          /\ dir[place[r]] = "repo" => dir'[place[r]] = "repo"
      BY <2>2, <2>6, <3>1 DEF EmptyAnswers, Answer, WithFile, Present
    <3>3. QED
      BY <2>3, <2>5, <3>1, <3>2
  <2>7. CASE CloneAnswers(r)
    <3>1. /\ answer'[r] = (IF proc[r] = "ok" THEN "cloned" ELSE "500") /\ dir' = dir
          /\ Present' = Present /\ call[r] = "clone" /\ proc[r] \in {"ok", "failed"}
      BY <2>2, <2>7 DEF CloneAnswers, Answer, Present
    <3>2. QED
      BY <2>3, <2>5, <3>1
  <2>8. QED
    BY <2>1, <2>6, <2>7
<1>2. ASSUME IInv, [Next]_vars, NEW r \in Requests, alone[r], answer[r] = "none",
             answer'[r] = "pulled"
      PROVE  PullAnswers(r)
  BY <1>2, AnswerStep DEF EmptyAnswers, CloneAnswers, Answer, IInv, Inv1, TypeOK
<1>3. IInv /\ [Next]_vars => \A r \in Requests : T(r)
  BY <1>1, <1>2, LonePull
<1>4. QED
  BY <1>3, Invariance, PTL DEF Spec, LoneAnswerIsTrue
=============================================================================
