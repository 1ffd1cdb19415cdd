-------------------------- MODULE ManifestFileProofs --------------------------
(***************************************************************************)
(* Proofs about ManifestFile, for any number of commands, agent names and  *)
(* ports: its type invariant, that no manifest is ever written in which    *)
(* ports or names collide, that a listed agent has its home, and that a    *)
(* lone `up` starts what the commands before it have told.                 *)
(***************************************************************************)
EXTENDS ManifestFile, FiniteSetTheorems, TLAPS

-----------------------------------------------------------------------------
(* The inductive invariant *)

\* The places of an add before it saves, and of a command that writes.
Making  == {"mkdir", "openEnv", "fillEnv", "openCfg", "fillCfg"}
Writing == Making \cup {"truncate", "write"}

Writer(c) == job[c].kind # "up"

\* A manifest that `up` could start: names and ports differ, none the adapter's;
\* no command has added two of its entries.
Sound(m) ==
  \A e \in m.agents :
    /\ e.port # m.port
    /\ \A f \in m.agents \ {e} : e.name # f.name /\ e.port # f.port /\ e.by # f.by

\* Nobody's entry is anywhere before its command has loaded the file.
Signed(m) == \A e \in m.agents : at[e.by] # "new"

\* The manifests there are: in the file, and in the copies.
AllSound ==
  /\ file \in Manifest => Sound(file) /\ Signed(file)
  /\ \A c \in Commands : mem[c] # Nobody => Sound(mem[c]) /\ Signed(mem[c])

\* Where a command can be, by its kind; one that is under way has a copy.
AtByKind ==
  \A c \in Commands :
    /\ at[c] \in Making => job[c].kind = "add"
    /\ at[c] \in {"truncate", "write"} => job[c].kind # "up"
    /\ at[c] = "purge" => job[c].kind = "purge"
    /\ at[c] = "start" => job[c].kind = "up"
    /\ at[c] \in UnderWay => mem[c] # Nobody

\* Of two commands under way, one that meets a writer is mixed.
BesideIsMixed ==
  \A c, q \in Commands :
    c # q /\ {at[c], at[q]} \subseteq UnderWay /\ Writer(q) => c \in mixed

\* The copy of an init lists no agent, that of a remove not the one it removes.
CopyByKind ==
  \A c \in Commands :
    at[c] \in UnderWay =>
      /\ job[c].kind \in {"remove", "purge"} => ~Listed(mem[c], job[c].name)
      /\ job[c].kind \in {"init", "force"} => mem[c].agents = {}

-----------------------------------------------------------------------------
(* Homes *)

Complete(n) == home[n].dir /\ home[n].env # "none" /\ home[n].cfg # "none"

\* A purge of this home ran beside another command.
Purged(n) == \E q \in mixed : job[q].kind = "purge" /\ job[q].name = n

\* An add of this name is at one of these places.
Adding(n, places) == \E a \in Commands : job[a].kind = "add" /\ job[a].name = n /\ at[a] \in places

\* A file is empty while an add writes it, or after one was killed at that.
EmptyIsTorn ==
  \A n \in Names : /\ home[n].env = "empty" => Adding(n, {"fillEnv", "torn"})
                   /\ home[n].cfg = "empty" => Adding(n, {"fillCfg", "torn"})

\* What a home has when its add is at a place.
Made(l, h) ==
  /\ l # "mkdir" => h.dir
  /\ l \notin {"mkdir", "openEnv"} => h.env # "none"
  /\ l \notin {"mkdir", "openEnv", "fillEnv", "openCfg"} => h.cfg # "none"

\* What an add has made of its agent's home, unless a purge undid it.
HomeInTheMaking ==
  \A c \in Commands :
    job[c].kind = "add" /\ at[c] \in Writing =>
      Made(at[c], home[job[c].name]) \/ (c \in mixed /\ Purged(job[c].name))

\* The other agents of the copy that a command will write have theirs.
CopiesHaveHomes ==
  \A c \in Commands :
    at[c] \in Writing =>
      \A e \in mem[c].agents :
        \/ job[c].kind = "add" /\ e.name = job[c].name
        \/ Complete(e.name) \/ Purged(e.name)

-----------------------------------------------------------------------------
(* What has been told *)

\* What is told is in the file, unless that is just being written.
ToldIsFile ==
  told # Unknown => told = file \/ \E c \in Commands : at[c] = "write"

\* The agents that are told of have a home, and no purge takes it.
ToldHaveHomes ==
  told \in Manifest =>
    /\ \A e \in told.agents : Complete(e.name)
    /\ \A q \in Commands : at[q] = "purge" => ~Listed(told, job[q].name)

\* The copy of a command that met no writer follows from what is told.
CopyIsTold ==
  \A c \in Commands \ mixed :
    at[c] \in Writing \cup {"start"} /\ told # Unknown =>
      LET k == job[c].kind IN
      /\ k = "up" => mem[c] = told
      /\ k = "add" => /\ told \in Manifest
                      /\ \A e \in told.agents : e.by # c
                      /\ \E e \in Entry :
                           /\ e.by = c /\ e.name = job[c].name
                           /\ mem[c] = [told EXCEPT !.agents = @ \cup {e}]
      /\ k \in {"remove", "purge"} => /\ told \in Manifest
                                      /\ mem[c] = Without(told, job[c].name)

\* A purge that met no other has the file as it wrote it.
PurgeWroteFile ==
  \A c \in Commands \ mixed : at[c] = "purge" => file = mem[c]

IInv ==
  /\ TypeOK
  /\ AllSound
  /\ AtByKind
  /\ BesideIsMixed
  /\ CopyByKind
  /\ ListedHasHome
  /\ EmptyIsTorn
  /\ HomeInTheMaking
  /\ CopiesHaveHomes
  /\ ToldIsFile
  /\ ToldHaveHomes
  /\ CopyIsTold
  /\ PurgeWroteFile

-----------------------------------------------------------------------------
(* Manifests *)

\* A job's kind says what name and port it has.
LEMMA JobKinds ==
  ASSUME NEW j \in Job
  PROVE  /\ j.kind \in {"init", "force", "add", "remove", "purge", "up"}
         /\ j.kind \in {"add", "remove", "purge"} => j.name \in Names
         /\ j.kind \in {"init", "force", "add"} => j.port \in Given \cup {AnyPort}
  BY DEF Job

\* The marks are no manifests.
LEMMA Marks ==
  Absent \notin Manifest /\ Blank \notin Manifest /\ Unknown \notin Manifest /\ Nobody \notin Manifest
  BY FileAssumption

\* A new manifest is one, and has no agents.
LEMMA NewIsManifest ==
  ASSUME NEW k \in Commands \cup {Nobody}, NEW p \in Ports
  PROVE  /\ NewManifest(k, p) \in Manifest
         /\ NewManifest(k, p).agents = {}
  BY DEF NewManifest, Manifest

\* Removing the agents of a name leaves the others and the rest.
LEMMA WithoutFacts ==
  ASSUME NEW m \in Manifest, NEW n
  PROVE  /\ Without(m, n) \in Manifest
         /\ Without(m, n).agents = {e \in m.agents : e.name # n}
         /\ Without(m, n).port = m.port
         /\ Without(m, n).key = m.key
  BY DEF Without, Manifest

\* Adding entries changes nothing else.
LEMMA WithFacts ==
  ASSUME NEW m \in Manifest, NEW S \in SUBSET Entry
  PROVE  /\ [m EXCEPT !.agents = @ \cup S] \in Manifest
         /\ [m EXCEPT !.agents = @ \cup S].agents = m.agents \cup S
         /\ [m EXCEPT !.agents = @ \cup S].port = m.port
         /\ [m EXCEPT !.agents = @ \cup S].key = m.key
  BY DEF Manifest

\* What a command loads is a manifest: the file's, or a new one.
LEMMA LoadedFacts ==
  ASSUME TypeOK, file # Absent
  PROVE  /\ Loaded \in Manifest
         /\ file \in Manifest => Loaded = file
         /\ file \notin Manifest => Loaded.agents = {}
<1>1. DefaultPort \in Ports
  BY ManifestAssumption
<1>2. QED
  BY <1>1, Marks, NewIsManifest DEF Loaded, TypeOK

\* A set of numbers has a least one.
LEMMA LeastPort ==
  ASSUME NEW S \in SUBSET Nat, S # {}
  PROVE  \E p \in S : \A q \in S : p <= q
<1>1. PICK p \in S : \A q \in S : <<q, p>> \notin OpToRel(<, Nat)
  BY NatLessThanWellFounded, WFMin
<1>2. \A q \in S : ~(q < p)
  BY <1>1 DEF OpToRel
<1>3. \A q \in S : p <= q
  BY <1>2
<1>4. QED
  BY <1>3

\* A sound manifest has no more entries than there are commands, so that
\* next_free_port finds a port that nobody has.
LEMMA FreePortFound ==
  ASSUME NEW m \in Manifest, Sound(m)
  PROVE  NextFreePort(m) \in Pickable \ Used(m)
<1> DEFINE by     == [e \in m.agents |-> e.by]
           taken  == {e.port : e \in m.agents}
           port   == [e \in m.agents |-> e.port]
<1>1. m.agents \subseteq Entry
  BY DEF Manifest
<1>2. by \in Injection(m.agents, Commands)
  <2>1. \A e \in m.agents : e.by \in Commands
    BY <1>1 DEF Entry
  <2>2. \A e, f \in m.agents : e.by = f.by => e = f
    BY DEF Sound
  <2>3. QED
    BY <2>1, <2>2 DEF Injection, IsInjective
<1>3. IsFiniteSet(m.agents) /\ Cardinality(m.agents) <= Cardinality(Commands)
  BY <1>2, FS_Injection, ManifestAssumption
<1>4. port \in Surjection(m.agents, taken)
  BY DEF Surjection
<1>5. IsFiniteSet(taken) /\ Cardinality(taken) <= Cardinality(m.agents)
  BY <1>3, <1>4, FS_Surjection
<1>6. Used(m) = taken \cup {m.port}
  BY DEF Used
<1>7. /\ IsFiniteSet(Used(m))
      /\ Cardinality(Used(m)) = IF m.port \in taken THEN Cardinality(taken)
                                                    ELSE Cardinality(taken) + 1
  BY <1>5, <1>6, FS_AddElement
<1>8. ~ Pickable \subseteq Used(m)
  <2>1. SUFFICES ASSUME Pickable \subseteq Used(m)
                 PROVE  FALSE
    OBVIOUS
  <2>2. Cardinality(Pickable) <= Cardinality(Used(m))
    BY <1>7, <2>1, FS_Subset
  <2>3. /\ Cardinality(Pickable) \in Nat /\ Cardinality(Commands) \in Nat
        /\ Cardinality(taken) \in Nat /\ Cardinality(m.agents) \in Nat
    BY <1>3, <1>5, FS_CardinalityType, ManifestAssumption
  <2>4. Cardinality(Pickable) > Cardinality(Commands) + 1
    BY ManifestAssumption
  <2>5. Cardinality(Used(m)) <= Cardinality(taken) + 1
    BY <1>7, <2>3
  <2>6. \A a, b, x, y, z \in Nat : x <= z /\ z <= y + 1 /\ y <= b /\ b <= a => ~(x > a + 1)
    OBVIOUS
  <2>7. Cardinality(Used(m)) \in Nat
    BY <1>7, FS_CardinalityType
  <2>8. QED
    BY <1>3, <1>5, <2>2, <2>3, <2>4, <2>5, <2>6, <2>7
<1>9. Pickable \ Used(m) # {} /\ Pickable \ Used(m) \in SUBSET Nat
  BY <1>8, ManifestAssumption DEF Pickable
<1>10. QED
  BY <1>9, LeastPort DEF NextFreePort

\* The entry that an add makes.
LEMMA SpecFacts ==
  ASSUME NEW c \in Commands, NEW m \in Manifest, Sound(m), job[c] \in Job, job[c].kind = "add"
  PROVE  /\ Spec_of(c, m) \in Entry
         /\ Spec_of(c, m).by = c
         /\ Spec_of(c, m).name = job[c].name
<1>1. NextFreePort(m) \in Ports /\ Given \subseteq Ports
  BY FreePortFound, ManifestAssumption DEF Pickable
<1>2. job[c].name \in Names /\ job[c].port \in Given \cup {AnyPort}
  BY JobKinds
<1>3. (IF job[c].port = AnyPort THEN NextFreePort(m) ELSE job[c].port) \in Ports
  BY <1>1, <1>2
<1>4. QED
  BY <1>2, <1>3 DEF Spec_of, Entry

-----------------------------------------------------------------------------
(* Typing *)

\* Where a command goes is a place.
LEMMA GotoTyped ==
  ASSUME TypeOK, NEW c \in Commands, NEW l, Goto(c, l)
  PROVE  /\ l \in {"new"} \cup UnderWay \cup Ended
              => at' \in [Commands -> {"new"} \cup UnderWay \cup Ended]
         /\ at'[c] = l
         /\ \A q \in Commands \ {c} : at'[q] = at[q]
  BY DEF TypeOK, Goto

\* The names of the places.
LEMMA Placed ==
  /\ {"mkdir", "openEnv", "fillEnv", "openCfg", "fillCfg"} \subseteq UnderWay
  /\ {"truncate", "write", "purge", "start"} \subseteq UnderWay
  /\ {"ok", "refused", "failed", "killed", "torn"} \subseteq Ended
  /\ Writing \subseteq UnderWay /\ Making \subseteq Writing
  /\ UnderWay \cap Ended = {} /\ "new" \notin UnderWay /\ "new" \notin Ended
  /\ "start" \notin Writing /\ "purge" \notin Writing
  BY DEF UnderWay, Ended, Writing, Making

\* A refusal keeps the types, and all but its place.
LEMMA RefuseTyped ==
  ASSUME TypeOK, NEW c \in Commands, Refuse(c)
  PROVE  TypeOK'
  BY GotoTyped, Placed DEF Refuse, TypeOK

\* A command that starts with a manifest.
LEMMA BeginTyped ==
  ASSUME TypeOK, NEW c \in Commands, NEW l \in UnderWay, NEW m \in Manifest, Begin(c, l, m)
  PROVE  /\ TypeOK'
         /\ at'[c] = l /\ mem'[c] = m
         /\ \A q \in Commands \ {c} : at'[q] = at[q] /\ mem'[q] = mem[q]
<1>1. at' \in [Commands -> {"new"} \cup UnderWay \cup Ended]
  BY GotoTyped DEF Begin
<1>2. mem' \in [Commands -> Manifest \cup {Nobody}]
  BY DEF Begin, TypeOK
<1>3. mixed' \subseteq Commands
  BY DEF Begin, TypeOK
<1>4. QED
  BY <1>1, <1>2, <1>3, GotoTyped DEF Begin, TypeOK

\* The steps of write_agent_home.
Makes(c) == MakeHome(c) \/ OpensEnv(c) \/ FillsEnv(c) \/ OpensCfg(c) \/ FillsCfg(c)

\* What they have in common: they are steps of an add, and lead to the next file,
\* to the save, or to an error.
LEMMA MakesFacts ==
  ASSUME TypeOK, AtByKind, NEW c \in Commands, Makes(c)
  PROVE  /\ at[c] \in Making /\ job[c].kind = "add" /\ job[c].name \in Names
         /\ UNCHANGED <<job, mem, file, started, told, mixed>>
         /\ \E l \in {"openEnv", "fillEnv", "openCfg", "fillCfg", "truncate", "failed"} : Goto(c, l)
<1>1. at[c] \in Making
  BY DEF Makes, MakeHome, OpensEnv, FillsEnv, OpensCfg, FillsCfg, Making
<1>2. job[c].kind = "add" /\ job[c].name \in Names
  BY <1>1, JobKinds DEF TypeOK, AtByKind
<1>3. AfterEnv(c) \in {"openCfg", "truncate"} /\ AfterDir(c) \in {"openEnv", "openCfg", "truncate"}
  BY DEF AfterEnv, AfterDir
<1>4. QED
  BY <1>1, <1>2, <1>3 DEF Makes, MakeHome, OpensEnv, FillsEnv, OpensCfg, FillsCfg, InHome

\* What they do to the home, case by case.
LEMMA MakesHome ==
  ASSUME TypeOK, AtByKind, NEW c \in Commands, Makes(c)
  PROVE  LET n == job[c].name IN
         \/ /\ home' = home /\ Goto(c, "failed")
            /\ at[c] \in {"mkdir", "openEnv", "openCfg"} \/ (at[c] = "fillEnv" /\ home[n].env = "none")
         \/ \E h \in Home :
              /\ home' = [home EXCEPT ![n] = h]
              /\ home[n].dir => h.dir
              /\ \/ /\ at[c] = "mkdir" /\ Goto(c, AfterDir(c))
                    /\ h.dir /\ h.env = home[n].env /\ h.cfg = home[n].cfg
                 \/ /\ at[c] = "openEnv" /\ Goto(c, "fillEnv")
                    /\ home[n].dir /\ h.env = "empty" /\ h.cfg = home[n].cfg
                 \/ /\ at[c] = "fillEnv" /\ Goto(c, AfterEnv(c))
                    /\ home[n].env # "none" /\ h.env = "full" /\ h.cfg = home[n].cfg
                 \/ /\ at[c] = "openCfg" /\ Goto(c, "fillCfg")
                    /\ home[n].dir /\ h.cfg = "empty" /\ h.env = home[n].env
                 \/ /\ at[c] = "fillCfg" /\ Goto(c, "truncate") /\ h.env = home[n].env
                    /\ h.cfg = IF home[n].cfg = "none" THEN "none" ELSE "full"
<1> DEFINE n == job[c].name
<1>1. n \in Names /\ home[n] \in Home /\ home \in [Names -> Home]
  BY MakesFacts DEF TypeOK
<1>2. \A h \in Home : /\ h.dir \in BOOLEAN /\ h.env \in Text /\ h.cfg \in Text
  BY DEF Home
<1>3. \A d \in BOOLEAN, e \in Text, g \in Text : [dir |-> d, env |-> e, cfg |-> g] \in Home
  BY DEF Home
<1>4. \A h \in Home : h = [dir |-> h.dir, env |-> h.env, cfg |-> h.cfg]
  BY DEF Home
<1>5. {"none", "empty", "full"} \subseteq Text
  BY DEF Text
<1> DEFINE old == home[n]
<1>6. CASE MakeHome(c)
  <2> DEFINE h == [old EXCEPT !.dir = TRUE]
  <2>1. h \in Home /\ h.dir /\ h.env = old.env /\ h.cfg = old.cfg
    BY <1>1 DEF Home
  <2>2. at[c] = "mkdir" /\ InHome(c, AfterDir(c), h)
    BY <1>6 DEF MakeHome
  <2> HIDE DEF h
  <2>3. QED
    BY <2>1, <2>2 DEF InHome
<1>7. CASE OpensEnv(c)
  <2> DEFINE h == [old EXCEPT !.env = "empty"]
  <2>1. h \in Home /\ h.dir = old.dir /\ h.env = "empty" /\ h.cfg = old.cfg
    BY <1>1, <1>5 DEF Home
  <2>2. at[c] = "openEnv" /\ InHome(c, "fillEnv", h)
    BY <1>7 DEF OpensEnv
  <2> HIDE DEF h
  <2>3. IF old.dir THEN Goto(c, "fillEnv") /\ home' = [home EXCEPT ![n] = h]
                   ELSE Goto(c, "failed") /\ home' = home
    BY <2>1, <2>2 DEF InHome
  <2>4. QED
    BY <2>1, <2>2, <2>3
<1>8. CASE FillsEnv(c)
  <2> DEFINE h == [old EXCEPT !.env = "full"]
  <2>1. h \in Home /\ h.dir = old.dir /\ h.env = "full" /\ h.cfg = old.cfg
    BY <1>1, <1>5 DEF Home
  <2>2. /\ at[c] = "fillEnv"
        /\ IF old.env = "none" THEN Goto(c, "failed") /\ home' = home
                               ELSE Goto(c, AfterEnv(c)) /\ home' = [home EXCEPT ![n] = h]
    BY <1>8 DEF FillsEnv
  <2> HIDE DEF h
  <2>3. QED
    BY <2>1, <2>2
<1>9. CASE OpensCfg(c)
  <2> DEFINE h == [old EXCEPT !.cfg = "empty"]
  <2>1. h \in Home /\ h.dir = old.dir /\ h.cfg = "empty" /\ h.env = old.env
    BY <1>1, <1>5 DEF Home
  <2>2. at[c] = "openCfg" /\ InHome(c, "fillCfg", h)
    BY <1>9 DEF OpensCfg
  <2> HIDE DEF h
  <2>3. IF old.dir THEN Goto(c, "fillCfg") /\ home' = [home EXCEPT ![n] = h]
                   ELSE Goto(c, "failed") /\ home' = home
    BY <2>1, <2>2 DEF InHome
  <2>4. QED
    BY <2>1, <2>2, <2>3
<1>10. CASE FillsCfg(c)
  <2> DEFINE h == [old EXCEPT !.cfg = IF @ = "none" THEN @ ELSE "full"]
  <2>1. /\ h \in Home /\ h.dir = old.dir /\ h.env = old.env
        /\ h.cfg = IF old.cfg = "none" THEN "none" ELSE "full"
    BY <1>1, <1>5 DEF Home
  <2>2. at[c] = "fillCfg" /\ Goto(c, "truncate") /\ home' = [home EXCEPT ![n] = h]
    BY <1>10 DEF FillsCfg
  <2> HIDE DEF h
  <2>3. QED
    BY <2>1, <2>2
<1>11. QED
  BY <1>6, <1>7, <1>8, <1>9, <1>10 DEF Makes

\* The copies that a load makes.
LEMMA CopyTyped ==
  ASSUME IInv, file # Absent, NEW c \in Commands
  PROVE  /\ Loaded \in Manifest /\ Sound(Loaded)
         /\ job[c] \in Job
         /\ job[c].kind = "add" =>
              [Loaded EXCEPT !.agents = @ \cup {Spec_of(c, Loaded)}] \in Manifest
         /\ Without(Loaded, job[c].name) \in Manifest
<1>1. Loaded \in Manifest /\ job[c] \in Job
  BY LoadedFacts DEF IInv, TypeOK
<1>2. Sound(Loaded)
  BY LoadedFacts DEF IInv, AllSound, Sound
<1>3. Without(Loaded, job[c].name) \in Manifest
  BY <1>1, WithoutFacts
<1>4. ASSUME job[c].kind = "add"
      PROVE  [Loaded EXCEPT !.agents = @ \cup {Spec_of(c, Loaded)}] \in Manifest
  <2>1. {Spec_of(c, Loaded)} \in SUBSET Entry
    BY <1>1, <1>2, <1>4, SpecFacts
  <2>2. QED
    BY <1>1, <2>1, WithFacts
<1>5. QED
  BY <1>1, <1>2, <1>3, <1>4

\* What an answer says is a manifest, or what was said, or nothing.
LEMMA SaysTyped ==
  ASSUME TypeOK, AtByKind, NEW c \in Commands, at[c] = "write", Says(c)
  PROVE  /\ mem[c] \in Manifest
         /\ c \in mixed => told' = Unknown
         /\ c \notin mixed => told' \in {told, mem[c]} \cup Manifest
         /\ told' \in Manifest \cup {Absent, Unknown}
<1>1. mem[c] \in Manifest /\ job[c] \in Job
  BY Placed DEF TypeOK, AtByKind
<1>2. job[c].kind \in {"init", "force", "add", "remove", "purge"}
  BY <1>1, JobKinds DEF AtByKind
<1>3. CASE c \in mixed
  BY <1>1, <1>3 DEF Says
<1>4. CASE c \notin mixed /\ job[c].kind \in {"init", "force"}
  BY <1>1, <1>4 DEF Says
<1>5. CASE c \notin mixed /\ job[c].kind \notin {"init", "force"} /\ told \notin Manifest
  BY <1>1, <1>5 DEF Says, TypeOK
<1>6. CASE c \notin mixed /\ job[c].kind = "add" /\ told \in Manifest
  <2>1. {e \in mem[c].agents : e.by = c} \in SUBSET Entry
    BY <1>1 DEF Manifest
  <2>2. told' = [told EXCEPT !.agents = @ \cup {e \in mem[c].agents : e.by = c}]
    BY <1>6 DEF Says
  <2>3. QED
    BY <1>1, <1>6, <2>1, <2>2, WithFacts
<1>7. CASE c \notin mixed /\ job[c].kind \in {"remove", "purge"} /\ told \in Manifest
  <2>1. told' = Without(told, job[c].name)
    BY <1>7 DEF Says
  <2>2. QED
    BY <1>1, <1>7, <2>1, WithoutFacts
<1>8. QED
  BY <1>2, <1>3, <1>4, <1>5, <1>6, <1>7

\* Every step keeps the types.
LEMMA TypeStep ==
  ASSUME IInv, [Next]_vars
  PROVE  TypeOK'
<1>1. TypeOK
  BY DEF IInv
<1>2. CASE UNCHANGED vars
  BY <1>1, <1>2 DEF TypeOK, vars
<1>3. ASSUME NEW c \in Commands, Command(c) \/ Kill(c)
      PROVE  TypeOK'
  <2>1. job[c] \in Job
    BY <1>1 DEF TypeOK
  <2>2. CASE InitLooks(c)
    <3>1. NewManifest(c, IF job[c].port = AnyPort THEN DefaultPort ELSE job[c].port) \in Manifest
      BY <2>1, <2>2, JobKinds, NewIsManifest, ManifestAssumption DEF InitLooks
    <3>2. QED
      BY <1>1, <2>2, <3>1, RefuseTyped, BeginTyped, Placed DEF InitLooks
  <2>3. CASE AddLoads(c)
    BY <1>1, <2>3, CopyTyped, RefuseTyped, BeginTyped, Placed DEF AddLoads
  <2>4. CASE RemoveLoads(c)
    BY <1>1, <2>4, CopyTyped, RefuseTyped, BeginTyped, Placed DEF RemoveLoads
  <2>5. CASE UpLoads(c)
    BY <1>1, <2>5, CopyTyped, RefuseTyped, BeginTyped, Placed DEF UpLoads
  <2>6. CASE Makes(c)
    <3>1. /\ UNCHANGED <<job, mem, file, started, told, mixed>>
          /\ \E l \in UnderWay \cup Ended : Goto(c, l)
      BY <1>1, <2>6, MakesFacts, Placed DEF IInv
    <3>2. home' \in [Names -> Home]
      BY <1>1, <2>6, MakesHome DEF IInv, TypeOK
    <3>3. at' \in [Commands -> {"new"} \cup UnderWay \cup Ended]
      BY <1>1, <3>1, GotoTyped
    <3>4. QED
      BY <1>1, <3>1, <3>2, <3>3 DEF TypeOK
  <2>7. CASE Truncate(c)
    BY <1>1, <2>7, GotoTyped, Placed DEF Truncate, TypeOK
  <2>8. CASE Write(c)
    <3>1. mem[c] \in Manifest /\ told' \in Manifest \cup {Absent, Unknown}
      BY <1>1, <2>8, SaysTyped DEF Write, IInv
    <3>2. at' \in [Commands -> {"new"} \cup UnderWay \cup Ended]
      BY <1>1, <2>8, GotoTyped, Placed DEF Write
    <3>3. QED
      BY <1>1, <2>8, <3>1, <3>2 DEF Write, TypeOK
  <2>9. CASE PurgeFile(c) \/ PurgeEnds(c)
    <3>1. job[c].name \in Names
      BY <2>1, <2>9, JobKinds DEF PurgeFile, PurgeEnds, IInv, AtByKind
    <3>2. home' \in [Names -> Home]
      <4>1. home[job[c].name] \in Home
        BY <1>1, <3>1 DEF TypeOK
      <4>2. CASE PurgeFile(c)
        <5>1. /\ [home[job[c].name] EXCEPT !.env = "none"] \in Home
              /\ [home[job[c].name] EXCEPT !.cfg = "none"] \in Home
          BY <4>1 DEF Home, Text
        <5>2. PICK h \in Home : home' = [home EXCEPT ![job[c].name] = h]
          BY <4>2, <5>1 DEF PurgeFile
        <5>3. QED
          BY <1>1, <5>2 DEF TypeOK
      <4>3. CASE PurgeEnds(c)
        BY <1>1, <3>1, <4>1, <4>3 DEF PurgeEnds, TypeOK, Home
      <4>4. QED
        BY <2>9, <4>2, <4>3
    <3>3. at' \in [Commands -> {"new"} \cup UnderWay \cup Ended]
      BY <1>1, <2>9, GotoTyped, Placed DEF PurgeFile, PurgeEnds, TypeOK
    <3>4. QED
      BY <1>1, <2>9, <3>2, <3>3 DEF PurgeFile, PurgeEnds, TypeOK
  <2>10. CASE StartAgents(c)
    <3>1. mem[c] \in Manifest
      BY <1>1, <2>10, Placed DEF StartAgents, TypeOK, IInv, AtByKind
    <3>2. {e \in mem[c].agents : home[e.name].dir} \in SUBSET Entry
      BY <3>1 DEF Manifest
    <3>3. QED
      BY <1>1, <2>10, <3>2, GotoTyped, Placed DEF StartAgents, TypeOK
  <2>11. CASE Kill(c)
    BY <1>1, <2>11, GotoTyped, Placed DEF Kill, TypeOK
  <2>12. QED
    BY <1>3, <2>2, <2>3, <2>4, <2>5, <2>6, <2>7, <2>8, <2>9, <2>10, <2>11 DEF Command, Makes
<1>4. QED
  BY <1>2, <1>3 DEF Next

-----------------------------------------------------------------------------
(* Steps *)

\* What every step of a command leaves alone, and where it takes it.
LEMMA StepFacts ==
  ASSUME TypeOK, AtByKind, NEW c \in Commands, Command(c) \/ Kill(c)
  PROVE  /\ job' = job /\ mixed \subseteq mixed'
         /\ at[c] \in {"new"} \cup UnderWay /\ at'[c] # "new"
         /\ \A q \in Commands \ {c} : at'[q] = at[q] /\ mem'[q] = mem[q]
         /\ at[c] # "new" => mem' = mem /\ mixed' = mixed
<1>1. CASE InitLooks(c) \/ AddLoads(c) \/ RemoveLoads(c) \/ UpLoads(c)
  <2>1. at[c] = "new"
    BY <1>1 DEF InitLooks, AddLoads, RemoveLoads, UpLoads
  <2>2. Refuse(c) \/ \E l \in {"truncate", "mkdir", "start"} : \E m : Begin(c, l, m)
    BY <1>1 DEF InitLooks, AddLoads, RemoveLoads, UpLoads
  <2>3. CASE Refuse(c)
    BY <2>1, <2>3, GotoTyped, Placed DEF Refuse
  <2>4. ASSUME NEW l \in {"truncate", "mkdir", "start"}, NEW m, Begin(c, l, m)
        PROVE  /\ job' = job /\ mixed \subseteq mixed' /\ at'[c] # "new"
               /\ \A q \in Commands \ {c} : at'[q] = at[q] /\ mem'[q] = mem[q]
    BY <2>4, GotoTyped DEF Begin, TypeOK
  <2>5. QED
    BY <2>1, <2>2, <2>3, <2>4
<1>2. CASE Makes(c)
  <2>1. at[c] \in UnderWay /\ mem' = mem /\ mixed' = mixed /\ job' = job
    BY <1>2, MakesFacts, Placed
  <2>2. \E l : l # "new" /\ Goto(c, l)
    BY <1>2, MakesFacts
  <2>3. QED
    BY <2>1, <2>2, GotoTyped
<1>3. CASE Truncate(c) \/ Write(c) \/ PurgeEnds(c) \/ StartAgents(c) \/ Kill(c)
  <2>1. at[c] \in UnderWay /\ mem' = mem /\ mixed' = mixed /\ job' = job
    BY <1>3, Placed DEF Truncate, Write, PurgeEnds, StartAgents, Kill
  <2>2. \E l \in {"write", "purge", "ok", "killed", "torn"} : Goto(c, l)
    BY <1>3 DEF Truncate, Write, PurgeEnds, StartAgents, Kill
  <2>3. QED
    BY <2>1, <2>2, GotoTyped
<1>4. CASE PurgeFile(c)
  BY <1>4, Placed DEF PurgeFile
<1>5. QED
  BY <1>1, <1>2, <1>3, <1>4 DEF Command, Makes

\* The manifests that commands make of sound ones are sound.
LEMMA SoundMade ==
  ASSUME IInv, NEW c \in Commands, at[c] = "new"
  PROVE  /\ \A m \in Manifest : m.agents = {} => Sound(m) /\ Signed(m)
         /\ file # Absent => Sound(Loaded) /\ Signed(Loaded)
         /\ file # Absent /\ job[c].kind = "add" /\ CanAdd(Loaded, Spec_of(c, Loaded)) =>
              LET m == [Loaded EXCEPT !.agents = @ \cup {Spec_of(c, Loaded)}] IN
              /\ Sound(m)
              /\ \A e \in m.agents : e.by = c \/ at[e.by] # "new"
         /\ file # Absent => LET m == Without(Loaded, job[c].name) IN
              /\ Sound(m) /\ Signed(m) /\ ~Listed(m, job[c].name)
<1>1. \A m \in Manifest : m.agents = {} => Sound(m) /\ Signed(m)
  BY DEF Sound, Signed
<1>2. ASSUME file # Absent
      PROVE  Loaded \in Manifest /\ Sound(Loaded) /\ Signed(Loaded)
  <2>1. Loaded \in Manifest /\ (Loaded = file \/ Loaded.agents = {})
    BY <1>2, LoadedFacts DEF IInv
  <2>2. CASE Loaded.agents = {}
    BY <1>1, <2>1, <2>2
  <2>3. CASE Loaded = file
    BY <2>1, <2>3 DEF IInv, AllSound
  <2>4. QED
    BY <2>1, <2>2, <2>3
<1>3. ASSUME file # Absent, job[c].kind = "add", CanAdd(Loaded, Spec_of(c, Loaded))
      PROVE  LET m == [Loaded EXCEPT !.agents = @ \cup {Spec_of(c, Loaded)}] IN
             /\ Sound(m)
             /\ \A e \in m.agents : e.by = c \/ at[e.by] # "new"
  <2> DEFINE e == Spec_of(c, Loaded)
             m == [Loaded EXCEPT !.agents = @ \cup {e}]
  <2>1. e \in Entry /\ e.by = c
    BY <1>2, <1>3, SpecFacts DEF IInv, TypeOK
  <2> HIDE DEF e
  <2>2. m.agents = Loaded.agents \cup {e} /\ m.port = Loaded.port
    BY <1>2, <1>3, <2>1, WithFacts
  <2> HIDE DEF m
  <2>3. /\ \A a \in Loaded.agents : a.name # e.name /\ a.port # e.port /\ a.by # e.by
        /\ e.port # Loaded.port
    BY <1>2, <1>3, <2>1 DEF CanAdd, Used, Signed, e
  <2>4. Sound(m)
    BY <1>2, <1>3, <2>2, <2>3 DEF Sound
  <2>5. \A a \in m.agents : a.by = c \/ at[a.by] # "new"
    BY <1>2, <1>3, <2>1, <2>2 DEF Signed
  <2>6. QED
    BY <2>4, <2>5 DEF m, e
<1>4. ASSUME file # Absent
      PROVE  LET m == Without(Loaded, job[c].name) IN
              /\ Sound(m) /\ Signed(m) /\ ~Listed(m, job[c].name)
  <2>1. /\ Without(Loaded, job[c].name).agents = {e \in Loaded.agents : e.name # job[c].name}
        /\ Without(Loaded, job[c].name).port = Loaded.port
    BY <1>2, <1>4, WithoutFacts
  <2>2. QED
    BY <1>2, <1>4, <2>1 DEF Sound, Signed, Listed
<1>5. QED
  BY <1>1, <1>2, <1>3, <1>4

\* Signed survives every step; an entry may also be of the command that moves.
LEMMA SignedStays ==
  ASSUME TypeOK, AtByKind, NEW c \in Commands, Command(c) \/ Kill(c), NEW m \in Manifest,
         \A e \in m.agents : e.by = c \/ at[e.by] # "new"
  PROVE  Signed(m)'
<1>1. \A e \in m.agents : e.by \in Commands
  BY DEF Manifest, Entry
<1>2. at'[c] # "new" /\ \A q \in Commands \ {c} : at'[q] = at[q]
  BY StepFacts
<1>3. \A e \in m.agents : at'[e.by] # "new"
  BY <1>1, <1>2
<1>4. QED
  BY <1>3 DEF Signed

\* The copy that a command takes or makes when it starts, and what it is.
LEMMA CopyMade ==
  ASSUME IInv, NEW c \in Commands,
         InitLooks(c) \/ AddLoads(c) \/ RemoveLoads(c) \/ UpLoads(c), ~Refuse(c)
  PROVE  \E l \in {"truncate", "mkdir", "start"}, m \in Manifest :
           /\ Begin(c, l, m) /\ at[c] = "new"
           /\ Sound(m)
           /\ \A e \in m.agents : e.by = c \/ at[e.by] # "new"
           /\ \/ job[c].kind \in {"init", "force"} /\ l = "truncate" /\ m.agents = {}
              \/ /\ job[c].kind = "add" /\ l = "mkdir" /\ file # Absent
                 /\ m = [Loaded EXCEPT !.agents = @ \cup {Spec_of(c, Loaded)}]
              \/ /\ job[c].kind \in {"remove", "purge"} /\ l = "truncate" /\ file # Absent
                 /\ m = Without(Loaded, job[c].name) /\ ~Listed(m, job[c].name)
              \/ job[c].kind = "up" /\ l = "start" /\ m = Loaded /\ file # Absent
<1>1. job[c] \in Job /\ TypeOK
  BY DEF IInv, TypeOK
<1>2. CASE InitLooks(c)
  <2> DEFINE m == NewManifest(c, IF job[c].port = AnyPort THEN DefaultPort ELSE job[c].port)
  <2>1. m \in Manifest /\ m.agents = {}
    BY <1>1, <1>2, JobKinds, NewIsManifest, ManifestAssumption DEF InitLooks
  <2>2. Begin(c, "truncate", m) /\ at[c] = "new" /\ job[c].kind \in {"init", "force"}
    BY <1>2 DEF InitLooks
  <2> HIDE DEF m
  <2>3. Sound(m) /\ \A e \in m.agents : e.by = c \/ at[e.by] # "new"
    BY <2>1, <2>2, SoundMade
  <2>4. QED
    BY <2>1, <2>2, <2>3
<1>3. CASE AddLoads(c)
  <2> DEFINE m == [Loaded EXCEPT !.agents = @ \cup {Spec_of(c, Loaded)}]
  <2>1. /\ at[c] = "new" /\ job[c].kind = "add" /\ file # Absent
        /\ CanAdd(Loaded, Spec_of(c, Loaded)) /\ Begin(c, "mkdir", m)
    BY <1>3 DEF AddLoads
  <2>2. m \in Manifest
    BY <2>1, CopyTyped
  <2>3. Sound(m) /\ \A e \in m.agents : e.by = c \/ at[e.by] # "new"
    BY <2>1, SoundMade
  <2>4. m = [Loaded EXCEPT !.agents = @ \cup {Spec_of(c, Loaded)}]
    OBVIOUS
  <2> HIDE DEF m
  <2>5. QED
    BY <2>1, <2>2, <2>3, <2>4
<1>4. CASE RemoveLoads(c)
  <2> DEFINE m == Without(Loaded, job[c].name)
  <2>1. /\ at[c] = "new" /\ job[c].kind \in {"remove", "purge"} /\ file # Absent
        /\ Begin(c, "truncate", m)
    BY <1>4 DEF RemoveLoads
  <2>2. m \in Manifest /\ Sound(m) /\ Signed(m) /\ ~Listed(m, job[c].name)
    BY <2>1, CopyTyped, SoundMade
  <2>3. \A e \in m.agents : e.by = c \/ at[e.by] # "new"
    BY <2>2 DEF Signed
  <2>4. m = Without(Loaded, job[c].name)
    OBVIOUS
  <2> HIDE DEF m
  <2>5. QED
    BY <2>1, <2>2, <2>3, <2>4
<1>5. CASE UpLoads(c)
  <2>1. at[c] = "new" /\ job[c].kind = "up" /\ file # Absent /\ Begin(c, "start", Loaded)
    BY <1>5 DEF UpLoads
  <2>2. Loaded \in Manifest /\ Sound(Loaded) /\ Signed(Loaded)
    BY <2>1, CopyTyped, SoundMade
  <2>3. QED
    BY <2>1, <2>2 DEF Signed
<1>6. QED
  BY <1>2, <1>3, <1>4, <1>5

\* The file is left alone, truncated, or replaced by the copy of the command.
LEMMA FileStep ==
  ASSUME NEW c \in Commands, Command(c) \/ Kill(c)
  PROVE  \/ file' = file
         \/ Truncate(c) /\ file' = Blank
         \/ Write(c) /\ file' = mem[c]
  BY DEF Command, Kill, InitLooks, AddLoads, RemoveLoads, UpLoads, Refuse, Begin, MakeHome,
    OpensEnv, FillsEnv, OpensCfg, FillsCfg, InHome, Truncate, Write, PurgeFile, PurgeEnds, StartAgents

\* A copy is the one the command had, or the one it starts with.
LEMMA MemStep ==
  ASSUME IInv, NEW c \in Commands, Command(c) \/ Kill(c)
  PROVE  \/ mem' = mem
         \/ /\ InitLooks(c) \/ AddLoads(c) \/ RemoveLoads(c) \/ UpLoads(c)
            /\ ~Refuse(c)
  BY DEF Command, Kill, InitLooks, AddLoads, RemoveLoads, UpLoads, Refuse, MakeHome,
    OpensEnv, FillsEnv, OpensCfg, FillsCfg, InHome, Truncate, Write, PurgeFile, PurgeEnds, StartAgents

\* A command that starts, other than by a refusal, begins.
LEMMA Starts ==
  ASSUME IInv, NEW c \in Commands, Command(c) \/ Kill(c), at[c] = "new"
  PROVE  \/ Refuse(c)
         \/ /\ InitLooks(c) \/ AddLoads(c) \/ RemoveLoads(c) \/ UpLoads(c)
            /\ ~Refuse(c)
  BY Placed DEF Command, Kill, MakeHome, OpensEnv, FillsEnv, OpensCfg, FillsCfg,
    Truncate, Write, PurgeFile, PurgeEnds,
    StartAgents

\* Every manifest stays sound.
LEMMA SoundStep ==
  ASSUME IInv, NEW c \in Commands, Command(c) \/ Kill(c)
  PROVE  AllSound'
<1>1. TypeOK
  BY DEF IInv
<1>2. \A m \in Manifest : Sound(m) /\ Signed(m) => Sound(m)' /\ Signed(m)'
  <2> SUFFICES ASSUME NEW m \in Manifest, Sound(m), Signed(m)
               PROVE  Sound(m)' /\ Signed(m)'
    OBVIOUS
  <2>1. Sound(m)'
    BY DEF Sound
  <2>2. \A e \in m.agents : e.by = c \/ at[e.by] # "new"
    BY DEF Signed
  <2>3. QED
    BY <1>1, <2>1, <2>2, SignedStays DEF IInv
<1>3. \A q \in Commands : mem[q] # Nobody => mem[q] \in Manifest /\ Sound(mem[q]) /\ Signed(mem[q])
  BY DEF IInv, AllSound, TypeOK
<1>4. ASSUME file' \in Manifest
      PROVE  Sound(file)' /\ Signed(file)'
  <2>1. file' \in Manifest /\ Sound(file') /\ Signed(file')
    <3>1. CASE file' = file
      BY <1>4, <3>1 DEF IInv, AllSound
    <3>2. CASE file' = Blank
      BY <1>4, <3>2, Marks
    <3>3. CASE Write(c) /\ file' = mem[c]
      BY <1>3, <1>4, <3>3, Marks
    <3>4. QED
      BY <3>1, <3>2, <3>3, FileStep
  <2>2. QED
    <3>1. PICK m \in Manifest : m = file'
      BY <1>4
    <3>2. Sound(m)' /\ Signed(m)'
      BY <1>2, <2>1, <3>1
    <3>3. QED
      BY <3>1, <3>2 DEF Sound, Signed
<1>5. ASSUME NEW q \in Commands, mem'[q] # Nobody
      PROVE  Sound(mem[q])' /\ Signed(mem[q])'
  <2>1. CASE mem'[q] = mem[q]
    BY <1>2, <1>3, <1>5, <2>1 DEF Sound, Signed
  <2>2. CASE mem'[q] # mem[q]
    <3>1. q = c /\ mem' # mem
      BY <1>1, <2>2, StepFacts DEF IInv
    <3>2. PICK l \in {"truncate", "mkdir", "start"}, m \in Manifest :
            /\ Begin(c, l, m) /\ Sound(m)
            /\ \A e \in m.agents : e.by = c \/ at[e.by] # "new"
      BY <3>1, MemStep, CopyMade
    <3>3. mem'[q] = m
      BY <1>1, <3>1, <3>2, BeginTyped, Placed
    <3>4. Sound(m)' /\ Signed(m)'
      BY <1>1, <3>2, SignedStays DEF Sound, IInv
    <3>5. QED
      BY <3>3, <3>4 DEF Sound, Signed
  <2>3. QED
    BY <2>1, <2>2
<1>6. QED
  BY <1>4, <1>5 DEF AllSound

\* Where c is after a step, by where it was; q is where it was.
LEMMA AtStep ==
  ASSUME IInv, NEW c \in Commands, Command(c) \/ Kill(c)
  PROVE  \/ at'[c] \in Ended
         \/ at[c] = "new" /\ at'[c] \in UnderWay
         \/ at[c] \in Making /\ at'[c] \in (Making \ {"mkdir"}) \cup {"truncate"}
         \/ at[c] = "truncate" /\ at'[c] = "write"
         \/ at[c] = "write" /\ at'[c] = "purge" /\ job[c].kind = "purge"
         \/ at[c] = "purge" /\ at'[c] = "purge"
<1>1. TypeOK
  BY DEF IInv
<1>2. CASE at[c] = "new"
  <2>1. CASE Refuse(c)
    BY <1>1, <2>1, GotoTyped, Placed DEF Refuse
  <2>2. CASE ~Refuse(c)
    BY <1>1, <1>2, <2>2, Starts, CopyMade, BeginTyped, Placed
  <2>3. QED
    BY <2>1, <2>2
<1>3. CASE Makes(c)
  <2>1. PICK l \in {"openEnv", "fillEnv", "openCfg", "fillCfg", "truncate", "failed"} : Goto(c, l)
    BY <1>1, <1>3, MakesFacts DEF IInv
  <2>2. at'[c] = l /\ at[c] \in Making
    BY <1>1, <1>3, <2>1, GotoTyped, MakesFacts DEF IInv
  <2>3. QED
    BY <2>2, Placed DEF Making
<1>4. CASE Truncate(c) \/ Write(c)
  BY <1>1, <1>4, GotoTyped, Placed DEF Truncate, Write
<1>5. CASE PurgeFile(c)
  BY <1>5 DEF PurgeFile
<1>6. CASE PurgeEnds(c) \/ StartAgents(c) \/ Kill(c)
  BY <1>1, <1>6, GotoTyped, Placed DEF PurgeEnds, StartAgents, Kill
<1>7. QED
  BY <1>2, <1>3, <1>4, <1>5, <1>6
    DEF Command, Makes, InitLooks, AddLoads, RemoveLoads, UpLoads

\* What a command that has just started is at, by its kind.
LEMMA StartFacts ==
  ASSUME IInv, NEW c \in Commands, Command(c) \/ Kill(c), at[c] = "new", at'[c] \in UnderWay
  PROVE  \E l \in {"truncate", "mkdir", "start"}, m \in Manifest :
           /\ Begin(c, l, m) /\ at'[c] = l /\ mem'[c] = m
           /\ \/ job[c].kind \in {"init", "force"} /\ l = "truncate" /\ m.agents = {}
              \/ /\ job[c].kind = "add" /\ l = "mkdir" /\ file # Absent
                 /\ m = [Loaded EXCEPT !.agents = @ \cup {Spec_of(c, Loaded)}]
              \/ /\ job[c].kind \in {"remove", "purge"} /\ l = "truncate" /\ file # Absent
                 /\ m = Without(Loaded, job[c].name) /\ ~Listed(m, job[c].name)
              \/ job[c].kind = "up" /\ l = "start" /\ m = Loaded /\ file # Absent
<1>1. TypeOK
  BY DEF IInv
<1>2. ~Refuse(c)
  BY <1>1, GotoTyped, Placed DEF Refuse
<1>3. QED
  BY <1>1, <1>2, Starts, CopyMade, BeginTyped, Placed

\* Kinds and places stay in step.
LEMMA AtByKindStep ==
  ASSUME IInv, NEW c \in Commands, Command(c) \/ Kill(c)
  PROVE  AtByKind'
<1>1. /\ job' = job /\ \A q \in Commands \ {c} : at'[q] = at[q] /\ mem'[q] = mem[q]
      /\ at[c] # "new" => mem' = mem
  BY StepFacts DEF IInv
<1>2. ASSUME NEW q \in Commands
      PROVE  /\ at'[q] \in Making => job'[q].kind = "add"
             /\ at'[q] \in {"truncate", "write"} => job'[q].kind # "up"
             /\ at'[q] = "purge" => job'[q].kind = "purge"
             /\ at'[q] = "start" => job'[q].kind = "up"
             /\ at'[q] \in UnderWay => mem'[q] # Nobody
  <2>1. CASE q # c
    BY <1>1, <2>1 DEF IInv, AtByKind
  <2>2. CASE q = c /\ at[c] = "new" /\ at'[c] \in UnderWay
    <3>1. PICK l \in {"truncate", "mkdir", "start"}, m \in Manifest :
            /\ at'[c] = l /\ mem'[c] = m
            /\ \/ job[c].kind \in {"init", "force"} /\ l = "truncate"
               \/ job[c].kind = "add" /\ l = "mkdir"
               \/ job[c].kind \in {"remove", "purge"} /\ l = "truncate"
               \/ job[c].kind = "up" /\ l = "start"
      BY <2>2, StartFacts
    <3>2. l \notin Making \/ l = "mkdir"
      BY DEF Making
    <3>3. QED
      BY <1>1, <2>2, <3>1, <3>2, Marks, Placed DEF Making
  <2>3. CASE q = c /\ at[c] # "new" /\ at'[c] \in UnderWay
    <3>1. at[c] \in UnderWay
      BY <2>3, StepFacts DEF IInv
    <3>2. QED
      BY <1>1, <2>3, <3>1, AtStep, Placed DEF IInv, AtByKind, Making
  <2>4. CASE q = c /\ at'[c] \notin UnderWay
    BY <2>4, Placed
  <2>5. QED
    BY <2>1, <2>2, <2>3, <2>4
<1>3. QED
  BY <1>2 DEF AtByKind

\* Commands that meet a writer are noted.
LEMMA BesideStep ==
  ASSUME IInv, NEW c \in Commands, Command(c) \/ Kill(c)
  PROVE  BesideIsMixed'
<1>1. /\ job' = job /\ mixed \subseteq mixed' /\ at[c] \in {"new"} \cup UnderWay
      /\ \A q \in Commands \ {c} : at'[q] = at[q]
  BY StepFacts DEF IInv
<1>2. SUFFICES ASSUME NEW p \in Commands, NEW q \in Commands, p # q,
                      {at'[p], at'[q]} \subseteq UnderWay, Writer(q)
               PROVE  p \in mixed'
  BY <1>1 DEF BesideIsMixed, Writer
<1>3. CASE {at[p], at[q]} \subseteq UnderWay
  BY <1>1, <1>2, <1>3 DEF IInv, BesideIsMixed
<1>4. CASE ~({at[p], at[q]} \subseteq UnderWay)
  <2>1. c \in {p, q} /\ at[c] = "new" /\ at'[c] \in UnderWay
    BY <1>1, <1>2, <1>4
  <2>2. PICK l, m : Begin(c, l, m)
    BY <2>1, StartFacts
  <2>3. CASE c = p
    BY <1>1, <1>2, <2>2, <2>3 DEF Begin, Writer
  <2>4. CASE c = q
    BY <1>1, <1>2, <2>2, <2>4 DEF Begin, Writer
  <2>5. QED
    BY <2>1, <2>3, <2>4
<1>5. QED
  BY <1>3, <1>4

\* What a remove has taken out stays out of its copy, and an init adds nothing.
LEMMA CopyByKindStep ==
  ASSUME IInv, NEW c \in Commands, Command(c) \/ Kill(c)
  PROVE  CopyByKind'
<1>1. /\ job' = job /\ at[c] \in {"new"} \cup UnderWay
      /\ at[c] # "new" => mem' = mem
      /\ \A q \in Commands \ {c} : at'[q] = at[q] /\ mem'[q] = mem[q]
  BY StepFacts DEF IInv
<1>2. SUFFICES ASSUME NEW q \in Commands, at'[q] \in UnderWay
               PROVE  /\ job[q].kind \in {"remove", "purge"} => ~Listed(mem'[q], job[q].name)
                      /\ job[q].kind \in {"init", "force"} => mem'[q].agents = {}
  BY <1>1 DEF CopyByKind, Listed
<1>3. CASE at[q] \in UnderWay
  BY <1>1, <1>2, <1>3, Placed DEF IInv, CopyByKind
<1>4. CASE q = c /\ at[c] = "new"
  BY <1>2, <1>4, StartFacts
<1>5. QED
  BY <1>1, <1>2, <1>3, <1>4

-----------------------------------------------------------------------------
(* Homes *)

\* Only a purge takes anything from a home, and only from its own.
LEMMA HomeStep ==
  ASSUME IInv, NEW c \in Commands, Command(c) \/ Kill(c), NEW n \in Names
  PROVE  \/ /\ home[n].dir => home'[n].dir
            /\ home[n].env # "none" => home'[n].env # "none"
            /\ home[n].cfg # "none" => home'[n].cfg # "none"
         \/ at[c] = "purge" /\ job[c].kind = "purge" /\ job[c].name = n
<1>1. home \in [Names -> Home] /\ home[n] \in Home
  BY DEF IInv, TypeOK
<1>2. CASE home' = home
  BY <1>2
<1>3. CASE Makes(c)
  <2>1. CASE home' = home
    BY <2>1
  <2>2. CASE home' # home
    <3> DEFINE Keeps(g, h) == /\ g.dir => h.dir
                              /\ g.env # "none" => h.env # "none"
                              /\ g.cfg # "none" => h.cfg # "none"
    <3>1. PICK h \in Home : home' = [home EXCEPT ![job[c].name] = h] /\ Keeps(home[job[c].name], h)
      BY <1>3, <2>2, MakesHome DEF IInv
    <3> HIDE DEF Keeps
    <3>2. job[c].name \in Names
      BY <1>3, MakesFacts DEF IInv
    <3>3. CASE n # job[c].name
      <4>1. home'[n] = home[n]
        BY <1>1, <3>1, <3>3
      <4>2. QED
        BY <4>1
    <3>4. CASE n = job[c].name
      <4>1. home'[n] = h
        BY <1>1, <3>1, <3>4
      <4>2. QED
        BY <3>1, <3>4, <4>1 DEF Keeps
    <3>5. QED
      BY <3>3, <3>4
  <2>3. QED
    BY <2>1, <2>2
<1>4. CASE PurgeFile(c) \/ PurgeEnds(c)
  <2>1. at[c] = "purge" /\ job[c].kind = "purge"
    BY <1>4 DEF PurgeFile, PurgeEnds, IInv, AtByKind
  <2>2. n # job[c].name => home'[n] = home[n]
    BY <1>1, <1>4 DEF PurgeFile, PurgeEnds
  <2>3. QED
    BY <2>1, <2>2
<1>5. home' = home \/ Makes(c) \/ PurgeFile(c) \/ PurgeEnds(c)
  BY DEF Command, Makes, Kill, InitLooks, AddLoads, RemoveLoads, UpLoads, Refuse, Begin,
    Truncate, Write, StartAgents
<1>6. QED
  BY <1>2, <1>3, <1>4, <1>5

\* A home stays complete or becomes one that a mixed purge took, unless a purge
\* that is not mixed takes it.
LEMMA HomeStays ==
  ASSUME IInv, NEW c \in Commands, Command(c) \/ Kill(c), NEW n \in Names,
         Complete(n) \/ Purged(n),
         at[c] = "purge" /\ job[c].kind = "purge" /\ job[c].name = n => c \in mixed
  PROVE  Complete(n)' \/ Purged(n)'
<1>1. job' = job /\ mixed \subseteq mixed'
  BY StepFacts DEF IInv
<1>2. CASE Purged(n)
  BY <1>1, <1>2 DEF Purged
<1>3. CASE at[c] = "purge" /\ job[c].kind = "purge" /\ job[c].name = n
  BY <1>1, <1>3 DEF Purged
<1>4. CASE Complete(n) /\ ~(at[c] = "purge" /\ job[c].kind = "purge" /\ job[c].name = n)
  BY <1>4, HomeStep DEF Complete
<1>5. QED
  BY <1>2, <1>3, <1>4

\* The names of a manifest's agents are names.
LEMMA NamesOfAgents ==
  ASSUME NEW m \in Manifest, NEW e \in m.agents
  PROVE  e \in Entry /\ e.name \in Names /\ e.by \in Commands
  BY DEF Manifest, Entry

\* What is listed, in the terms of the invariant.
LEMMA ListedFacts ==
  EmptyIsTorn /\ mixed \subseteq Commands =>
    (ListedHasHome <=>
       (file \in Manifest => \A e \in file.agents : Complete(e.name) \/ Purged(e.name)))
<1> SUFFICES ASSUME EmptyIsTorn, mixed \subseteq Commands
             PROVE  ListedHasHome <=>
                      (file \in Manifest => \A e \in file.agents : Complete(e.name) \/ Purged(e.name))
  OBVIOUS
<1>1. \A n \in Names :
        LET Of(kind) == {c \in Commands : job[c].kind = kind /\ job[c].name = n} IN
        /\ home[n].env = "empty" => \E a \in Of("add") : at[a] \in {"fillEnv", "torn"}
        /\ home[n].cfg = "empty" => \E a \in Of("add") : at[a] \in {"fillCfg", "torn"}
  BY DEF EmptyIsTorn, Adding
<1>2. \A e : Purged(e.name) <=>
               {c \in Commands : job[c].kind = "purge" /\ job[c].name = e.name} \cap mixed # {}
  BY DEF Purged
<1>3. file \in Manifest => \A e \in file.agents : e.name \in Names
  BY NamesOfAgents
<1>4. QED
  BY <1>1, <1>2, <1>3 DEF ListedHasHome, Complete

\* The copy that is about to be written has a home for each of its agents.
LEMMA WrittenHasHomes ==
  ASSUME IInv, NEW c \in Commands, at[c] = "write"
  PROVE  \A e \in mem[c].agents : Complete(e.name) \/ Purged(e.name)
<1>1. at[c] \in Writing
  BY DEF Writing
<1>2. job[c].kind = "add" => Complete(job[c].name) \/ Purged(job[c].name)
  BY <1>1 DEF IInv, HomeInTheMaking, Made, Complete
<1>3. QED
  BY <1>1, <1>2 DEF IInv, CopiesHaveHomes

\* Only who opens a file makes it empty; he fills it, or is killed at that.
LEMMA EmptyStep ==
  ASSUME IInv, NEW c \in Commands, Command(c) \/ Kill(c)
  PROVE  EmptyIsTorn'
<1>1. /\ job' = job /\ \A q \in Commands \ {c} : at'[q] = at[q]
  BY StepFacts DEF IInv
<1>2. home \in [Names -> Home]
  BY DEF IInv, TypeOK
<1>3. SUFFICES ASSUME NEW n \in Names
               PROVE  /\ home'[n].env = "empty" => Adding(n, {"fillEnv", "torn"})'
                      /\ home'[n].cfg = "empty" => Adding(n, {"fillCfg", "torn"})'
  BY DEF EmptyIsTorn, Adding
<1>4. ASSUME NEW places, Adding(n, places),
             at[c] \notin places \/ at'[c] \in places \/ job[c].name # n
      PROVE  Adding(n, places)'
  BY <1>1, <1>4 DEF Adding
<1>5. /\ home[n].env = "empty" => Adding(n, {"fillEnv", "torn"})
      /\ home[n].cfg = "empty" => Adding(n, {"fillCfg", "torn"})
  BY DEF IInv, EmptyIsTorn
<1>6. CASE Makes(c)
  <2>1. job[c].name \in Names /\ job[c].kind = "add" /\ at[c] \in Making
    BY <1>6, MakesFacts DEF IInv
  <2>2. CASE job[c].name # n
    <3>1. home'[n] = home[n]
      BY <1>2, <1>6, <2>1, <2>2, MakesHome DEF IInv
    <3>2. QED
      BY <1>4, <1>5, <2>2, <3>1
  <2>3. CASE job[c].name = n /\ home' = home
    <3>1. CASE at[c] \in {"mkdir", "openEnv", "openCfg"}
      BY <1>4, <1>5, <2>3, <3>1
    <3>2. CASE at[c] = "fillEnv"
      <4>1. home[n].env # "empty"
        BY <1>2, <1>6, <2>3, <3>2, MakesHome DEF IInv
      <4>2. QED
        BY <1>4, <1>5, <2>3, <3>2, <4>1
    <3>3. CASE at[c] = "fillCfg"
      <4>1. home[n].cfg # "empty"
        BY <1>2, <1>6, <2>3, <3>3, MakesHome DEF IInv
      <4>2. QED
        BY <1>4, <1>5, <2>3, <3>3, <4>1
    <3>4. QED
      BY <2>1, <3>1, <3>2, <3>3 DEF Making
  <2>4. CASE job[c].name = n /\ home' # home
    <3>1. PICK h \in Home :
            /\ home' = [home EXCEPT ![n] = h]
            /\ \/ at[c] = "mkdir" /\ h.env = home[n].env /\ h.cfg = home[n].cfg
               \/ at[c] = "openEnv" /\ at'[c] = "fillEnv" /\ h.cfg = home[n].cfg
               \/ at[c] = "fillEnv" /\ h.env = "full" /\ h.cfg = home[n].cfg
               \/ at[c] = "openCfg" /\ at'[c] = "fillCfg" /\ h.env = home[n].env
               \/ at[c] = "fillCfg" /\ h.env = home[n].env /\ h.cfg # "empty"
      BY <1>6, <2>4, MakesHome, GotoTyped DEF IInv
    <3>2. home'[n] = h
      BY <1>2, <3>1
    <3>3. \A places : at'[c] \in places => Adding(n, places)'
      BY <1>1, <2>1, <2>4 DEF Adding
    <3>4. QED
      BY <1>4, <1>5, <3>1, <3>2, <3>3
  <2>5. QED
    BY <2>2, <2>3, <2>4
<1>7. CASE PurgeFile(c) \/ PurgeEnds(c)
  <2>1. at[c] = "purge"
    BY <1>7 DEF PurgeFile, PurgeEnds
  <2>2. job[c].name \in Names
    BY <2>1, JobKinds DEF IInv, AtByKind, TypeOK
  <2>3. home'[n].env \in {home[n].env, "none"} /\ home'[n].cfg \in {home[n].cfg, "none"}
    <3>1. home[n] \in Home /\ home[job[c].name] \in Home
      BY <1>2, <2>2
    <3>2. CASE n # job[c].name
      BY <1>2, <1>7, <2>2, <3>2 DEF PurgeFile, PurgeEnds
    <3>3. CASE n = job[c].name
      BY <1>2, <1>7, <3>1, <3>3 DEF PurgeFile, PurgeEnds, Home
    <3>4. QED
      BY <3>2, <3>3
  <2>4. QED
    BY <1>4, <1>5, <2>1, <2>3
<1>8. CASE Kill(c)
  <2>1. /\ home' = home
        /\ at'[c] = IF at[c] \in {"fillEnv", "fillCfg"} THEN "torn" ELSE "killed"
        /\ at[c] \in UnderWay
    BY <1>8, GotoTyped DEF Kill, IInv
  <2>2. at[c] # "torn"
    BY <2>1, Placed
  <2>3. QED
    BY <1>4, <1>5, <2>1, <2>2
<1>9. CASE ~Makes(c) /\ ~PurgeFile(c) /\ ~PurgeEnds(c) /\ ~Kill(c)
  <2>1. home' = home /\ at[c] \in {"new", "truncate", "write", "start"}
    BY <1>9 DEF Command, Makes, InitLooks, AddLoads, RemoveLoads, UpLoads, Refuse, Begin, Truncate,
      Write, StartAgents
  <2>2. QED
    BY <1>4, <1>5, <2>1
<1>10. QED
  BY <1>6, <1>7, <1>8, <1>9

\* What is listed keeps its home.
LEMMA ListedStep ==
  ASSUME IInv, NEW c \in Commands, Command(c) \/ Kill(c)
  PROVE  ListedHasHome'
<1>1. SUFFICES ASSUME file' \in Manifest, NEW e \in file'.agents
               PROVE  Complete(e.name)' \/ Purged(e.name)'
  <2>1. EmptyIsTorn' /\ (mixed \subseteq Commands)'
    BY EmptyStep, TypeStep DEF Next, TypeOK
  <2>2. (ListedHasHome <=>
           (file \in Manifest => \A e \in file.agents : Complete(e.name) \/ Purged(e.name)))'
    BY <2>1, ListedFacts, PTL
  <2>3. QED
    BY <2>2
<1>2. e.name \in Names
  BY <1>1, NamesOfAgents
<1>3. CASE file' = file
  <2>1. Complete(e.name) \/ Purged(e.name)
    BY <1>1, <1>3, ListedFacts DEF IInv, TypeOK
  <2>2. ASSUME at[c] = "purge", job[c].kind = "purge", job[c].name = e.name
        PROVE  c \in mixed
    <3>1. SUFFICES ASSUME c \notin mixed
                   PROVE  FALSE
      OBVIOUS
    <3>2. file = mem[c] /\ ~Listed(mem[c], job[c].name)
      BY <2>2, <3>1, Placed DEF IInv, PurgeWroteFile, CopyByKind
    <3>3. QED
      BY <1>1, <1>3, <2>2, <3>2 DEF Listed
  <2>3. QED
    BY <1>2, <2>1, <2>2, HomeStays
<1>4. CASE Write(c) /\ file' = mem[c]
  <2>1. at[c] = "write"
    BY <1>4 DEF Write
  <2>2. Complete(e.name) \/ Purged(e.name)
    BY <1>1, <1>4, <2>1, WrittenHasHomes
  <2>3. QED
    BY <1>2, <2>1, <2>2, HomeStays
<1>5. file' # Blank
  BY <1>1, Marks
<1>6. QED
  BY <1>3, <1>4, <1>5, FileStep

\* An add finds what it has made, unless a purge ran beside it.
LEMMA MakingStep ==
  ASSUME IInv, NEW c \in Commands, Command(c) \/ Kill(c)
  PROVE  HomeInTheMaking'
<1>1. /\ job' = job /\ mixed \subseteq mixed'
      /\ \A q \in Commands \ {c} : at'[q] = at[q]
  BY StepFacts DEF IInv
<1>2. SUFFICES ASSUME NEW q \in Commands, job[q].kind = "add", at'[q] \in Writing
               PROVE  \/ Made(at'[q], home'[job[q].name])
                      \/ q \in mixed' /\ Purged(job[q].name)'
  BY <1>1 DEF HomeInTheMaking, Made, Purged
<1>3. at[q] \in Writing =>
        Made(at[q], home[job[q].name]) \/ (q \in mixed /\ Purged(job[q].name))
  BY <1>2 DEF IInv, HomeInTheMaking
<1>4. Purged(job[q].name) => Purged(job[q].name)'
  BY <1>1 DEF Purged
<1>5. job[q].name \in Names /\ home \in [Names -> Home]
  BY <1>2, JobKinds DEF IInv, TypeOK
<1>6. CASE q # c
  <2>1. at'[q] = at[q]
    BY <1>1, <1>6
  <2>2. CASE at[c] = "purge" /\ job[c].kind = "purge" /\ job[c].name = job[q].name
    <3>1. {at[c], at[q]} \subseteq UnderWay /\ Writer(c) /\ Writer(q)
      BY <1>2, <2>1, <2>2, Placed DEF Writer
    <3>2. c \in mixed /\ q \in mixed
      BY <1>6, <3>1 DEF IInv, BesideIsMixed
    <3>3. QED
      BY <1>1, <1>4, <2>2, <3>2 DEF Purged
  <2>3. CASE ~(at[c] = "purge" /\ job[c].kind = "purge" /\ job[c].name = job[q].name)
    <3>1. /\ home[job[q].name].dir => home'[job[q].name].dir
          /\ home[job[q].name].env # "none" => home'[job[q].name].env # "none"
          /\ home[job[q].name].cfg # "none" => home'[job[q].name].cfg # "none"
      BY <1>5, <2>3, HomeStep
    <3>2. QED
      BY <1>1, <1>2, <1>3, <1>4, <2>1, <3>1 DEF Made
  <2>4. QED
    BY <2>2, <2>3
<1>7. CASE q = c /\ at[c] = "new"
  <2>1. at'[c] = "mkdir"
    BY <1>2, <1>7, StartFacts, Placed
  <2>2. QED
    BY <1>7, <2>1 DEF Made
<1>8. CASE q = c /\ Makes(c)
  <2> DEFINE n == job[c].name
  <2>1. ~Goto(c, "failed") /\ at'[c] \in Writing
    BY <1>2, <1>8, GotoTyped, Placed DEF IInv
  <2>2. PICK h \in Home :
          /\ home' = [home EXCEPT ![n] = h]
          /\ home[n].dir => h.dir
          /\ \/ /\ at[c] = "mkdir" /\ at'[c] = AfterDir(c)
                /\ h.dir /\ h.env = home[n].env /\ h.cfg = home[n].cfg
             \/ /\ at[c] = "openEnv" /\ at'[c] = "fillEnv"
                /\ home[n].dir /\ h.env = "empty" /\ h.cfg = home[n].cfg
             \/ /\ at[c] = "fillEnv" /\ at'[c] = AfterEnv(c)
                /\ home[n].env # "none" /\ h.env = "full" /\ h.cfg = home[n].cfg
             \/ /\ at[c] = "openCfg" /\ at'[c] = "fillCfg"
                /\ home[n].dir /\ h.cfg = "empty" /\ h.env = home[n].env
             \/ /\ at[c] = "fillCfg" /\ at'[c] = "truncate" /\ h.env = home[n].env
                /\ h.cfg = IF home[n].cfg = "none" THEN "none" ELSE "full"
    BY <1>8, <2>1, MakesHome, GotoTyped DEF IInv
  <2>3. n \in Names /\ home'[n] = h
    BY <1>5, <1>8, <2>2
  <2>4. at[c] \in Making /\ (Made(at[c], home[n]) \/ (c \in mixed /\ Purged(n)))
    BY <1>3, <1>8, MakesFacts, Placed DEF IInv
  <2>5. CASE c \in mixed /\ Purged(n)
    BY <1>1, <1>4, <1>8, <2>5
  <2>6. CASE Made(at[c], home[n])
    <3>1. /\ AfterEnv(c) = IF home[n].cfg = "none" THEN "openCfg" ELSE "truncate"
          /\ AfterDir(c) = IF home[n].env = "none" THEN "openEnv" ELSE AfterEnv(c)
      BY DEF AfterEnv, AfterDir
    <3>2. Made(at'[c], h)
      BY <2>2, <2>6, <3>1 DEF Made
    <3>3. QED
      BY <1>8, <2>3, <3>2
  <2>7. QED
    BY <2>4, <2>5, <2>6
<1>11. CASE q = c /\ Truncate(c)
  <2>1. at[c] = "truncate" /\ home' = home
    BY <1>11 DEF Truncate
  <2>2. QED
    BY <1>1, <1>2, <1>3, <1>4, <1>11, <2>1, GotoTyped DEF Writing, Made, Truncate, IInv
<1>12. at[c] # "new" => Makes(c) \/ Truncate(c) \/ q # c
  <2>1. ASSUME q = c, at[c] # "new"
        PROVE  Makes(c) \/ Truncate(c)
    <3>1. at[c] \in Making \cup {"truncate"}
      BY <1>2, <2>1, AtStep, Placed DEF Writing
    <3>2. at'[c] \notin Ended
      BY <1>2, <2>1, Placed
    <3>3. ~Kill(c)
      BY <3>2, GotoTyped, Placed DEF Kill, IInv
    <3>4. QED
      BY <3>1, <3>3 DEF Making, Makes, Command, InitLooks, AddLoads, RemoveLoads, UpLoads, Write, PurgeFile,
        PurgeEnds, StartAgents
  <2>2. QED
    BY <2>1
<1>13. QED
  BY <1>6, <1>7, <1>8, <1>11, <1>12

\* The copies that will be written keep their homes.
LEMMA CopiesStep ==
  ASSUME IInv, NEW c \in Commands, Command(c) \/ Kill(c)
  PROVE  CopiesHaveHomes'
<1>1. /\ job' = job /\ at[c] \in {"new"} \cup UnderWay
      /\ at[c] # "new" => mem' = mem
      /\ \A q \in Commands \ {c} : at'[q] = at[q] /\ mem'[q] = mem[q]
  BY StepFacts DEF IInv
<1>2. SUFFICES ASSUME NEW q \in Commands, at'[q] \in Writing, NEW e \in mem'[q].agents,
                      ~(job[q].kind = "add" /\ e.name = job[q].name)
               PROVE  Complete(e.name)' \/ Purged(e.name)'
  BY <1>1 DEF CopiesHaveHomes, Complete, Purged
<1>3. e.name \in Names
  <2>1. mem'[q] # Nobody /\ mem'[q] \in Manifest \cup {Nobody}
    BY <1>2, Placed, AtByKindStep, TypeStep DEF AtByKind, TypeOK, Next
  <2>2. QED
    BY <1>2, <2>1, NamesOfAgents
<1>4. CASE at[q] \in Writing
  <2>1. mem'[q] = mem[q]
    BY <1>1, <1>4, Placed
  <2>2. Complete(e.name) \/ Purged(e.name)
    BY <1>2, <1>4, <2>1 DEF IInv, CopiesHaveHomes
  <2>3. ASSUME at[c] = "purge", job[c].kind = "purge", job[c].name = e.name
        PROVE  c \in mixed
    <3>1. c # q /\ {at[c], at[q]} \subseteq UnderWay
      BY <1>4, <2>3, Placed
    <3>2. Writer(q)
      BY <1>4 DEF IInv, AtByKind, Writing, Writer
    <3>3. QED
      BY <3>1, <3>2 DEF IInv, BesideIsMixed
  <2>4. QED
    BY <1>3, <2>2, <2>3, HomeStays
<1>5. CASE q = c /\ at[c] = "new"
  <2>1. PICK l \in {"truncate", "mkdir", "start"}, m \in Manifest :
          /\ at'[c] = l /\ mem'[c] = m
          /\ \/ job[c].kind \in {"init", "force"} /\ l = "truncate" /\ m.agents = {}
             \/ /\ job[c].kind = "add" /\ l = "mkdir" /\ file # Absent
                /\ m = [Loaded EXCEPT !.agents = @ \cup {Spec_of(c, Loaded)}]
             \/ /\ job[c].kind \in {"remove", "purge"} /\ l = "truncate" /\ file # Absent
                /\ m = Without(Loaded, job[c].name)
             \/ job[c].kind = "up" /\ l = "start"
    BY <1>2, <1>5, StartFacts, Placed
  <2>2. file # Absent /\ e \in Loaded.agents
    <3>1. file # Absent /\ m.agents # {} /\ job[c].kind # "up"
      BY <1>2, <1>5, <2>1, Placed
    <3>2. Loaded \in Manifest /\ Sound(Loaded) /\ job[c] \in Job
      BY <3>1, CopyTyped
    <3>3. CASE job[c].kind = "add"
      <4>1. /\ Spec_of(c, Loaded) \in Entry
            /\ Spec_of(c, Loaded).name = job[c].name
        BY <3>2, <3>3, SpecFacts
      <4>2. m.agents = Loaded.agents \cup {Spec_of(c, Loaded)}
        <5>1. m = [Loaded EXCEPT !.agents = @ \cup {Spec_of(c, Loaded)}]
          BY <2>1, <3>3
        <5>2. {Spec_of(c, Loaded)} \in SUBSET Entry
          BY <4>1
        <5>3. QED
          BY <3>2, <5>1, <5>2, WithFacts
      <4>3. QED
        BY <1>2, <1>5, <2>1, <3>1, <3>3, <4>1, <4>2
    <3>4. CASE job[c].kind \in {"remove", "purge"}
      BY <1>2, <1>5, <2>1, <3>1, <3>2, <3>4, WithoutFacts
    <3>5. QED
      BY <2>1, <3>1, <3>3, <3>4
  <2>3. file \in Manifest /\ e \in file.agents
    BY <2>2, LoadedFacts DEF IInv
  <2>4. Complete(e.name) \/ Purged(e.name)
    BY <2>3, ListedFacts DEF IInv, TypeOK
  <2>5. QED
    BY <1>3, <1>5, <2>4, HomeStays
<1>6. q = c /\ at[c] # "new" => at[c] \in Writing
  BY <1>2, AtStep, Placed DEF Writing
<1>7. QED
  BY <1>1, <1>2, <1>4, <1>5, <1>6

-----------------------------------------------------------------------------
(* What is told *)

\* An answer of which anything is said says that the file is the copy.
LEMMA SaysIsCopy ==
  ASSUME IInv, NEW c \in Commands, Write(c), told' # Unknown
  PROVE  /\ c \notin mixed /\ told' = mem[c] /\ mem[c] \in Manifest
         /\ job[c].kind \in {"init", "force"} \/ told \in Manifest
<1>1. at[c] = "write" /\ Says(c)
  BY DEF Write
<1>2. c \notin mixed /\ mem[c] \in Manifest
  BY <1>1, SaysTyped DEF IInv
<1>3. job[c].kind \in {"init", "force", "add", "remove", "purge"}
  BY <1>1, JobKinds DEF IInv, AtByKind, TypeOK
<1>4. CASE job[c].kind \in {"init", "force"}
  BY <1>1, <1>2, <1>4 DEF Says
<1>5. ASSUME job[c].kind \in {"add", "remove", "purge"}
      PROVE  /\ told \in Manifest
             /\ job[c].kind = "add" =>
                  /\ \A e \in told.agents : e.by # c
                  /\ \E e \in Entry : e.by = c /\ mem[c] = [told EXCEPT !.agents = @ \cup {e}]
             /\ job[c].kind \in {"remove", "purge"} => mem[c] = Without(told, job[c].name)
  <2>1. told # Unknown
    BY <1>1, <1>2, <1>5, Marks DEF Says
  <2>2. QED
    BY <1>1, <1>2, <1>5, <2>1 DEF IInv, CopyIsTold, Writing
<1>6. CASE job[c].kind = "add"
  <2>1. told' = [told EXCEPT !.agents = @ \cup {e \in mem[c].agents : e.by = c}]
    BY <1>1, <1>2, <1>5, <1>6 DEF Says
  <2>2. PICK e \in Entry : e.by = c /\ mem[c] = [told EXCEPT !.agents = @ \cup {e}]
    BY <1>5, <1>6
  <2>3. mem[c].agents = told.agents \cup {e}
    BY <1>5, <1>6, <2>2, WithFacts
  <2>4. {f \in mem[c].agents : f.by = c} = {e}
    BY <1>5, <1>6, <2>2, <2>3
  <2>5. QED
    BY <1>2, <1>5, <1>6, <2>1, <2>2, <2>4
<1>7. CASE job[c].kind \in {"remove", "purge"}
  BY <1>1, <1>2, <1>5, <1>7 DEF Says
<1>8. QED
  BY <1>2, <1>3, <1>4, <1>6, <1>7, <1>5

\* Only an answer, or a kill that leaves the file blank, changes what is told.
LEMMA ToldStep ==
  ASSUME NEW c \in Commands, Command(c) \/ Kill(c)
  PROVE  told' = told \/ Write(c) \/ (Kill(c) /\ at[c] = "write" /\ told' = Unknown)
  BY DEF Command, Kill, InitLooks, AddLoads, RemoveLoads, UpLoads, Refuse, Begin, MakeHome,
    OpensEnv, FillsEnv, OpensCfg, FillsCfg, InHome, Truncate, Write, PurgeFile, PurgeEnds, StartAgents

\* What is told is in the file, or about to be.
LEMMA ToldIsFileStep ==
  ASSUME IInv, NEW c \in Commands, Command(c) \/ Kill(c)
  PROVE  ToldIsFile'
<1>1. SUFFICES ASSUME told' # Unknown
               PROVE  told' = file' \/ \E q \in Commands : at'[q] = "write"
  BY DEF ToldIsFile
<1>2. CASE Write(c)
  BY <1>1, <1>2, SaysIsCopy DEF Write
<1>3. CASE Truncate(c)
  BY <1>3, GotoTyped DEF Truncate, IInv
<1>4. CASE ~Write(c) /\ ~Truncate(c)
  <2>1. told' = told /\ file' = file
    BY <1>1, <1>4, ToldStep, FileStep
  <2>2. CASE told = file
    BY <2>1, <2>2
  <2>3. ASSUME NEW q \in Commands, at[q] = "write"
        PROVE  at'[q] = "write"
    <3>1. CASE q # c
      BY <2>3, <3>1, StepFacts DEF IInv
    <3>2. CASE q = c
      <4>1. Kill(c)
        BY <1>4, <2>3, <3>2 DEF Command, InitLooks, AddLoads, RemoveLoads, UpLoads, MakeHome,
          OpensEnv, FillsEnv, OpensCfg, FillsCfg, Truncate, PurgeFile, PurgeEnds, StartAgents
      <4>2. QED
        BY <1>1, <2>3, <3>2, <4>1 DEF Kill
    <3>3. QED
      BY <3>1, <3>2
  <2>4. QED
    BY <1>1, <2>1, <2>2, <2>3 DEF IInv, ToldIsFile
<1>5. QED
  BY <1>2, <1>3, <1>4

\* The agents that are told of keep their homes.
LEMMA ToldHomesStep ==
  ASSUME IInv, NEW c \in Commands, Command(c) \/ Kill(c)
  PROVE  ToldHaveHomes'
<1>1. job' = job /\ \A q \in Commands \ {c} : at'[q] = at[q]
  BY StepFacts DEF IInv
<1>2. SUFFICES ASSUME told' \in Manifest
               PROVE  /\ \A e \in told'.agents : Complete(e.name)'
                      /\ \A q \in Commands : at'[q] = "purge" => ~Listed(told', job[q].name)
  BY <1>1 DEF ToldHaveHomes, Listed
<1>3. CASE Write(c)
  <2>1. at[c] = "write" /\ home' = home
    BY <1>3 DEF Write
  <2>2. /\ c \notin mixed /\ told' = mem[c] /\ mem[c] \in Manifest
        /\ job[c].kind \in {"init", "force"} \/ told \in Manifest
    BY <1>2, <1>3, SaysIsCopy, Marks
  <2>3. ASSUME NEW e \in mem[c].agents
        PROVE  Complete(e.name)
    <3>1. told \in Manifest /\ told # Unknown /\ job[c].kind \notin {"init", "force"}
      BY <2>1, <2>2, <2>3, Marks, Placed DEF IInv, CopyByKind
    <3>2. job[c].kind \in {"add", "remove", "purge"}
      BY <2>1, <3>1, JobKinds DEF IInv, AtByKind, TypeOK
    <3>3. CASE job[c].kind = "add"
      <4>1. PICK f \in Entry : f.name = job[c].name /\ mem[c] = [told EXCEPT !.agents = @ \cup {f}]
        BY <2>1, <2>2, <3>1, <3>3 DEF IInv, CopyIsTold, Writing
      <4>2. mem[c].agents = told.agents \cup {f}
        BY <3>1, <4>1, WithFacts
      <4>3. Complete(job[c].name)
        BY <2>1, <2>2, <3>3 DEF IInv, HomeInTheMaking, Made, Writing, Complete
      <4>4. QED
        BY <2>3, <3>1, <4>1, <4>2, <4>3 DEF IInv, ToldHaveHomes
    <3>4. CASE job[c].kind \in {"remove", "purge"}
      <4>1. mem[c] = Without(told, job[c].name)
        BY <2>1, <2>2, <3>1, <3>4 DEF IInv, CopyIsTold, Writing
      <4>2. e \in told.agents
        BY <2>3, <3>1, <4>1, WithoutFacts
      <4>3. QED
        BY <3>1, <4>2 DEF IInv, ToldHaveHomes
    <3>5. QED
      BY <3>2, <3>3, <3>4
  <2>4. ASSUME NEW q \in Commands, at'[q] = "purge"
        PROVE  ~Listed(mem[c], job[q].name)
    <3>1. CASE q = c
      <4>1. job[c].kind = "purge"
        BY <2>1, <2>4, <3>1, AtStep, Placed
      <4>2. QED
        BY <2>1, <3>1, <4>1, Placed DEF IInv, CopyByKind
    <3>2. CASE q # c
      <4>1. at[q] = "purge" /\ Writer(q)
        BY <1>1, <2>4, <3>2 DEF IInv, AtByKind, Writer
      <4>2. QED
        BY <2>1, <2>2, <3>2, <4>1, Placed DEF IInv, BesideIsMixed
    <3>3. QED
      BY <3>1, <3>2
  <2>5. QED
    BY <2>1, <2>2, <2>3, <2>4 DEF Complete
<1>4. CASE ~Write(c)
  <2>1. told' = told
    BY <1>2, <1>4, ToldStep, Marks
  <2>2. /\ \A e \in told.agents : Complete(e.name)
        /\ \A q \in Commands : at[q] = "purge" => ~Listed(told, job[q].name)
    BY <1>2, <2>1 DEF IInv, ToldHaveHomes
  <2>3. ASSUME NEW e \in told.agents
        PROVE  Complete(e.name)'
    <3>1. e.name \in Names /\ Complete(e.name)
      BY <1>2, <2>1, <2>2, <2>3, NamesOfAgents
    <3>2. ~(at[c] = "purge" /\ job[c].name = e.name)
      BY <2>2, <2>3 DEF Listed
    <3>3. QED
      BY <3>1, <3>2, HomeStep DEF Complete
  <2>4. ASSUME NEW q \in Commands, at'[q] = "purge"
        PROVE  at[q] = "purge"
    <3>1. CASE q = c
      <4>1. at[c] # "new"
        BY <2>4, <3>1, StartFacts, Placed
      <4>2. at[c] # "write"
        <5>1. SUFFICES ASSUME at[c] = "write"
                       PROVE  FALSE
          OBVIOUS
        <5>2. Kill(c)
          BY <1>4, <5>1 DEF Command, InitLooks, AddLoads, RemoveLoads, UpLoads, MakeHome,
            OpensEnv, FillsEnv, OpensCfg, FillsCfg, Truncate, PurgeFile, PurgeEnds, StartAgents
        <5>3. QED
          BY <2>4, <3>1, <5>2, GotoTyped DEF Kill, IInv
      <4>3. QED
        BY <2>4, <3>1, <4>1, <4>2, AtStep, Placed
    <3>2. CASE q # c
      BY <1>1, <2>4, <3>2
    <3>3. QED
      BY <3>1, <3>2
  <2>5. QED
    BY <2>1, <2>2, <2>3, <2>4
<1>5. QED
  BY <1>3, <1>4

\* The copy of a command that met no writer follows from what is told.
LEMMA CopyIsToldStep ==
  ASSUME IInv, NEW c \in Commands, Command(c) \/ Kill(c)
  PROVE  CopyIsTold'
<1>1. /\ job' = job /\ mixed \subseteq mixed' /\ at[c] \in {"new"} \cup UnderWay
      /\ at[c] # "new" => mem' = mem
      /\ \A q \in Commands \ {c} : at'[q] = at[q] /\ mem'[q] = mem[q]
  BY StepFacts DEF IInv
<1> DEFINE Follows(q, m) ==
      LET k == job[q].kind IN
      /\ k = "up" => m = told
      /\ k = "add" => /\ told \in Manifest
                      /\ \A e \in told.agents : e.by # q
                      /\ \E e \in Entry :
                           /\ e.by = q /\ e.name = job[q].name
                           /\ m = [told EXCEPT !.agents = @ \cup {e}]
      /\ k \in {"remove", "purge"} => /\ told \in Manifest
                                      /\ m = Without(told, job[q].name)
<1>2. SUFFICES ASSUME NEW q \in Commands, q \notin mixed', at'[q] \in Writing \cup {"start"},
                      told' # Unknown
               PROVE  told' = told /\ Follows(q, mem'[q])
  <2>1. ASSUME NEW q \in Commands \ mixed', at'[q] \in Writing \cup {"start"}, told' # Unknown
        PROVE  told' = told /\ Follows(q, mem'[q])
    BY <1>2, <2>1
  <2>2. ASSUME NEW q \in Commands \ mixed', at'[q] \in Writing \cup {"start"}, told' # Unknown
        PROVE  /\ job'[q].kind = "up" => mem'[q] = told'
               /\ job'[q].kind = "add" =>
                    /\ told' \in Manifest
                    /\ \A e \in told'.agents : e.by # q
                    /\ \E e \in Entry : /\ e.by = q /\ e.name = job'[q].name
                                        /\ mem'[q] = [told' EXCEPT !.agents = @ \cup {e}]
               /\ job'[q].kind \in {"remove", "purge"} =>
                    told' \in Manifest /\ mem'[q] = Without(told', job'[q].name)
    <3>1. job'[q] = job[q] /\ told' = told /\ Follows(q, mem'[q])
      BY <1>1, <2>1, <2>2
    <3>2. job[q].kind = "add" =>
            \E e \in Entry : /\ e.by = q /\ e.name = job[q].name
                            /\ mem'[q] = [told' EXCEPT !.agents = @ \cup {e}]
      BY <3>1
    <3>3. job[q].kind \in {"remove", "purge"} => mem'[q] = Without(told', job[q].name)
      BY <3>1
    <3>4. QED
      BY <3>1, <3>2, <3>3
  <2>3. QED
    BY <2>2 DEF CopyIsTold, Without
<1>3. CASE at[q] \in Writing \cup {"start"}
  <2>1. q \notin mixed /\ at[q] \in UnderWay /\ mem'[q] = mem[q]
    BY <1>1, <1>2, <1>3, Placed
  <2>2. at[c] # "write"
    <3>1. SUFFICES ASSUME at[c] = "write"
                   PROVE  FALSE
      OBVIOUS
    <3>2. CASE q = c
      BY <1>2, <3>1, <3>2, AtStep, Placed DEF Writing, Making
    <3>3. CASE q # c
      BY <2>1, <3>1, <3>3, Placed DEF IInv, BesideIsMixed, AtByKind, Writer
    <3>4. QED
      BY <3>2, <3>3
  <2>3. told' = told
    BY <2>2, ToldStep DEF Write
  <2>4. Follows(q, mem[q])
    BY <1>2, <1>3, <2>1, <2>3 DEF IInv, CopyIsTold
  <2>5. QED
    BY <2>1, <2>3, <2>4
<1>4. CASE q = c /\ at[c] = "new"
  <2>1. PICK l \in {"truncate", "mkdir", "start"}, m \in Manifest :
          /\ Begin(c, l, m) /\ mem'[c] = m
          /\ \/ job[c].kind \in {"init", "force"}
             \/ /\ job[c].kind = "add" /\ file # Absent
                /\ m = [Loaded EXCEPT !.agents = @ \cup {Spec_of(c, Loaded)}]
             \/ /\ job[c].kind \in {"remove", "purge"} /\ file # Absent
                /\ m = Without(Loaded, job[c].name)
             \/ job[c].kind = "up" /\ m = Loaded /\ file # Absent
    BY <1>2, <1>4, StartFacts, Placed
  <2>2. told' = told
    BY <2>1 DEF Begin
  <2>3. \A p \in Commands : at[p] # "write"
    <3>1. SUFFICES ASSUME NEW p \in Commands, at[p] = "write"
                   PROVE  c \in mixed'
      BY <1>2, <1>4
    <3>2. at[p] \in UnderWay /\ job[p].kind # "up"
      BY <3>1, Placed DEF IInv, AtByKind
    <3>3. QED
      BY <2>1, <3>2 DEF Begin
  <2>4. told = file
    BY <1>2, <2>2, <2>3 DEF IInv, ToldIsFile
  <2>5. CASE job[c].kind \in {"init", "force"}
    BY <1>4, <2>2, <2>5
  <2>6. CASE job[c].kind \notin {"init", "force"}
    <3>1. file # Absent /\ told \in Manifest /\ Loaded = told
      BY <1>2, <2>1, <2>2, <2>4, <2>6, LoadedFacts DEF IInv, TypeOK
    <3>2. job[c] \in Job /\ Sound(told) /\ Signed(told)
      BY <2>4, <3>1 DEF IInv, TypeOK, AllSound
    <3>3. CASE job[c].kind = "add"
      <4>1. /\ Spec_of(c, told) \in Entry /\ Spec_of(c, told).by = c
            /\ Spec_of(c, told).name = job[c].name
        BY <3>1, <3>2, <3>3, SpecFacts
      <4>2. \A e \in told.agents : e.by # c
        BY <1>4, <3>2 DEF Signed
      <4>3. m = [told EXCEPT !.agents = @ \cup {Spec_of(c, told)}]
        BY <2>1, <3>1, <3>3
      <4>4. QED
        BY <1>4, <2>1, <2>2, <3>1, <3>3, <4>1, <4>2, <4>3
    <3>4. CASE job[c].kind \in {"remove", "purge", "up"}
      BY <1>4, <2>1, <2>2, <3>1, <3>4
    <3>5. QED
      BY <2>6, <3>2, <3>3, <3>4, JobKinds
  <2>7. QED
    BY <2>5, <2>6
<1>5. q = c /\ at[c] # "new" => at[c] \in Writing \cup {"start"}
  BY <1>2, AtStep, Placed DEF Writing
<1>6. QED
  BY <1>1, <1>2, <1>3, <1>4, <1>5

\* A purge that met no other finds the file as it wrote it.
LEMMA PurgeStep ==
  ASSUME IInv, NEW c \in Commands, Command(c) \/ Kill(c)
  PROVE  PurgeWroteFile'
<1>1. /\ mixed \subseteq mixed' /\ at[c] \in {"new"} \cup UnderWay
      /\ at[c] # "new" => mem' = mem
      /\ \A q \in Commands \ {c} : at'[q] = at[q] /\ mem'[q] = mem[q]
  BY StepFacts DEF IInv
<1>2. SUFFICES ASSUME NEW q \in Commands, q \notin mixed', at'[q] = "purge"
               PROVE  file' = mem'[q]
  BY DEF PurgeWroteFile
<1>3. CASE at[q] = "purge"
  <2>1. ~Truncate(c) /\ ~Write(c)
    <3>1. SUFFICES ASSUME at[c] \in {"truncate", "write"}
                   PROVE  FALSE
      BY DEF Truncate, Write
    <3>2. q # c /\ {at[c], at[q]} \subseteq UnderWay /\ Writer(c)
      BY <1>3, <3>1, Placed DEF IInv, AtByKind, Writer
    <3>3. QED
      BY <1>1, <1>2, <3>2 DEF IInv, BesideIsMixed
  <2>2. file' = file
    BY <2>1, FileStep
  <2>3. QED
    BY <1>1, <1>2, <1>3, <2>2, Placed DEF IInv, PurgeWroteFile
<1>4. CASE at[q] # "purge"
  <2>1. q = c /\ at[c] = "write"
    BY <1>1, <1>2, <1>4, AtStep, StartFacts, Placed
  <2>2. ~Kill(c)
    BY <1>2, <2>1, GotoTyped DEF Kill, IInv
  <2>3. Write(c)
    BY <2>1, <2>2 DEF Command, InitLooks, AddLoads, RemoveLoads, UpLoads, MakeHome,
      OpensEnv, FillsEnv, OpensCfg, FillsCfg, Truncate, PurgeFile, PurgeEnds, StartAgents
  <2>4. QED
    BY <1>1, <2>1, <2>3 DEF Write
<1>5. QED
  BY <1>3, <1>4

-----------------------------------------------------------------------------
(* The theorems *)

\* With no file, or with one that lists no agent, all of it holds.
LEMMA InitIInv == Init => IInv
<1>1. SUFFICES ASSUME Init
               PROVE  IInv
  OBVIOUS
<1>2. NewManifest(Nobody, DefaultPort) \in Manifest /\ NewManifest(Nobody, DefaultPort).agents = {}
  BY NewIsManifest, ManifestAssumption
<1>3. TypeOK
  BY <1>1, <1>2 DEF Init, TypeOK, Home, Text
<1>4. file \in Manifest => file.agents = {}
  BY <1>1, <1>2, Marks DEF Init
<1>5. \A c \in Commands : at[c] = "new" /\ mem[c] = Nobody
  BY <1>1 DEF Init
<1>6. AllSound
  BY <1>4, <1>5 DEF AllSound, Sound, Signed
<1>7. ListedHasHome
  BY <1>4 DEF ListedHasHome
<1>8. told = file
  BY <1>1 DEF Init
<1>9. ToldHaveHomes
  BY <1>4, <1>5, <1>8 DEF ToldHaveHomes
<1>10. EmptyIsTorn
  BY <1>1 DEF Init, EmptyIsTorn
<1>11. QED
  BY <1>3, <1>5, <1>6, <1>7, <1>8, <1>9, <1>10, Placed DEF IInv, AtByKind, BesideIsMixed, CopyByKind,
    HomeInTheMaking, CopiesHaveHomes, ToldIsFile, CopyIsTold, PurgeWroteFile

\* Every command, killed or not, keeps it.
LEMMA NextIInv == IInv /\ [Next]_vars => IInv'
<1>1. SUFFICES ASSUME IInv, [Next]_vars
               PROVE  IInv'
  OBVIOUS
<1>2. TypeOK'
  BY <1>1, TypeStep
<1>3. CASE UNCHANGED vars
  BY <1>1, <1>3 DEF vars, IInv, TypeOK, AllSound, Sound, Signed, AtByKind, BesideIsMixed, Writer,
    CopyByKind, Listed, ListedHasHome, EmptyIsTorn, Adding, HomeInTheMaking, CopiesHaveHomes, Complete, Purged,
    ToldIsFile, ToldHaveHomes, CopyIsTold, Without, PurgeWroteFile
<1>4. ASSUME NEW c \in Commands, Command(c) \/ Kill(c)
      PROVE  IInv'
  BY <1>1, <1>2, <1>4, SoundStep, AtByKindStep, BesideStep, CopyByKindStep, ListedStep, EmptyStep, MakingStep,
    CopiesStep, ToldIsFileStep, ToldHomesStep, CopyIsToldStep, PurgeStep DEF IInv
<1>5. QED
  BY <1>1, <1>3, <1>4 DEF Next

\* The invariant holds of every run of any number of commands, whatever runs
\* beside what and is killed where.
THEOREM Invariance == Spec => []IInv
  BY InitIInv, NextIInv, PTL DEF Spec

\* Types: in particular next_free_port always finds a port.
THEOREM TypeCorrect == Spec => []TypeOK
<1>1. IInv => TypeOK
  BY DEF IInv
<1>2. QED
  BY <1>1, Invariance, PTL

\* No file is ever written in which two agents, or an agent and the adapter,
\* have a port in common, or two agents a name (Manifest.add, next_free_port).
THEOREM PortsDiffer == Spec => []PortsNeverCollide
<1>1. IInv => PortsNeverCollide
  BY DEF IInv, AllSound, Sound, PortsNeverCollide
<1>2. QED
  BY <1>1, Invariance, PTL

\* A listed agent has a home with both its files, unless a purge of it ran beside
\* another command (write_agent_home before save, save before rmtree); one of them
\* is empty only while an add writes it or after one was killed at that.
THEOREM HomesOfListed == Spec => []ListedHasHome
<1>1. IInv => ListedHasHome
  BY DEF IInv
<1>2. QED
  BY <1>1, Invariance, PTL

\* A lone `up` starts what the commands before it have told.
LEMMA UpStep ==
  ASSUME IInv, [Next]_vars, NEW c \in Commands \ mixed, job[c].kind = "up", at[c] = "start",
         at'[c] = "ok", told # Unknown
  PROVE  mem[c].key = told.key /\ started'[c] = told.agents
<1>1. mem[c] = told /\ mem[c] \in Manifest
  BY Placed DEF IInv, CopyIsTold, AtByKind, TypeOK
<1>2. \A e \in told.agents : home[e.name].dir
  BY <1>1 DEF IInv, ToldHaveHomes, Complete
<1>3. PICK d \in Commands : Command(d) \/ Kill(d)
  BY DEF Next, vars
<1>4. d = c
  BY <1>3, StepFacts DEF IInv
<1>5. StartAgents(c)
  <2>1. ~Kill(c)
    BY GotoTyped DEF Kill, IInv
  <2>2. QED
    BY <1>3, <1>4, <2>1 DEF Command, InitLooks, AddLoads, RemoveLoads, UpLoads, MakeHome, OpensEnv, FillsEnv, OpensCfg,
      FillsCfg, Truncate, Write, PurgeFile, PurgeEnds
<1>6. started'[c] = {e \in told.agents : home[e.name].dir}
  BY <1>1, <1>5 DEF StartAgents, IInv, TypeOK
<1>7. QED
  BY <1>1, <1>2, <1>6

\* An `up` that met no writer starts, with the key init made, exactly the agents
\* that the commands before it have reported (cmd_up and Manifest.load).
THEOREM LoneUpIsTold == Spec => LoneUpStartsWhatWasTold
<1>1. IInv /\ [Next]_vars =>
        [\A c \in Commands \ mixed :
           job[c].kind = "up" /\ at[c] = "start" /\ at'[c] = "ok" /\ told # Unknown
             => mem[c].key = told.key /\ started'[c] = told.agents]_vars
  BY UpStep
<1>2. QED
  BY <1>1, Invariance, PTL DEF Spec, LoneUpStartsWhatWasTold

=============================================================================
