--------------------------- MODULE GenerateProofs ---------------------------
(***************************************************************************)
(* Theorems about Generate, for any tags, snapshots and texts, and however *)
(* often runs die or are committed.                                        *)
(***************************************************************************)
EXTENDS Generate, TLAPS

(* A run that has begun writes what it was asked for, and has written all of it
   that is not still to do; one that cleans is a full one, and after that
   nothing else is there.                                                   *)
Progress ==
  /\ run.phase # "idle" =>
       /\ run.outcome = "none"
       /\ run.todo \subseteq FilesAsked(run.from, run.only)
  /\ run.phase = "cleaning" => FullRun /\ run.todo = FilesAsked(run.from, run.only)
  /\ run.phase = "writing" =>
       \A path \in FilesAsked(run.from, run.only) \ run.todo :
         tree[path] = Text(run.from, path)
  /\ run.phase = "writing" /\ FullRun =>
       \A path \in Paths \ Files(run.from) : tree[path] = Absent

(* The root client fits the tree except while a full run rewrites both.     *)
RootFits ==
  /\ \E snapshot \in Snapshots : root = Uses(snapshot)
  /\ \A tag \in root : tree[<<tag, "service", "go">>] \in Texts

RootStands == intact /\ ~(run.phase # "idle" /\ FullRun) => RootFits

IInv == TypeOK /\ Progress /\ SuccessIsWhole /\ RootStands

(* A file that a snapshot has holds a text.                                 *)
LEMMA FilesHaveTexts ==
  ASSUME NEW snapshot \in Snapshots, NEW path \in Files(snapshot)
  PROVE  path \in Paths /\ Text(snapshot, path) \in Texts
<1>1. path \in Paths /\ Text(snapshot, path) # Absent
  BY DEF Files
<1>2. path[1] \in Tags /\ path[2] \in Kinds
  BY <1>1 DEF Paths
<1>3. Rendered[snapshot] \in [Tags -> [Kinds -> Texts \cup {Absent}]]
  BY GenerateAssumption
<1> QED
  BY <1>1, <1>2, <1>3 DEF Text

(* The whole of a snapshot is a tree, and its root client fits it.          *)
LEMMA WholeIsTree ==
  ASSUME NEW snapshot \in Snapshots
  PROVE  /\ Whole(snapshot) \in Trees
         /\ \A tag \in Uses(snapshot) : Whole(snapshot)[<<tag, "service", "go">>] \in Texts
<1>1. Whole(snapshot) \in Trees
  BY FilesHaveTexts DEF Whole, Trees
<1>2. ASSUME NEW tag \in Uses(snapshot)
      PROVE  Whole(snapshot)[<<tag, "service", "go">>] \in Texts
  <2>1. <<tag, "service", "go">> \in Files(snapshot)
    BY <1>2 DEF Uses
  <2> QED
    BY <2>1, FilesHaveTexts DEF Whole
<1> QED
  BY <1>1, <1>2

LEMMA InitIInv == Init => IInv
<1> SUFFICES ASSUME Init PROVE IInv
  OBVIOUS
<1>1. 1 \in Snapshots /\ All \notin Tags
  BY GenerateAssumption
<1>2. NoRun \in Runs /\ NoRun.phase = "idle" /\ NoRun.outcome = "none"
  BY <1>1 DEF NoRun, Runs
<1>3. TypeOK
  BY <1>1, <1>2, WholeIsTree, GenerateAssumption DEF Init, TypeOK, Roots, Uses
<1>4. RootFits
  BY <1>1, WholeIsTree DEF Init, RootFits
<1> QED
  BY <1>2, <1>3, <1>4 DEF Init, IInv, Progress, SuccessIsWhole, RootStands

(* Runs that are idle are remembered by an outcome and a snapshot alone.    *)
LEMMA EndedRun ==
  ASSUME NEW outcome \in {"none", "failed", "listed", "added", "rebuilt"},
         NEW snapshot \in Snapshots
  PROVE  /\ Ended(outcome, snapshot) \in Runs
         /\ Ended(outcome, snapshot).phase = "idle"
         /\ Ended(outcome, snapshot).outcome = outcome
         /\ Ended(outcome, snapshot).from = snapshot
BY DEF Ended, NoRun, Runs

LEMMA StartKeeps ==
  ASSUME IInv, NEW snapshot \in Snapshots, NEW only \in Tags \cup {All},
         NEW clean \in BOOLEAN, NEW list \in BOOLEAN, Start(snapshot, only, clean, list)
  PROVE  IInv'
<1>0. 1 \in Snapshots
  BY GenerateAssumption
<1>1. UNCHANGED <<newest, tree, root, committed, intact, commits, deaths>> /\ run.phase = "idle"
  BY DEF Start
<1>2. RootFits' <=> RootFits
  BY <1>1 DEF RootFits
<1>3. RootStands'
  BY <1>1, <1>2 DEF IInv, RootStands
<1>4. CASE run' = Ended("failed", 1) \/ run' = Ended("listed", 1)
  <2>1. /\ run' \in Runs /\ run'.phase = "idle" /\ run'.outcome # "rebuilt"
    BY <1>0, <1>4, EndedRun
  <2> QED
    BY <1>1, <1>3, <2>1 DEF IInv, TypeOK, Progress, SuccessIsWhole
<1>5. CASE run' = [phase |-> IF Cleans(only, clean) THEN "cleaning" ELSE "writing",
                   outcome |-> "none", from |-> snapshot, only |-> only, clean |-> clean,
                   todo |-> FilesAsked(snapshot, only)]
  <2>1. FilesAsked(snapshot, only) \in SUBSET Paths
    BY DEF FilesAsked, Files
  <2>2. run' \in Runs
    BY <1>5, <2>1 DEF Runs
  <2>3. Progress'
    BY <1>5 DEF Progress, FullRun, Cleans, FilesAsked, Files, Text
  <2> QED
    BY <1>1, <1>3, <1>5, <2>2, <2>3 DEF IInv, TypeOK, SuccessIsWhole
<1> QED
  BY <1>4, <1>5 DEF Start

LEMMA CleanKeeps ==
  ASSUME IInv, Clean
  PROVE  IInv'
<1>1. /\ run.phase = "cleaning" /\ FullRun /\ run \in Runs
      /\ run.todo = FilesAsked(run.from, run.only) /\ run.outcome = "none"
      /\ run' = [run EXCEPT !.phase = "writing"]
      /\ tree' = [path \in Paths |-> Absent]
      /\ UNCHANGED <<newest, root, committed, intact, commits, deaths>>
  BY DEF Clean, Cleaned, Without, IInv, Progress, TypeOK
<1>2. run' \in Runs /\ tree' \in Trees
  BY <1>1 DEF Runs, Trees
<1>3. /\ run'.phase = "writing" /\ run'.outcome = "none" /\ run'.from = run.from
      /\ run'.only = run.only /\ run'.clean = run.clean /\ run'.todo = run.todo
  BY <1>1 DEF Runs
<1>4. Progress'
  BY <1>1, <1>3 DEF Progress, FilesAsked, Files, Text
<1> QED
  BY <1>1, <1>2, <1>3, <1>4 DEF IInv, TypeOK, SuccessIsWhole, RootStands, FullRun

LEMMA WriteFileKeeps ==
  ASSUME IInv, NEW path \in run.todo, WriteFile(path)
  PROVE  IInv'
<1>1. /\ run.phase = "writing" /\ run \in Runs /\ tree \in Trees
      /\ path \in Files(run.from) /\ run.todo \subseteq FilesAsked(run.from, run.only)
      /\ run.outcome = "none" /\ run.from \in Snapshots
      /\ tree' = [tree EXCEPT ![path] = Text(run.from, path)]
      /\ run' = [run EXCEPT !.todo = @ \ {path}]
      /\ UNCHANGED <<newest, root, committed, intact, commits, deaths>>
  BY DEF WriteFile, IInv, Progress, TypeOK, FilesAsked, Runs
<1>2. path \in Paths /\ Text(run.from, path) \in Texts
  BY <1>1, FilesHaveTexts
<1>3. run' \in Runs /\ tree' \in Trees
  BY <1>1, <1>2 DEF Runs, Trees
<1>4. /\ run'.phase = "writing" /\ run'.outcome = "none" /\ run'.from = run.from
      /\ run'.only = run.only /\ run'.clean = run.clean /\ run'.todo = run.todo \ {path}
  BY <1>1 DEF Runs
<1>5. \A other \in Paths :
        tree'[other] = IF other = path THEN Text(run.from, path) ELSE tree[other]
  BY <1>1 DEF Trees
<1>6. Progress'
  <2>1. FullRun' <=> FullRun
    BY <1>4 DEF FullRun
  <2>2. \A other \in FilesAsked(run.from, run.only) \ run'.todo :
          tree'[other] = Text(run.from, other)
    BY <1>1, <1>4, <1>5 DEF IInv, Progress, FilesAsked, Files
  <2>3. FullRun => \A other \in Paths \ Files(run.from) : tree'[other] = Absent
    BY <1>1, <1>5 DEF IInv, Progress
  <2>4. /\ FilesAsked(run.from, run.only)' = FilesAsked(run'.from, run'.only)
        /\ Files(run.from)' = Files(run'.from)
        /\ \A other : Text(run.from, other)' = Text(run'.from, other)
    BY DEF FilesAsked, Files, Text
  <2> QED
    BY <1>1, <1>4, <2>1, <2>2, <2>3, <2>4 DEF Progress, FilesAsked, Files, Text
<1>7. RootStands'
  <2>1. RootFits => RootFits'
    <3> SUFFICES ASSUME RootFits PROVE RootFits'
      OBVIOUS
    <3>1. \A tag \in root : <<tag, "service", "go">> \in Paths
      BY DEF RootFits, Uses, Files
    <3>2. \A tag \in root : tree'[<<tag, "service", "go">>] \in Texts
      BY <1>2, <1>5, <3>1 DEF RootFits
    <3> QED
      BY <1>1, <3>2 DEF RootFits, Uses, Files, Text
  <2> QED
    BY <1>1, <1>4, <2>1 DEF IInv, RootStands, FullRun
<1> QED
  BY <1>1, <1>3, <1>4, <1>6, <1>7 DEF IInv, TypeOK, SuccessIsWhole

LEMMA FormatFailsKeeps ==
  ASSUME IInv, NEW path \in run.todo, FormatFails(path)
  PROVE  IInv'
<1>1. /\ run.phase = "writing" /\ run \in Runs /\ tree \in Trees /\ run.from \in Snapshots
      /\ path \in Files(run.from)
      /\ tree' = [tree EXCEPT ![<<path[1], path[2], "broken">>] = Text(run.from, path)]
      /\ run' = Ended("failed", 1) /\ intact' = FALSE
      /\ UNCHANGED <<newest, root, committed, commits, deaths>>
  BY DEF FormatFails, IInv, Progress, TypeOK, FilesAsked, Runs
<1>2. path \in Paths /\ Text(run.from, path) \in Texts
  BY <1>1, FilesHaveTexts
<1>3. tree' \in Trees
  BY <1>1, <1>2 DEF Trees, Paths
<1>4. run' \in Runs /\ run'.phase = "idle" /\ run'.outcome = "failed"
  BY <1>1, EndedRun, GenerateAssumption
<1> QED
  BY <1>1, <1>3, <1>4 DEF IInv, TypeOK, Progress, SuccessIsWhole, RootStands

LEMMA FinishKeeps ==
  ASSUME IInv, Finish
  PROVE  IInv'
<1>1. /\ run.phase = "writing" /\ run \in Runs /\ tree \in Trees /\ run.todo = {}
      /\ run.from \in Snapshots /\ root' = RootWritten /\ intact' = (intact \/ FullRun)
      /\ run' = IF FullRun THEN Ended("rebuilt", run.from) ELSE Ended("added", 1)
      /\ UNCHANGED <<newest, tree, committed, commits, deaths>>
  BY DEF Finish, IInv, TypeOK, Runs
<1>2. /\ run' \in Runs /\ run'.phase = "idle"
      /\ FullRun => run'.from = run.from
      /\ ~FullRun => run'.outcome = "added"
  BY <1>1, EndedRun, GenerateAssumption
<1>3. run.only = All =>
        \A path \in Files(run.from) : tree[path] = Text(run.from, path)
  BY <1>1 DEF IInv, Progress, FilesAsked
<1>4. FullRun => tree = Whole(run.from)
  <2> SUFFICES ASSUME FullRun PROVE tree = Whole(run.from)
    OBVIOUS
  <2>1. \A path \in Paths : tree[path] = Whole(run.from)[path]
    BY <1>1, <1>3 DEF IInv, Progress, FullRun, Whole
  <2> QED
    BY <1>1, <2>1 DEF Trees, Whole
<1>5. SuccessIsWhole'
  BY <1>1, <1>2, <1>4 DEF SuccessIsWhole, FullRun, RootWritten, Whole, Uses, Files, Text
<1>6. RootFits'
      \/ ~intact'
  <2>1. CASE run.only = All
    <3>1. root' = Uses(run.from)
      BY <1>1, <2>1 DEF RootWritten
    <3>2. \A tag \in Uses(run.from) : tree[<<tag, "service", "go">>] \in Texts
      BY <1>1, <1>3, <2>1, FilesHaveTexts DEF Uses
    <3> QED
      BY <1>1, <3>1, <3>2 DEF RootFits, Uses, Files, Text
  <2>2. CASE run.only # All
    <3>1. root' = root /\ ~FullRun
      BY <1>1, <2>2 DEF RootWritten, FullRun
    <3>2. intact => RootFits
      BY <3>1 DEF IInv, RootStands
    <3> QED
      BY <1>1, <3>1, <3>2 DEF RootFits, Uses, Files, Text
  <2> QED
    BY <2>1, <2>2
<1>7. root' \in Roots
  BY <1>1 DEF RootWritten, Roots, Uses, IInv, TypeOK
<1> QED
  BY <1>1, <1>2, <1>5, <1>6, <1>7 DEF IInv, TypeOK, Progress, RootStands

LEMMA DieKeeps ==
  ASSUME IInv, Die
  PROVE  IInv'
<1>1. /\ run' = Ended("failed", 1) /\ intact' = FALSE /\ deaths < MaxDeaths
      /\ deaths' = deaths + 1 /\ UNCHANGED <<newest, committed, commits>>
      /\ tree \in Trees /\ root \in Roots
  BY DEF Die, IInv, TypeOK
<1>2. run' \in Runs /\ run'.phase = "idle" /\ run'.outcome = "failed"
  BY <1>1, EndedRun, GenerateAssumption
<1>3. tree' \in Trees
  BY <1>1 DEF Die, Trees, Without, There
<1>4. root' \in Roots
  BY <1>1 DEF Die, Roots
<1>5. deaths' \in 0 .. MaxDeaths
  BY <1>1, GenerateAssumption DEF IInv, TypeOK
<1> QED
  BY <1>1, <1>2, <1>3, <1>4, <1>5 DEF IInv, TypeOK, Progress, SuccessIsWhole, RootStands

(* What goes on outside a run changes neither the tree nor the root client.  *)
LEMMA OutsideKeeps ==
  ASSUME IInv, Publish \/ Commit \/ UNCHANGED vars
  PROVE  IInv'
<1>1. UNCHANGED <<tree, root, run, intact, deaths>>
  BY DEF Publish, Commit, vars
<1>2. newest' \in Snapshots /\ commits' \in 0 .. MaxCommits
  BY GenerateAssumption DEF IInv, TypeOK, Publish, Commit, vars
<1>3. committed' \in [tree : Trees, root : Roots]
  BY DEF IInv, TypeOK, Publish, Commit, vars, Trees, Tracked, Without
<1>4. Progress' /\ SuccessIsWhole' /\ RootStands'
  BY <1>1 DEF IInv, Progress, SuccessIsWhole, RootStands, RootFits, FullRun, FilesAsked,
              Files, Text, Whole, Uses
<1> QED
  BY <1>1, <1>2, <1>3, <1>4 DEF IInv, TypeOK

LEMMA NextIInv == IInv /\ [Next]_vars => IInv'
<1> SUFFICES ASSUME IInv, [Next]_vars PROVE IInv'
  OBVIOUS
<1>1. ASSUME NEW snapshot \in Snapshots, NEW only \in Tags \cup {All},
             NEW clean \in BOOLEAN, NEW list \in BOOLEAN, Start(snapshot, only, clean, list)
      PROVE  IInv'
  BY <1>1, StartKeeps
<1>2. ASSUME NEW path \in run.todo, WriteFile(path) \/ FormatFails(path)
      PROVE  IInv'
  BY <1>2, WriteFileKeeps, FormatFailsKeeps
<1> QED
  BY <1>1, <1>2, CleanKeeps, FinishKeeps, DieKeeps, OutsideKeeps DEF Next

(* The inductive invariant of the generator's runs: what is written so far is
   what was asked for, and whatever is not is gone if the run is a full one. *)
THEOREM AlwaysConsistent == Spec => []IInv
  BY InitIInv, NextIInv, PTL DEF Spec

(* Every variable of the model has its type.                                *)
THEOREM TypeCorrect == Spec => []TypeOK
<1>1. IInv => TypeOK
  BY DEF IInv
<1> QED
  BY <1>1, AlwaysConsistent, PTL

(* A full run that succeeds leaves exactly the packages of its snapshot and a
   root client that names them, however earlier runs ended.                 *)
THEOREM FullRunsAreWhole == Spec => []SuccessIsWhole
<1>1. IInv => SuccessIsWhole
  BY DEF IInv
<1> QED
  BY <1>1, AlwaysConsistent, PTL

(* Unless a run has died or failed since the last full one, the root client
   names all packages of a snapshot, and each of them is there.              *)
THEOREM RootStaysCoherent == Spec => []RootCoherent
<1>1. IInv => RootCoherent
  BY DEF IInv, RootStands, RootFits, RootCoherent
<1> QED
  BY <1>1, AlwaysConsistent, PTL

(* A run for one tag changes the files of its package only, also when it dies. *)
THEOREM OnePackageTouched == Spec => OnlyTouchesItsPackage
<1>1. IInv /\ [Next]_vars /\ run.phase # "idle" /\ run.only # All
        => /\ \A path \in Paths : path[1] # run.only => tree'[path] = tree[path]
           /\ root' = root
  <2> SUFFICES ASSUME IInv, [Next]_vars, run.phase # "idle", run.only # All
               PROVE  /\ \A path \in Paths : path[1] # run.only => tree'[path] = tree[path]
                      /\ root' = root
    OBVIOUS
  <2>1. /\ run.phase = "writing" /\ run \in Runs /\ tree \in Trees
        /\ \A path \in run.todo : path \in Paths /\ path[1] = run.only
    BY DEF IInv, TypeOK, Progress, FullRun, Runs, FilesAsked, Files
  <2>2. ASSUME NEW path \in run.todo, WriteFile(path) \/ FormatFails(path)
        PROVE  /\ \A other \in Paths : other[1] # run.only => tree'[other] = tree[other]
               /\ root' = root
    BY <2>1, <2>2 DEF WriteFile, FormatFails, Trees
  <2>3. ASSUME Die
        PROVE  /\ \A other \in Paths : other[1] # run.only => tree'[other] = tree[other]
               /\ root' = root
    BY <2>1, <2>3 DEF Die, Upcoming, Trees
  <2> QED
    BY <2>1, <2>2, <2>3 DEF Next, Start, Clean, Finish, RootWritten, Publish, Commit, vars
<1> QED
  BY <1>1, AlwaysConsistent, PTL DEF Spec, OnlyTouchesItsPackage

(* Nothing stale passes verification, whatever was committed.                *)
THEOREM NothingStaleVerified == Spec => []VerifiedNotStale
<1>1. IInv => VerifiedNotStale
  <2> SUFFICES ASSUME IInv, Verified, NEW path \in There(committed.tree)
               PROVE  /\ committed.root = Uses(newest)
                      /\ committed.tree[path] = Whole(newest)[path]
    BY DEF VerifiedNotStale, Verified, Unmoved
  <2>1. /\ path \in Paths /\ committed.tree[path] # Absent
        /\ committed.root = Uses(newest)
        /\ Regenerated(committed.tree)[path] = committed.tree[path]
    BY DEF Verified, Unmoved, There
  <2>2. path \in Files(newest) /\ committed.tree[path] = Text(newest, path)
    BY <2>1 DEF Regenerated, Cleaned, Without
  <2> QED
    BY <2>1, <2>2 DEF Whole
<1> QED
  BY <1>1, AlwaysConsistent, PTL

(***************************************************************************)
(* No false alarm: what was just generated from the newest snapshot, and   *)
(* committed, passes verification.                                         *)
(***************************************************************************)
Written == FilesAsked(run.from, run.only) \ run.todo

Accepted ==
  /\ run.phase # "idle" =>
       /\ run.from \in Readable
       /\ \A path \in Written : ~Rejected(path)
  /\ run.outcome = "rebuilt" => Generates(run.from)

VInv == IInv /\ Accepted

LEMMA VInvInitially == Init => VInv
BY InitIInv DEF Init, NoRun, VInv, Accepted

LEMMA VInvStep == VInv /\ [Next]_vars => VInv'
<1> SUFFICES ASSUME IInv, Accepted, [Next]_vars PROVE Accepted'
  BY NextIInv DEF VInv
<1>1. ASSUME NEW snapshot \in Snapshots, NEW only \in Tags \cup {All},
             NEW clean \in BOOLEAN, NEW list \in BOOLEAN, Start(snapshot, only, clean, list)
      PROVE  Accepted'
  <2>1. CASE run' = Ended("failed", 1) \/ run' = Ended("listed", 1)
    BY <2>1 DEF Ended, NoRun, Accepted
  <2>2. CASE /\ snapshot \in Readable
             /\ run' = [phase |-> IF Cleans(only, clean) THEN "cleaning" ELSE "writing",
                        outcome |-> "none", from |-> snapshot, only |-> only, clean |-> clean,
                        todo |-> FilesAsked(snapshot, only)]
    BY <2>2 DEF Accepted, Written, FilesAsked, Files, Text
  <2> QED BY <1>1, <2>1, <2>2 DEF Start
<1>2. CASE Clean
  <2>1. run' = [run EXCEPT !.phase = "writing"] /\ run \in Runs /\ run.phase = "cleaning"
    BY <1>2 DEF Clean, IInv, TypeOK
  <2>2. /\ run'.from = run.from /\ run'.only = run.only /\ run'.todo = run.todo
        /\ run'.outcome = run.outcome
    BY <2>1 DEF Runs
  <2> QED BY <2>1, <2>2 DEF Accepted, Written, Rejected, FilesAsked, Files, Text, Generates
<1>3. ASSUME NEW path \in run.todo, WriteFile(path) PROVE Accepted'
  <2>1. /\ run' = [run EXCEPT !.todo = @ \ {path}] /\ run \in Runs
        /\ run.phase = "writing" /\ ~Rejected(path)
    BY <1>3 DEF WriteFile, IInv, TypeOK
  <2>2. /\ run'.from = run.from /\ run'.only = run.only /\ run'.todo = run.todo \ {path}
        /\ run'.outcome = run.outcome
    BY <2>1 DEF Runs
  <2>3. Written' \subseteq Written \cup {path}
    BY <2>2 DEF Written, FilesAsked, Files, Text
  <2> QED BY <2>1, <2>2, <2>3 DEF Accepted, Rejected, Text, Generates, Files
<1>4. CASE Finish
  <2>1. CASE FullRun
    <3>1. /\ run' = Ended("rebuilt", run.from) /\ run.from \in Snapshots
          /\ run.phase = "writing" /\ run.todo = {} /\ run.only = All
      BY <1>4, <2>1 DEF Finish, IInv, TypeOK, Runs, FullRun
    <3>2. Generates(run.from)
      BY <3>1 DEF Accepted, Written, FilesAsked, Generates, Rejected, Text
    <3>3. /\ run'.phase = "idle" /\ run'.from = run.from
      BY <3>1, EndedRun
    <3> QED BY <3>2, <3>3 DEF Accepted, Generates, Files, Text
  <2>2. CASE ~FullRun
    BY <1>4, <2>2 DEF Finish, Ended, NoRun, Accepted
  <2> QED BY <2>1, <2>2
<1>5. CASE Die \/ \E path \in run.todo : FormatFails(path)
  BY <1>5 DEF Die, FormatFails, Ended, NoRun, Accepted
<1>6. CASE Publish \/ Commit \/ UNCHANGED vars
  <2>1. run' = run
    BY <1>6 DEF Publish, Commit, vars
  <2> QED BY <2>1 DEF Accepted, Written, Rejected, FilesAsked, Files, Text, Generates
<1> QED BY <1>1, <1>2, <1>3, <1>4, <1>5, <1>6 DEF Next

(* codegen-verify.yml turns nobody away who did what it asks for: a commit that
   follows a full run from the newest snapshot passes, whatever was on disk or
   committed before, and also where git commit -a left new files out.       *)
FreshCommitPasses ==
  [][Commit /\ run.outcome = "rebuilt" /\ run.from = newest => Verified']_vars

THEOREM FreshCommitsVerified == Spec => FreshCommitPasses
<1>1. ASSUME VInv, Commit, run.outcome = "rebuilt", run.from = newest PROVE Verified'
  <2>1. Generates(newest) /\ tree = Whole(newest) /\ root = Uses(newest)
    BY <1>1 DEF VInv, IInv, SuccessIsWhole, Accepted
  <2>2. newest' = newest
    BY <1>1 DEF Commit
  <2>3. PICK files \in {tree, Tracked(tree)} : committed' = [tree |-> files, root |-> root]
    BY <1>1 DEF Commit
  <2>4. ASSUME NEW path \in There(files)
        PROVE  files[path] = Text(newest, path) /\ path \in Files(newest)
    <3>1. path \in Paths /\ files[path] # Absent /\ files[path] = tree[path]
      BY <2>3, <2>4 DEF There, Tracked, Without
    <3> QED BY <2>1, <3>1 DEF Whole
  <2>5. \A path \in There(files) : Regenerated(files)[path] = files[path]
    BY <2>4 DEF Regenerated, There
  <2>6. committed'.tree = files /\ committed'.root = Uses(newest)
    BY <2>1, <2>3
  <2> QED
    BY <2>1, <2>2, <2>5, <2>6
    DEF Verified, Unmoved, Generates, Regenerated, Cleaned, Without, There, Files, Text, Uses
<1>2. VInv /\ [Next]_vars
        => [Commit /\ run.outcome = "rebuilt" /\ run.from = newest => Verified']_vars
  BY <1>1
<1>3. Spec => []VInv
  BY VInvInitially, VInvStep, PTL DEF Spec
<1> QED BY <1>2, <1>3, PTL DEF Spec, FreshCommitPasses

=============================================================================
