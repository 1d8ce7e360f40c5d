------------------------------ MODULE Generate ------------------------------
(***************************************************************************)
(* The code generator: run of scripts/openapi/GenerateServices/main.go,    *)
(* with Build, Write and WriteRootClient of internal/codegen/generate.go,  *)
(* and the job that checks what is committed,                              *)
(* .github/workflows/codegen-verify.yml.                                   *)
(*                                                                         *)
(* A run removes the generated packages and writes them again file by      *)
(* file, then the root client. It may die at any point, it may be asked    *)
(* for one tag, for an older snapshot, or not to clean, and what is on     *)
(* disk may be committed between runs.                                     *)
(***************************************************************************)
EXTENDS Integers

CONSTANTS
  Tags,         \* the tags any snapshot may use, numbered as Build sorts them
  Kinds,        \* the files of a package: "service" and those that may be empty
  Texts,        \* what a file may hold
  Rendered,     \* of each snapshot, tag and kind, the text of that file, or none;
                \* no file at all where the snapshot does not use the tag
  Readable,     \* the snapshots LoadSpec can decode
  Unformattable,  \* the texts gofmt rejects
  All,          \* no -only
  Absent, Torn, \* no file; what an interrupted write left of one
  MaxCommits, MaxDeaths  \* bounds: commits, and runs that die

Snapshots == DOMAIN Rendered

(* A file of a package, or what Write keeps of it when it cannot be formatted. *)
Paths == Tags \X Kinds \X {"go", "broken"}

ASSUME GenerateAssumption ==
  /\ Tags \subseteq Nat /\ All \notin Tags
  /\ Snapshots \subseteq Nat /\ 1 \in Snapshots
  /\ Rendered \in [Snapshots -> [Tags -> [Kinds -> Texts \cup {Absent}]]]
  /\ \A snapshot \in Snapshots, tag \in Tags, kind \in Kinds :
       Rendered[snapshot][tag][kind] # Absent => Rendered[snapshot][tag]["service"] # Absent
  /\ "service" \in Kinds /\ Readable \subseteq Snapshots
  /\ {Absent, Torn} \cap Texts = {} /\ Absent # Torn
  /\ MaxCommits \in Nat /\ MaxDeaths \in Nat

VARIABLES
  newest,     \* the newest snapshot
  tree,       \* the generated packages on disk: the text of each file
  root,       \* the root client: the packages it names
  committed,  \* the tree and the root that are committed
  run,        \* the latest run
  intact,     \* no run has died or failed since the last full one; history
  commits, deaths

vars == <<newest, tree, root, committed, run, intact, commits, deaths>>

Trees == [Paths -> Texts \cup {Absent, Torn}]
Roots == {Torn} \cup SUBSET Tags
Runs  == [phase : {"idle", "cleaning", "writing"},
          outcome : {"none", "failed", "listed", "added", "rebuilt"},
          from : Snapshots, only : Tags \cup {All}, clean : BOOLEAN, todo : SUBSET Paths]

(***************************************************************************)
(* Build: a package for each tag of a snapshot. A file whose part of the   *)
(* service is empty is not written. Two snapshots may render a file alike: *)
(* its header names the version of the API and nothing of the snapshot.    *)
(***************************************************************************)
Text(snapshot, path) == Rendered[snapshot][path[1]][path[2]]

Files(snapshot) == {path \in Paths : path[3] = "go" /\ Text(snapshot, path) # Absent}

Uses(snapshot) == {tag \in Tags : <<tag, "service", "go">> \in Files(snapshot)}

(* filterTag.                                                               *)
FilesAsked(snapshot, only) == {path \in Files(snapshot) : only \in {All, path[1]}}

Whole(snapshot) ==
  [path \in Paths |-> IF path \in Files(snapshot) THEN Text(snapshot, path) ELSE Absent]

There(files) == {path \in Paths : files[path] # Absent}

Without(files, gone) == [path \in Paths |-> IF path \in gone THEN Absent ELSE files[path]]

FullRun == run.only = All /\ run.clean

NoRun == [phase |-> "idle", outcome |-> "none", from |-> 1, only |-> All,
          clean |-> TRUE, todo |-> {}]

Init ==
  /\ newest = 1
  /\ tree = Whole(1) /\ root = Uses(1)
  /\ committed = [tree |-> tree, root |-> root]
  /\ run = NoRun /\ intact = TRUE
  /\ commits = 0 /\ deaths = 0

-----------------------------------------------------------------------------
(* What is remembered of a run: how it ended, and a full one's snapshot.     *)
Ended(outcome, snapshot) == [NoRun EXCEPT !.outcome = outcome, !.from = snapshot]

Cleans(only, clean) == clean /\ only = All

(* Everything up to the first change on disk: a snapshot that does not decode, a
   tag nobody has, and -list end the run with everything as it was.         *)
Start(snapshot, only, clean, list) ==
  LET todo    == FilesAsked(snapshot, only)
      refused == snapshot \notin Readable \/ (only # All /\ todo = {})
  IN
  /\ run.phase = "idle"
  /\ run' = CASE refused -> Ended("failed", 1)
              [] ~refused /\ list -> Ended("listed", 1)
              [] ~refused /\ ~list ->
                   [phase |-> IF Cleans(only, clean) THEN "cleaning" ELSE "writing",
                    outcome |-> "none", from |-> snapshot, only |-> only, clean |-> clean,
                    todo |-> todo]
  /\ UNCHANGED <<newest, tree, root, committed, intact, commits, deaths>>

\* Mutant of Cleaned: only the packages about to be written are removed.
CleanedOfUsed(files, snapshot) ==
  Without(files, {path \in Paths : path[1] \in Uses(snapshot)})

(* What os.RemoveAll leaves of the packages: nothing, whatever is generated.  *)
Cleaned(files, snapshot) == Without(files, Paths)

Clean ==
  /\ run.phase = "cleaning"
  /\ tree' = Cleaned(tree, run.from)
  /\ run' = [run EXCEPT !.phase = "writing"]
  /\ UNCHANGED <<newest, root, committed, intact, commits, deaths>>

(* Write takes the packages in order; within one, a Go map decides which file is
   next. A file that gofmt rejects is kept under another name and ends the run. *)
Upcoming == {path \in run.todo : \A other \in run.todo : path[1] <= other[1]}

Rejected(path) == Text(run.from, path) \in Unformattable

WriteFile(path) ==
  /\ run.phase = "writing" /\ path \in Upcoming /\ ~Rejected(path)
  /\ tree' = [tree EXCEPT ![path] = Text(run.from, path)]
  /\ run' = [run EXCEPT !.todo = @ \ {path}]
  /\ UNCHANGED <<newest, root, committed, intact, commits, deaths>>

FormatFails(path) ==
  /\ run.phase = "writing" /\ path \in Upcoming /\ Rejected(path)
  /\ tree' = [tree EXCEPT ![<<path[1], path[2], "broken">>] = Text(run.from, path)]
  /\ run' = Ended("failed", 1)
  /\ intact' = FALSE
  /\ UNCHANGED <<newest, root, committed, commits, deaths>>

\* Mutant of RootWritten: the root client is written whatever was asked for.
RootWrittenAlways == {tag \in Uses(run.from) : run.only \in {All, tag}}

(* The root client names every package, so it waits for the full set.       *)
RootWritten == IF run.only = All THEN Uses(run.from) ELSE root

Finish ==
  /\ run.phase = "writing" /\ run.todo = {}
  /\ root' = RootWritten
  /\ run' = IF FullRun THEN Ended("rebuilt", run.from) ELSE Ended("added", 1)
  /\ intact' = (intact \/ FullRun)
  /\ UNCHANGED <<newest, tree, committed, commits, deaths>>

(***************************************************************************)
(* A run dies, or a file cannot be removed or written: RemoveAll has       *)
(* removed some files, a write has left a part of its own.                 *)
(***************************************************************************)
Die ==
  /\ run.phase # "idle"
  /\ deaths < MaxDeaths
  /\ deaths' = deaths + 1
  /\ run' = Ended("failed", 1)
  /\ intact' = FALSE
  /\ \/ UNCHANGED <<tree, root>>
     \/ /\ run.phase = "cleaning"
        /\ \E gone \in SUBSET There(tree) : tree' = Without(tree, gone)
        /\ UNCHANGED root
     \/ /\ run.phase = "writing"
        /\ \E path \in Upcoming : tree' = [tree EXCEPT ![path] = Torn]
        /\ UNCHANGED root
     \/ /\ run.phase = "writing" /\ run.todo = {} /\ run.only = All
        /\ root' = Torn
        /\ UNCHANGED tree
  /\ UNCHANGED <<newest, committed, commits>>

-----------------------------------------------------------------------------
(* A snapshot arrives, committed by whoever collected it.                   *)
Publish ==
  /\ newest + 1 \in Snapshots
  /\ newest' = newest + 1
  /\ UNCHANGED <<tree, root, committed, run, intact, commits, deaths>>

(* A developer commits the working tree, with the files that are new or, as
   git commit -a does, without them.                                        *)
Tracked(files) == Without(files, Paths \ There(committed.tree))

Commit ==
  /\ run.phase = "idle"
  /\ commits < MaxCommits
  /\ commits' = commits + 1
  /\ \E files \in {tree, Tracked(tree)} : committed' = [tree |-> files, root |-> root]
  /\ UNCHANGED <<newest, tree, root, run, intact, deaths>>

(***************************************************************************)
(* codegen-verify.yml: a full run on a checkout of what is committed, then *)
(* git diff, which looks at tracked files alone. Building and testing what *)
(* was just generated is taken to succeed.                                 *)
(***************************************************************************)
Generates(snapshot) ==
  /\ snapshot \in Readable
  /\ \A path \in Files(snapshot) : Text(snapshot, path) \notin Unformattable

Regenerated(files) ==
  LET kept == Cleaned(files, newest) IN
  [path \in Paths |-> IF path \in Files(newest) THEN Text(newest, path) ELSE kept[path]]

Unmoved ==
  LET fresh == Regenerated(committed.tree) IN
  /\ committed.root = Uses(newest)
  /\ \A path \in There(committed.tree) : fresh[path] = committed.tree[path]

Verified == Generates(newest) /\ Unmoved

-----------------------------------------------------------------------------
Next ==
  \/ \E snapshot \in Snapshots, only \in Tags \cup {All}, clean, list \in BOOLEAN :
       snapshot <= newest /\ Start(snapshot, only, clean, list)
  \/ Clean
  \/ \E path \in run.todo : WriteFile(path) \/ FormatFails(path)
  \/ Finish \/ Die
  \/ Publish \/ Commit

Spec == Init /\ [][Next]_vars

(* Every variable has its type.                                             *)
TypeOK ==
  /\ newest \in Snapshots
  /\ tree \in Trees /\ root \in Roots
  /\ committed \in [tree : Trees, root : Roots]
  /\ run \in Runs
  /\ intact \in BOOLEAN
  /\ commits \in 0 .. MaxCommits /\ deaths \in 0 .. MaxDeaths

(* A full run that succeeds leaves exactly the packages of its snapshot, each
   whole, and a root client that names them, whatever earlier runs for one tag,
   of another snapshot or without -clean, or runs that died, had left.       *)
SuccessIsWhole ==
  run.outcome = "rebuilt" => tree = Whole(run.from) /\ root = Uses(run.from)

(* main.go: the root client "is only coherent when the full set has been
   generated". Unless a run has died or failed since the last full one, every
   package it names is there, and it names some snapshot's packages, all.    *)
RootCoherent ==
  intact /\ run.phase = "idle" =>
    /\ \E snapshot \in Snapshots : root = Uses(snapshot)
    /\ \A tag \in root : tree[<<tag, "service", "go">>] \in Texts

(* Looking at one tag with -only leaves every other package, and the root
   client, as they are.                                                     *)
OnlyTouchesItsPackage ==
  [][run.phase # "idle" /\ run.only # All
       => /\ \A path \in Paths : path[1] # run.only => tree'[path] = tree[path]
          /\ root' = root]_vars

(* What passes verification holds nothing stale: no text of an older snapshot,
   nothing torn or unformatted, no file of a package that is gone.           *)
VerifiedNotStale ==
  Verified =>
    /\ committed.root = Uses(newest)
    /\ \A path \in There(committed.tree) :
         committed.tree[path] = Whole(newest)[path]

=============================================================================
