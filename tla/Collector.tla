----------------------------- MODULE Collector -----------------------------
(***************************************************************************)
(* The collector of OpenAPI specifications: run and emit of                *)
(* scripts/openapi/GetOpenAPISpecs/main.go over the snapshot directory of  *)
(* internal/openapi/snapshot.go, with the change detection of diff.go.     *)
(*                                                                         *)
(* It runs again and again, and any run may be interrupted. Either every   *)
(* run starts from a fresh checkout and reaches the repository by a pull   *)
(* request, as in .github/workflows/get-openapi-specs.yml, or the runs     *)
(* share one working directory, as on a developer's machine.               *)
(*                                                                         *)
(* A directory of snapshots is a set of records; the names of its entries  *)
(* carry the time they were written, and the clock moves between writes.   *)
(***************************************************************************)
EXTENDS Integers, FiniteSets

CONSTANTS
  Docs,            \* specifications upstream may publish
  Catalogues,      \* catalogues it may publish: sets of entries
  Unified,         \* the entry of the specification that is collected
  Absent, Torn, Garbled,  \* no api.yaml; one that an interrupted write left,
                   \* which still decodes, or does not
  NoCatalogue,     \* no metadata.json, or one that does not decode
  FreshCheckout,   \* whether each run starts from a checkout of the repository
  MaxChanges, MaxInterrupts, MaxPulls  \* bounds: upstream changes, interrupted
                   \* runs, and pull requests open when a run starts

ASSUME CollectorAssumption ==
  /\ {Absent, Torn, Garbled} \cap Docs = {}
  /\ Absent # Torn /\ Absent # Garbled
  /\ \A c \in Catalogues : c # {}
  /\ NoCatalogue \notin Catalogues
  /\ FreshCheckout \in BOOLEAN
  /\ MaxChanges \in Nat /\ MaxInterrupts \in Nat /\ MaxPulls \in Nat

VARIABLES
  upstream,    \* what is published: a specification and a catalogue
  repository,  \* the snapshots on the main branch
  directory,   \* the snapshots in the directory a run works in
  pulls,       \* open pull requests: a snapshot, and what the code in it was
               \* generated from
  body,        \* what the pull request body on disk describes
  run,         \* the latest run
  clock, changes, interrupts

vars == <<upstream, repository, directory, pulls, body, run, clock, changes, interrupts>>

Files     == Docs \cup {Absent, Torn, Garbled}
Snapshots == [at : Nat, doc : Files, catalogue : Catalogues \cup {NoCatalogue}]
Pulls     == [snapshot : Snapshots, code : Files]

Phases   == {"idle", "listed", "fetched", "changed", "made", "specified", "reporting",
             "described"}
Outcomes == {"none", "failed", "unchanged", "changed"}
Runs     == [phase : Phases, outcome : Outcomes, dry : BOOLEAN, at : Nat,
             doc : Docs \cup {Absent}, catalogue : Catalogues \cup {NoCatalogue}]

NoRun == [phase |-> "idle", outcome |-> "none", dry |-> FALSE, at |-> 0,
          doc |-> Absent, catalogue |-> NoCatalogue]

Init ==
  /\ upstream \in [doc : Docs, catalogue : Catalogues]
  /\ repository = {} /\ directory = {} /\ pulls = {}
  /\ body = Absent /\ run = NoRun
  /\ clock = 0 /\ changes = 0 /\ interrupts = 0

(***************************************************************************)
(* LatestSnapshot: a directory without a readable api.yaml is skipped, and *)
(* the newest of the others is the baseline.                               *)
(***************************************************************************)
Usable(snapshots) == {s \in snapshots : s.doc # Absent}

\* Mutant of Latest: the order of the sort is reversed.
Oldest(snapshots) ==
  CHOOSE s \in Usable(snapshots) : \A t \in Usable(snapshots) : s.at <= t.at

Latest(snapshots) ==
  CHOOSE s \in Usable(snapshots) : \A t \in Usable(snapshots) : t.at <= s.at

\* Mutant of CatalogueDiffers: only entries that are new upstream count.
CatalogueGrew(previous, current) == previous # NoCatalogue /\ ~(current \subseteq previous)

(* Entries added or removed, when there is a catalogue to compare with.     *)
CatalogueDiffers(previous, current) == previous # NoCatalogue /\ previous # current

Changed(snapshots, doc, catalogue) ==
  \/ Usable(snapshots) = {}
  \/ Latest(snapshots).doc # doc
  \/ CatalogueDiffers(Latest(snapshots).catalogue, catalogue)

(***************************************************************************)
(* One run. The catalogue and the specification are fetched one after the  *)
(* other, so upstream may change in between.                               *)
(***************************************************************************)
Start(dry) ==
  /\ run.phase = "idle"
  /\ FreshCheckout => Cardinality(pulls) < MaxPulls
  /\ directory' = IF FreshCheckout THEN repository ELSE directory
  /\ run' = [NoRun EXCEPT !.dry = dry, !.catalogue = upstream.catalogue,
               !.phase   = IF Unified \in upstream.catalogue THEN "listed" ELSE "idle",
               !.outcome = IF Unified \in upstream.catalogue THEN "none" ELSE "failed"]
  /\ body' = IF FreshCheckout THEN Absent ELSE body
  /\ UNCHANGED <<upstream, repository, pulls, clock, changes, interrupts>>

Step(from, to) ==
  /\ run.phase = from
  /\ run' = [run EXCEPT !.phase = to]
  /\ UNCHANGED <<upstream, repository, pulls, changes, interrupts>>

End(outcome) == run' = [run EXCEPT !.phase = "idle", !.outcome = outcome]

Fetch ==
  /\ run.phase = "listed"
  /\ run' = [run EXCEPT !.phase = "fetched", !.doc = upstream.doc]
  /\ UNCHANGED <<upstream, repository, directory, pulls, body, clock, changes, interrupts>>

BaselineGarbled == Usable(directory) # {} /\ Latest(directory).doc = Garbled

(* loadPrevious and Compare. The baseline is decoded before it is compared.  *)
Compare ==
  /\ run.phase = "fetched"
  /\ IF BaselineGarbled THEN End("failed")
     ELSE IF ~Changed(directory, run.doc, run.catalogue) THEN End("unchanged")
     ELSE run' = [run EXCEPT !.phase = IF run.dry THEN "reporting" ELSE "changed"]
  /\ UNCHANGED <<upstream, repository, directory, pulls, body, clock, changes, interrupts>>

\* Mutant of MakeDirectory: the directory is named after the version alone.
ReuseDirectory ==
  /\ run.phase = "changed"
  /\ clock' = 1
  /\ run' = [run EXCEPT !.phase = "made", !.at = 1]
  /\ directory' = {s \in directory : s.at # 1}
                    \cup {[at |-> 1, doc |-> Absent, catalogue |-> NoCatalogue]}
  /\ UNCHANGED <<upstream, repository, pulls, body, changes, interrupts>>

(* Write: a directory named after the time, api.yaml, then metadata.json.    *)
MakeDirectory ==
  /\ run.phase = "changed"
  /\ clock' = clock + 1
  /\ run' = [run EXCEPT !.phase = "made", !.at = clock']
  /\ directory' = directory \cup {[at |-> clock', doc |-> Absent, catalogue |-> NoCatalogue]}
  /\ UNCHANGED <<upstream, repository, pulls, body, changes, interrupts>>

Write(doc, catalogue) ==
  directory' = {s \in directory : s.at # run.at}
                 \cup {[at |-> run.at, doc |-> doc, catalogue |-> catalogue]}

WriteSpec ==
  /\ Step("made", "specified")
  /\ Write(run.doc, NoCatalogue)
  /\ UNCHANGED <<body, clock>>

\* Mutant of WriteMetadata: a failed write of metadata.json is ignored.
WriteMetadataIgnoringErrors ==
  /\ Step("specified", "reporting")
  /\ directory' = directory \/ Write(run.doc, run.catalogue)
  /\ UNCHANGED <<body, clock>>

WriteMetadata ==
  /\ Step("specified", "reporting")
  /\ Write(run.doc, run.catalogue)
  /\ UNCHANGED <<body, clock>>

(* emit: the body of the pull request, then the outputs of the workflow.     *)
WriteBody ==
  /\ Step("reporting", "described")
  /\ body' = run.doc
  /\ UNCHANGED <<directory, clock>>

(* The workflow regenerates the code from the newest snapshot and opens a pull
   request with both. A failed build or test there is an interruption.      *)
Propose ==
  /\ run.phase = "described"
  /\ End("changed")
  /\ pulls' = IF run.dry \/ ~FreshCheckout THEN pulls
              ELSE pulls \cup {[snapshot |-> CHOOSE s \in directory : s.at = run.at,
                                code |-> Latest(directory).doc]}
  /\ UNCHANGED <<upstream, repository, directory, body, clock, changes, interrupts>>

(***************************************************************************)
(* A run dies, or a fetch or a write fails: the process ends with what is  *)
(* on disk. A write that was under way may leave a part of its file.       *)
(***************************************************************************)
Interrupt ==
  /\ run.phase # "idle"
  /\ interrupts < MaxInterrupts
  /\ interrupts' = interrupts + 1
  /\ End("failed")
  /\ \/ UNCHANGED directory
     \/ run.phase = "made" /\ \E doc \in {Torn, Garbled} : Write(doc, NoCatalogue)
  /\ UNCHANGED <<upstream, repository, pulls, body, clock, changes>>

Publish ==
  /\ changes < MaxChanges
  /\ changes' = changes + 1
  /\ upstream' \in [doc : Docs, catalogue : Catalogues]
  /\ UNCHANGED <<repository, directory, pulls, body, run, clock, interrupts>>

(* Maintainers merge pull requests when they like, in the order they like.  *)
Merge(p) ==
  /\ p \in pulls
  /\ pulls' = pulls \ {p}
  /\ repository' = repository \cup {p.snapshot}
  /\ UNCHANGED <<upstream, directory, body, run, clock, changes, interrupts>>

RunStep ==
  Fetch \/ Compare \/ MakeDirectory \/ WriteSpec \/ WriteMetadata \/ WriteBody \/ Propose

Next ==
  \/ \E dry \in BOOLEAN : Start(dry)
  \/ RunStep \/ Interrupt \/ Publish
  \/ \E p \in pulls : Merge(p)

Spec == Init /\ [][Next]_vars

(* A run goes on by itself, the schedule starts a run that is not dry again and
   again whatever is started by hand in between, and pull requests are merged. *)
FairSpec ==
  /\ Spec
  /\ WF_vars(RunStep)
  /\ SF_vars(Start(FALSE))
  /\ WF_vars(\E p \in pulls : Merge(p))

-----------------------------------------------------------------------------
(* Every variable has its type.                                             *)
TypeOK ==
  /\ upstream \in [doc : Docs, catalogue : Catalogues]
  /\ repository \in SUBSET Snapshots /\ directory \in SUBSET Snapshots
  /\ pulls \in SUBSET Pulls
  /\ body \in Files
  /\ run \in Runs
  /\ clock \in Nat /\ changes \in 0 .. MaxChanges /\ interrupts \in 0 .. MaxInterrupts

Complete(s) == s.doc \in Docs /\ s.catalogue # NoCatalogue

(* Whatever is interrupted and however upstream changes during a run, what
   reaches the repository is complete: a specification as it was published
   and the catalogue to compare the next one with.                          *)
RepositoryComplete == \A s \in repository : Complete(s)

(* A pull request carries code that was generated from its own snapshot.    *)
PullConsistent == \A p \in pulls : p.code = p.snapshot.doc

(* "Snapshots are immutable": a run leaves the complete snapshots it finds as
   they are.                                                                *)
SnapshotsImmutable ==
  [][run.phase # "idle" => {s \in directory : Complete(s)} \subseteq directory']_vars

(* A run that reports no change has found both the specification and the
   catalogue it fetched in the baseline: nothing new goes by unnoticed.     *)
NothingMissed ==
  run.outcome = "unchanged" =>
    LET baseline == Latest(directory) IN
      baseline.doc = run.doc /\ baseline.catalogue = run.catalogue

(* What makes these inductive: the run works on a record of its own, newer than
   all others, whose files are those its phase says; names are unique and
   one of them is the newest; and what a checkout brings, or a pull request
   carries, is complete.                                                    *)
Proposed == {p.snapshot : p \in pulls}

Writing ==
  \/ run.phase \in {"made", "specified"}
  \/ run.phase \in {"reporting", "described"} /\ ~run.dry

OwnRecord ==
  [at |-> run.at,
   doc |-> IF run.phase = "made" THEN Absent ELSE run.doc,
   catalogue |-> IF run.phase \in {"made", "specified"} THEN NoCatalogue ELSE run.catalogue]

RunState ==
  /\ run.phase # "idle" => run.outcome = "none" /\ run.catalogue \in Catalogues
  /\ run.phase \notin {"idle", "listed"} => run.doc \in Docs
  /\ run.phase = "changed" => ~run.dry
  /\ Writing => /\ run.at = clock
                /\ OwnRecord \in directory
                /\ \A s \in (directory \cup repository \cup Proposed) \ {OwnRecord} : s.at < run.at

NamesUnique ==
  /\ \A s \in directory \cup repository \cup Proposed : s.at <= clock
  /\ \A s, t \in directory : s.at = t.at => s = t
  /\ \A s, t \in repository \cup Proposed : s.at = t.at => s = t

HasNewest(snapshots) ==
  Usable(snapshots) # {} =>
    \E s \in Usable(snapshots) : \A t \in Usable(snapshots) : t.at <= s.at

SharedComplete ==
  /\ ~FreshCheckout => repository = {} /\ pulls = {}
  /\ \A s \in repository \cup Proposed : Complete(s)
  /\ (/\ FreshCheckout
      /\ run.phase \in {"listed", "fetched", "changed"} \/ run.outcome = "unchanged")
       => \A s \in directory : Complete(s)

IInv ==
  /\ TypeOK /\ RunState /\ NamesUnique
  /\ HasNewest(directory) /\ HasNewest(repository)
  /\ SharedComplete /\ PullConsistent

(* When upstream stays as it is, with the specification listed, and runs stop
   being interrupted, the newest snapshot ends up being what is published, and
   stays so.                                                                *)
Home == IF FreshCheckout THEN repository ELSE directory

UpToDate == Usable(Home) # {} /\ Latest(Home).doc = upstream.doc

CatchesUp ==
  <>[](Unified \in upstream.catalogue)
    => <>[](UpToDate /\ Latest(Home).catalogue = upstream.catalogue)

(* Caught up: the newest snapshot is what is published, and so is what the run
   has fetched so far and what any pull request carries that would become the
   newest; in a shared directory no run has seen a change.                  *)
Current(s) == s.doc = upstream.doc /\ s.catalogue = upstream.catalogue

RunCurrent ==
  /\ run.phase # "idle" => run.catalogue = upstream.catalogue
  /\ run.phase \notin {"idle", "listed"} => run.doc = upstream.doc

NothingUnderWay ==
  IF FreshCheckout
    THEN \A p \in pulls : p.snapshot.at > Latest(repository).at => Current(p.snapshot)
    ELSE run.phase # "changed" /\ ~Writing

CaughtUp ==
  /\ Usable(Home) # {} /\ Current(Latest(Home))
  /\ RunCurrent /\ NothingUnderWay

(* Older pull requests that are merged late, runs that find nothing and runs that
   die do not undo that: it lasts until upstream changes.                   *)
KeepsUp == CaughtUp /\ UNCHANGED upstream => CaughtUp'

StaysCaughtUp == [][KeepsUp]_vars

(* snapshot.go, LatestSnapshot: a directory that "is not a usable baseline" is
   skipped "rather than failing the whole run", so that what an interrupted
   run left behind does not keep the later ones from catching up.           *)
Recovers == <>[]UpToDate

=============================================================================
