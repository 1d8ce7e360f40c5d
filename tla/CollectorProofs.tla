-------------------------- MODULE CollectorProofs --------------------------
(***************************************************************************)
(* Theorems about Collector, for any specifications, catalogues and bounds *)
(* and both ways of running it.                                            *)
(***************************************************************************)
EXTENDS Collector, TLAPS

LEMMA Start0 == Init => IInv
<1> SUFFICES ASSUME Init PROVE IInv
  OBVIOUS
<1>1. TypeOK
  BY CollectorAssumption DEF Init, TypeOK, NoRun, Runs, Phases, Outcomes, Files
<1>2. RunState /\ NamesUnique /\ SharedComplete
  BY DEF Init, NoRun, RunState, NamesUnique, SharedComplete, Writing, Proposed
<1>3. PullConsistent /\ HasNewest(directory) /\ HasNewest(repository)
  BY DEF Init, PullConsistent, HasNewest, Usable
<1> QED BY <1>1, <1>2, <1>3 DEF IInv

(***************************************************************************)
(* Types.                                                                  *)
(***************************************************************************)
LEMMA WriteType ==
  ASSUME TypeOK, NEW doc \in Files, NEW catalogue \in Catalogues \cup {NoCatalogue},
         Write(doc, catalogue)
  PROVE  directory' \in SUBSET Snapshots
BY DEF Write, TypeOK, Snapshots, Runs

(* While a run has a record of its own, that record is the one it looks up and,
   once it has its files, the baseline.                                     *)
LEMMA OwnIsLatest ==
  ASSUME IInv, Writing, run.phase # "made"
  PROVE  /\ (CHOOSE s \in directory : s.at = run.at) = OwnRecord
         /\ Latest(directory) = OwnRecord
<1>1. /\ OwnRecord \in directory /\ OwnRecord.at = run.at /\ OwnRecord.doc = run.doc
      /\ \A s \in directory \ {OwnRecord} : s.at < run.at
      /\ run.at \in Nat /\ directory \in SUBSET Snapshots
  BY DEF IInv, TypeOK, RunState, OwnRecord, Runs
<1>2. OwnRecord \in Usable(directory)
  BY <1>1, CollectorAssumption DEF IInv, RunState, Writing, Usable
<1>3. \A s \in directory : s.at \in Nat /\ (s = OwnRecord \/ s.at < run.at)
  BY <1>1 DEF Snapshots
<1>4. \A s \in directory : s.at = run.at => s = OwnRecord
  BY <1>1, <1>3
<1>5. \A s \in Usable(directory) : (\A t \in Usable(directory) : t.at <= s.at) => s = OwnRecord
  <2> SUFFICES ASSUME NEW s \in Usable(directory), OwnRecord.at <= s.at
               PROVE  s = OwnRecord
    BY <1>2
  <2> QED BY <1>1, <1>3 DEF Usable
<1>6. \A t \in Usable(directory) : t.at <= OwnRecord.at
  BY <1>1, <1>3 DEF Usable
<1> QED BY <1>1, <1>2, <1>4, <1>5, <1>6 DEF Latest

LEMMA TypeStep == IInv /\ [Next]_vars => TypeOK'
<1> SUFFICES ASSUME IInv, TypeOK, RunState, [Next]_vars PROVE TypeOK'
  BY DEF IInv
<1>1. ASSUME NEW dry \in BOOLEAN, Start(dry) PROVE TypeOK'
  BY <1>1, CollectorAssumption DEF Start, TypeOK, NoRun, Runs, Phases, Outcomes, Files
<1>2. CASE Fetch
  BY <1>2 DEF Fetch, TypeOK, Runs, Phases
<1>3. CASE Compare
  <2>1. CASE End("failed")
    BY <1>3, <2>1 DEF Compare, End, TypeOK, Runs, Phases, Outcomes
  <2>2. CASE End("unchanged")
    BY <1>3, <2>2 DEF Compare, End, TypeOK, Runs, Phases, Outcomes
  <2>3. CASE run' = [run EXCEPT !.phase = IF run.dry THEN "reporting" ELSE "changed"]
    BY <1>3, <2>3 DEF Compare, TypeOK, Runs, Phases
  <2> QED BY <1>3, <2>1, <2>2, <2>3 DEF Compare
<1>4. CASE MakeDirectory
  <2>1. clock' \in Nat
    BY <1>4 DEF MakeDirectory, TypeOK
  <2>2. run' \in Runs
    BY <1>4, <2>1 DEF MakeDirectory, TypeOK, Runs, Phases
  <2>3. directory' \in SUBSET Snapshots
    BY <1>4, <2>1 DEF MakeDirectory, TypeOK, Snapshots, Files
  <2> QED BY <1>4, <2>1, <2>2, <2>3 DEF MakeDirectory, TypeOK
<1>5. CASE WriteSpec
  <2>1. run.doc \in Files /\ run' \in Runs
    BY <1>5 DEF WriteSpec, Step, TypeOK, RunState, Runs, Phases, Files
  <2>2. directory' \in SUBSET Snapshots
    BY <1>5, <2>1, WriteType DEF WriteSpec
  <2> QED BY <1>5, <2>1, <2>2 DEF WriteSpec, Step, TypeOK
<1>6. CASE WriteMetadata
  <2>1. run.doc \in Files /\ run.catalogue \in Catalogues /\ run' \in Runs
    BY <1>6 DEF WriteMetadata, Step, TypeOK, RunState, Runs, Phases, Files
  <2>2. directory' \in SUBSET Snapshots
    BY <1>6, <2>1, WriteType DEF WriteMetadata
  <2> QED BY <1>6, <2>1, <2>2 DEF WriteMetadata, Step, TypeOK
<1>7. CASE WriteBody
  BY <1>7 DEF WriteBody, Step, TypeOK, RunState, Runs, Phases, Files
<1>8. CASE Propose
  <2>1. run' \in Runs
    BY <1>8 DEF Propose, End, TypeOK, Runs, Phases, Outcomes
  <2>2. CASE run.dry \/ ~FreshCheckout
    BY <1>8, <2>1, <2>2 DEF Propose, TypeOK
  <2>3. CASE ~run.dry /\ FreshCheckout
    <3>1. /\ (CHOOSE s \in directory : s.at = run.at) = OwnRecord
          /\ Latest(directory) = OwnRecord
      BY <1>8, <2>3, OwnIsLatest DEF Propose, Writing
    <3>2. OwnRecord \in Snapshots /\ OwnRecord.doc \in Files
      BY <1>8, <2>3 DEF Propose, RunState, Writing, TypeOK, Snapshots
    <3>3. pulls' = pulls \cup {[snapshot |-> OwnRecord, code |-> OwnRecord.doc]}
      BY <1>8, <2>3, <3>1 DEF Propose
    <3>4. pulls' \in SUBSET Pulls
      BY <3>2, <3>3 DEF TypeOK, Pulls
    <3> QED BY <1>8, <2>1, <3>4 DEF Propose, TypeOK
  <2> QED BY <2>2, <2>3
<1>9. CASE Interrupt
  <2>1. directory' \in SUBSET Snapshots
    BY <1>9, WriteType DEF Interrupt, TypeOK, Files
  <2>2. run' \in Runs
    BY <1>9 DEF Interrupt, End, TypeOK, Runs, Phases, Outcomes
  <2>3. interrupts' \in 0 .. MaxInterrupts
    BY <1>9, CollectorAssumption DEF Interrupt, TypeOK
  <2> QED BY <1>9, <2>1, <2>2, <2>3 DEF Interrupt, TypeOK
<1>10. CASE Publish
  BY <1>10, CollectorAssumption DEF Publish, TypeOK
<1>11. ASSUME NEW p \in pulls, Merge(p) PROVE TypeOK'
  BY <1>11 DEF Merge, TypeOK, Pulls
<1>12. CASE UNCHANGED vars
  BY <1>12 DEF vars, TypeOK
<1> QED BY <1>1, <1>2, <1>3, <1>4, <1>5, <1>6, <1>7, <1>8, <1>9, <1>10, <1>11, <1>12 DEF Next, RunStep

(***************************************************************************)
(* The record a run works on.                                              *)
(***************************************************************************)
LEMMA RunStep1 == IInv /\ [Next]_vars => RunState'
<1> SUFFICES ASSUME IInv, TypeOK, RunState, NamesUnique, [Next]_vars PROVE RunState'
  BY DEF IInv
<1>1. ASSUME NEW dry \in BOOLEAN, Start(dry) PROVE RunState'
  BY <1>1 DEF Start, TypeOK, NoRun, RunState, Writing
<1>2. CASE Fetch
  BY <1>2 DEF Fetch, TypeOK, Runs, RunState, Writing
<1>3. CASE Compare
  <2>1. CASE run'.phase = "idle"
    BY <1>3, <2>1 DEF Compare, End, TypeOK, Runs, RunState, Writing
  <2>2. CASE run' = [run EXCEPT !.phase = IF run.dry THEN "reporting" ELSE "changed"]
    BY <1>3, <2>2 DEF Compare, TypeOK, Runs, RunState, Writing
  <2> QED BY <1>3, <2>1, <2>2 DEF Compare, End, TypeOK, Runs
<1>4. CASE MakeDirectory
  <2>1. /\ run'.phase = "made" /\ run'.at = clock' /\ run'.outcome = run.outcome
        /\ run'.doc = run.doc /\ run'.catalogue = run.catalogue /\ run'.dry = run.dry
    BY <1>4 DEF MakeDirectory, TypeOK, Runs
  <2>2. OwnRecord' = [at |-> clock', doc |-> Absent, catalogue |-> NoCatalogue]
    BY <2>1 DEF OwnRecord
  <2>3. directory' = directory \cup {OwnRecord'}
    BY <1>4, <2>2 DEF MakeDirectory
  <2>4. \A s \in directory \cup repository \cup Proposed : s.at < clock'
    <3>1. clock' = clock + 1 /\ clock \in Nat
      BY <1>4 DEF MakeDirectory, TypeOK
    <3>2. \A s \in directory \cup repository \cup Proposed : s.at \in Nat
      BY DEF TypeOK, Snapshots, Pulls, Proposed
    <3> QED BY <3>1, <3>2 DEF NamesUnique
  <2>5. repository' = repository /\ Proposed' = Proposed
    BY <1>4 DEF MakeDirectory, Proposed
  <2> QED BY <1>4, <2>1, <2>2, <2>3, <2>4, <2>5 DEF MakeDirectory, RunState, Writing
<1>5. ASSUME WriteSpec \/ WriteMetadata PROVE RunState'
  <2>1. /\ run'.at = run.at /\ run'.outcome = run.outcome
        /\ run'.doc = run.doc /\ run'.catalogue = run.catalogue /\ run'.dry = run.dry
        /\ run.phase = "made" => run'.phase = "specified"
        /\ run.phase = "specified" => run'.phase = "reporting"
        /\ run.phase \in {"made", "specified"}
    BY <1>5 DEF WriteSpec, WriteMetadata, Step, TypeOK, Runs
  <2>2. directory' = {s \in directory : s.at # run.at} \cup {OwnRecord'}
    BY <1>5, <2>1 DEF WriteSpec, WriteMetadata, Step, Write, OwnRecord
  <2>3. /\ run.at = clock /\ OwnRecord \in directory
        /\ \A s \in (directory \cup repository \cup Proposed) \ {OwnRecord} : s.at < run.at
    BY <2>1 DEF RunState, Writing
  <2>4. repository' = repository /\ Proposed' = Proposed /\ clock' = clock
    BY <1>5 DEF WriteSpec, WriteMetadata, Step, Proposed
  <2>5. OwnRecord \notin repository \cup Proposed
    BY <2>1, CollectorAssumption DEF IInv, SharedComplete, Complete, OwnRecord
  <2>6. \A s \in (directory' \cup repository' \cup Proposed') \ {OwnRecord'} : s.at < run.at
    BY <2>2, <2>3, <2>4, <2>5 DEF OwnRecord
  <2> QED BY <2>1, <2>2, <2>3, <2>4, <2>6 DEF RunState, Writing
<1>7. CASE WriteBody
  BY <1>7 DEF WriteBody, Step, TypeOK, Runs, RunState, Writing, OwnRecord, Proposed
<1>8. CASE Propose
  BY <1>8 DEF Propose, End, TypeOK, Runs, RunState, Writing
<1>9. CASE Interrupt
  BY <1>9 DEF Interrupt, End, TypeOK, Runs, RunState, Writing
<1>10. CASE Publish
  BY <1>10 DEF Publish, RunState, Writing, OwnRecord, Proposed
<1>11. ASSUME NEW p \in pulls, Merge(p) PROVE RunState'
  <2>1. repository' \cup Proposed' \subseteq repository \cup Proposed
    BY <1>11 DEF Merge, Proposed
  <2> QED BY <1>11, <2>1 DEF Merge, RunState, Writing, OwnRecord
<1>12. CASE UNCHANGED vars
  BY <1>12 DEF vars, RunState, Writing, OwnRecord, Proposed
<1> QED BY <1>1, <1>2, <1>3, <1>4, <1>5, <1>7, <1>8, <1>9, <1>10, <1>11, <1>12 DEF Next, RunStep

(***************************************************************************)
(* Names, completeness and what pull requests carry.                       *)
(***************************************************************************)
LEMMA ProposeStep ==
  ASSUME IInv, Propose
  PROVE  \/ pulls' = pulls
         \/ /\ FreshCheckout /\ Complete(OwnRecord) /\ OwnRecord \in directory
            /\ OwnRecord.at = run.at /\ run.at = clock
            /\ \A s \in (repository \cup Proposed) \ {OwnRecord} : s.at < run.at
            /\ pulls' = pulls \cup {[snapshot |-> OwnRecord, code |-> OwnRecord.doc]}
<1>1. CASE run.dry \/ ~FreshCheckout
  BY <1>1 DEF Propose
<1>2. CASE ~run.dry /\ FreshCheckout
  <2>1. Writing /\ run.phase = "described"
    BY <1>2 DEF Propose, Writing
  <2>2. /\ (CHOOSE s \in directory : s.at = run.at) = OwnRecord
        /\ Latest(directory) = OwnRecord
    BY <2>1, OwnIsLatest
  <2>3. pulls' = pulls \cup {[snapshot |-> OwnRecord, code |-> OwnRecord.doc]}
    BY <1>2, <2>2 DEF Propose
  <2>4. Complete(OwnRecord) /\ OwnRecord.at = run.at
    BY <2>1, CollectorAssumption DEF IInv, RunState, OwnRecord, Complete
  <2> QED BY <1>2, <2>1, <2>3, <2>4 DEF IInv, RunState
<1> QED BY <1>1, <1>2

LEMMA ProposedGrows ==
  ASSUME NEW P, NEW p
  PROVE  {q.snapshot : q \in P \cup {p}} = {q.snapshot : q \in P} \cup {p.snapshot}
OBVIOUS

LEMMA NamesStep == IInv /\ [Next]_vars => NamesUnique'
<1> SUFFICES ASSUME IInv, TypeOK, RunState, NamesUnique, [Next]_vars PROVE NamesUnique'
  BY DEF IInv
<1> DEFINE Shared == repository \cup Proposed
<1>a. /\ \A s \in directory : s.at \in Nat
      /\ \A s \in Shared : s.at \in Nat
      /\ clock \in Nat /\ run.at \in Nat
  BY DEF TypeOK, Snapshots, Pulls, Proposed, Runs
<1>1. ASSUME NEW dry \in BOOLEAN, Start(dry) PROVE NamesUnique'
  BY <1>1 DEF Start, NamesUnique, Proposed
<1>2. ASSUME Fetch \/ Compare \/ WriteBody \/ Publish \/ UNCHANGED vars PROVE NamesUnique'
  BY <1>2 DEF Fetch, Compare, WriteBody, Step, Publish, vars, NamesUnique, Proposed
<1>4. CASE MakeDirectory
  <2>1. clock' = clock + 1 /\ Shared' = Shared
        /\ repository' = repository /\ Proposed' = Proposed
    BY <1>4 DEF MakeDirectory, Proposed
  <2>2. \A s \in directory' : s \in directory
                \/ s = [at |-> clock', doc |-> Absent, catalogue |-> NoCatalogue]
    BY <1>4 DEF MakeDirectory
  <2> QED BY <1>a, <2>1, <2>2 DEF NamesUnique
<1>5. ASSUME NEW doc, NEW catalogue, Writing, Write(doc, catalogue),
             UNCHANGED <<repository, pulls, clock>>
      PROVE  NamesUnique'
  <2>1. /\ \A s \in directory' : \/ s \in directory /\ s.at # run.at
                                \/ s = [at |-> run.at, doc |-> doc, catalogue |-> catalogue]
        /\ run.at = clock /\ Shared' = Shared
        /\ repository' = repository /\ Proposed' = Proposed /\ clock' = clock
    BY <1>5 DEF Write, RunState, Proposed
  <2> QED BY <1>a, <2>1 DEF NamesUnique
<1>6. ASSUME WriteSpec \/ WriteMetadata PROVE NamesUnique'
  BY <1>5, <1>6 DEF WriteSpec, WriteMetadata, Step, Writing
<1>8. CASE Propose
  <2>1. directory' = directory /\ repository' = repository /\ clock' = clock
    BY <1>8 DEF Propose
  <2>2. CASE pulls' = pulls
    BY <2>1, <2>2 DEF NamesUnique, Proposed
  <2>3. CASE /\ OwnRecord.at = run.at /\ run.at = clock
             /\ \A s \in (repository \cup Proposed) \ {OwnRecord} : s.at < run.at
             /\ pulls' = pulls \cup {[snapshot |-> OwnRecord, code |-> OwnRecord.doc]}
    <3>1. Proposed' = Proposed \cup {OwnRecord}
      BY <2>3, ProposedGrows DEF Proposed
    <3>2. \A s \in repository' \cup Proposed' : s = OwnRecord \/ (s \in Shared /\ s.at < run.at)
      BY <2>1, <2>3, <3>1
    <3>3. \A s, t \in repository' \cup Proposed' : s.at = t.at => s = t
      BY <1>a, <2>1, <2>3, <3>2 DEF NamesUnique
    <3> QED BY <1>a, <2>1, <2>3, <3>2, <3>3 DEF NamesUnique
  <2> QED BY <1>8, <2>2, <2>3, ProposeStep
<1>9. CASE Interrupt
  <2>1. CASE UNCHANGED directory
    BY <1>9, <2>1 DEF Interrupt, NamesUnique, Proposed
  <2>2. ASSUME run.phase = "made", NEW doc \in {Torn, Garbled}, Write(doc, NoCatalogue)
        PROVE  NamesUnique'
    BY <1>5, <1>9, <2>2 DEF Interrupt, Writing
  <2> QED BY <1>9, <2>1, <2>2 DEF Interrupt
<1>11. ASSUME NEW p \in pulls, Merge(p) PROVE NamesUnique'
  <2>1. repository' \cup Proposed' \subseteq Shared
    BY <1>11 DEF Merge, Proposed
  <2> QED BY <1>11, <2>1 DEF Merge, NamesUnique
<1> QED BY <1>1, <1>2, <1>4, <1>6, <1>8, <1>9, <1>11 DEF Next, RunStep

(* A directory to which a snapshot is added still has a newest one.          *)
LEMMA NewestOfMore ==
  ASSUME NEW S \in SUBSET Snapshots, NEW s \in Snapshots, HasNewest(S)
  PROVE  HasNewest(S \cup {s})
<1>1. \A t \in S \cup {s} : t.at \in Nat
  BY DEF Snapshots
<1>2. Usable(S \cup {s}) = IF s.doc # Absent THEN Usable(S) \cup {s} ELSE Usable(S)
  BY DEF Usable
<1>3. CASE s.doc = Absent
  <2>1. Usable(S \cup {s}) = Usable(S)
    BY <1>2, <1>3
  <2> QED BY <2>1 DEF HasNewest
<1>5. CASE s.doc # Absent /\ Usable(S) = {}
  <2>1. Usable(S \cup {s}) = {s}
    BY <1>2, <1>5, Zenon
  <2>2. s.at <= s.at
    BY <1>1
  <2> QED BY <2>1, <2>2 DEF HasNewest
<1>4. CASE s.doc # Absent /\ Usable(S) # {}
  <2>1. PICK r \in Usable(S) : \A t \in Usable(S) : t.at <= r.at
    BY <1>4 DEF HasNewest
  <2>2. r \in S /\ \A t \in Usable(S) : t \in S
    BY <2>1 DEF Usable
  <2>3. CASE s.at <= r.at
    BY <1>1, <1>2, <1>4, <2>1, <2>3 DEF HasNewest
  <2>4. CASE ~(s.at <= r.at)
    <3>1. \A t \in Usable(S) \cup {s} : t.at <= s.at
      BY <1>1, <2>1, <2>2, <2>4
    <3> QED BY <1>2, <1>4, <3>1 DEF HasNewest
  <2> QED BY <2>3, <2>4
<1> QED BY <1>3, <1>4, <1>5

LEMMA LatestIsNewest ==
  ASSUME NEW S, HasNewest(S), Usable(S) # {}
  PROVE  Latest(S) \in Usable(S) /\ \A t \in Usable(S) : t.at <= Latest(S).at
BY DEF HasNewest, Latest

LEMMA NewestStep == IInv /\ [Next]_vars => HasNewest(directory)' /\ HasNewest(repository)'
<1> SUFFICES ASSUME IInv, TypeOK, RunState, HasNewest(directory), HasNewest(repository), [Next]_vars
             PROVE  HasNewest(directory') /\ HasNewest(repository')
  BY DEF IInv, HasNewest, Usable
<1>1. CASE directory' \in {directory, repository} /\ repository' = repository
  BY <1>1
<1>2. ASSUME Fetch \/ Compare \/ WriteBody \/ Propose \/ Publish \/ UNCHANGED vars
             \/ \E dry \in BOOLEAN : Start(dry)
      PROVE  directory' \in {directory, repository} /\ repository' = repository
  BY <1>2 DEF Fetch, Compare, WriteBody, Step, Propose, Publish, vars, Start
<1>4. CASE MakeDirectory
  <2>1. [at |-> clock', doc |-> Absent, catalogue |-> NoCatalogue] \in Snapshots
    BY <1>4 DEF MakeDirectory, TypeOK, Snapshots, Files
  <2> QED BY <1>4, <2>1, NewestOfMore DEF MakeDirectory, TypeOK
<1>5. ASSUME NEW doc \in Files \ {Absent}, NEW catalogue \in Catalogues \cup {NoCatalogue},
             Writing, Write(doc, catalogue), UNCHANGED repository
      PROVE  HasNewest(directory') /\ HasNewest(repository')
  <2> DEFINE new == [at |-> run.at, doc |-> doc, catalogue |-> catalogue]
  <2>1. \A s \in directory' : s = new \/ (s \in directory \ {OwnRecord} /\ s.at < run.at)
    BY <1>5 DEF Write, RunState, OwnRecord
  <2>2. new \in Usable(directory') /\ run.at \in Nat /\ new.at = run.at
    BY <1>5 DEF Write, Usable, TypeOK, Runs
  <2>3. \A s \in directory' : s.at <= new.at
    BY <2>1, <2>2 DEF TypeOK, Snapshots
  <2>4. HasNewest(directory')
    BY <2>2, <2>3 DEF HasNewest, Usable
  <2> QED BY <1>5, <2>4
<1>6. ASSUME WriteSpec \/ WriteMetadata PROVE HasNewest(directory') /\ HasNewest(repository')
  <2>1. run.doc \in Files \ {Absent} /\ run.catalogue \in Catalogues /\ Writing
    BY <1>6, CollectorAssumption DEF WriteSpec, WriteMetadata, Step, RunState, Files, Writing
  <2> QED BY <1>5, <1>6, <2>1 DEF WriteSpec, WriteMetadata, Step
<1>9. CASE Interrupt
  <2>1. CASE UNCHANGED directory
    BY <1>1, <1>9, <2>1 DEF Interrupt
  <2>2. ASSUME run.phase = "made", NEW doc \in {Torn, Garbled}, Write(doc, NoCatalogue)
        PROVE  HasNewest(directory') /\ HasNewest(repository')
    <3>1. doc \in Files \ {Absent} /\ Writing
      BY <2>2, CollectorAssumption DEF Files, Writing
    <3> QED BY <1>5, <1>9, <2>2, <3>1 DEF Interrupt
  <2> QED BY <1>9, <2>1, <2>2 DEF Interrupt
<1>11. ASSUME NEW p \in pulls, Merge(p) PROVE HasNewest(directory') /\ HasNewest(repository')
  <2>1. p.snapshot \in Snapshots
    BY DEF TypeOK, Pulls
  <2> QED BY <1>11, <2>1, NewestOfMore DEF Merge, TypeOK
<1> QED BY <1>1, <1>2, <1>4, <1>6, <1>9, <1>11 DEF Next, RunStep

LEMMA SharedStep == IInv /\ [Next]_vars => SharedComplete'
<1> SUFFICES ASSUME IInv, TypeOK, RunState, SharedComplete, [Next]_vars PROVE SharedComplete'
  BY DEF IInv
<1> USE DEF Complete
<1>1. ASSUME NEW dry \in BOOLEAN, Start(dry) PROVE SharedComplete'
  BY <1>1 DEF Start, NoRun, SharedComplete, Proposed
<1>2. ASSUME Fetch \/ Compare PROVE SharedComplete'
  BY <1>2 DEF Fetch, Compare, End, TypeOK, Runs, RunState, SharedComplete, Proposed
<1>3. ASSUME WriteBody \/ WriteSpec \/ WriteMetadata \/ MakeDirectory PROVE SharedComplete'
  <2>1. /\ run.phase # "idle" /\ run'.outcome = run.outcome
        /\ run'.phase \notin {"listed", "fetched", "changed"}
        /\ repository' = repository /\ pulls' = pulls
    BY <1>3 DEF WriteBody, WriteSpec, WriteMetadata, MakeDirectory, Step, TypeOK, Runs
  <2> QED BY <2>1 DEF RunState, SharedComplete, Proposed
<1>8. CASE Propose
  <2>1. repository' = repository /\ run'.phase = "idle" /\ run'.outcome = "changed"
    BY <1>8 DEF Propose, End, TypeOK, Runs
  <2>2. CASE pulls' = pulls
    BY <2>1, <2>2 DEF SharedComplete, Proposed
  <2>3. CASE /\ FreshCheckout /\ Complete(OwnRecord)
             /\ pulls' = pulls \cup {[snapshot |-> OwnRecord, code |-> OwnRecord.doc]}
    <3>1. Proposed' = Proposed \cup {OwnRecord}
      BY <2>3, ProposedGrows DEF Proposed
    <3> QED BY <2>1, <2>3, <3>1 DEF SharedComplete
  <2> QED BY <1>8, <2>2, <2>3, ProposeStep
<1>9. CASE Interrupt
  <2>1. run'.phase = "idle" /\ run'.outcome = "failed" /\ repository' = repository /\ pulls' = pulls
    BY <1>9 DEF Interrupt, End, TypeOK, Runs
  <2> QED BY <2>1 DEF SharedComplete, Proposed
<1>10. ASSUME Publish \/ UNCHANGED vars PROVE SharedComplete'
  BY <1>10 DEF Publish, vars, SharedComplete, Proposed
<1>11. ASSUME NEW p \in pulls, Merge(p) PROVE SharedComplete'
  <2>1. /\ repository' \cup Proposed' \subseteq repository \cup Proposed
        /\ directory' = directory /\ run' = run
        /\ FreshCheckout
    BY <1>11 DEF Merge, Proposed, SharedComplete
  <2> QED BY <2>1 DEF SharedComplete
<1> QED BY <1>1, <1>2, <1>3, <1>8, <1>9, <1>10, <1>11 DEF Next, RunStep

LEMMA PullStep == IInv /\ [Next]_vars => PullConsistent'
<1> SUFFICES ASSUME IInv, PullConsistent, [Next]_vars PROVE PullConsistent'
  BY DEF IInv
<1>1. CASE pulls' \subseteq pulls
  BY <1>1 DEF PullConsistent
<1>2. CASE Propose
  BY <1>1, <1>2, ProposeStep DEF PullConsistent
<1>3. [Next]_vars /\ ~Propose => pulls' \subseteq pulls
  BY DEF Next, RunStep, Start, Fetch, Compare, MakeDirectory, WriteSpec, WriteMetadata,
         WriteBody, Step, Interrupt, Publish, Merge, vars
<1> QED BY <1>1, <1>2, <1>3

(* No step but Compare ends a run with the verdict that nothing changed.     *)
LEMMA OnlyCompareReports ==
  ASSUME TypeOK, RunState, [Next]_vars, ~Compare, run'.outcome = "unchanged"
  PROVE  run' = run /\ directory' = directory
<1>1. ASSUME NEW dry \in BOOLEAN, Start(dry) PROVE FALSE
  BY <1>1 DEF Start, NoRun
<1>2. CASE Fetch \/ MakeDirectory
  BY <1>2 DEF Fetch, MakeDirectory, TypeOK, Runs, RunState
<1>3. CASE WriteSpec \/ WriteMetadata \/ WriteBody
  BY <1>3 DEF WriteSpec, WriteMetadata, WriteBody, Step, TypeOK, Runs, RunState
<1>4. CASE Propose \/ Interrupt
  BY <1>4 DEF Propose, Interrupt, End, TypeOK, Runs
<1>5. CASE Publish \/ (\E p \in pulls : Merge(p)) \/ UNCHANGED vars
  BY <1>5 DEF Publish, Merge, vars
<1> QED BY <1>1, <1>2, <1>3, <1>4, <1>5 DEF Next, RunStep

(* The invariant the theorems below rest on.                                *)
THEOREM AlwaysConsistent == Spec => []IInv
<1>1. Init => IInv
  BY Start0
<1>2. IInv /\ [Next]_vars => IInv'
  BY TypeStep, RunStep1, NamesStep, NewestStep, SharedStep, PullStep DEF IInv
<1> QED BY <1>1, <1>2, PTL DEF Spec

(* Every variable of the collector keeps its type.                          *)
THEOREM TypeCorrect == Spec => []TypeOK
<1>1. IInv => TypeOK
  BY DEF IInv
<1> QED BY <1>1, AlwaysConsistent, PTL

(* Interrupted runs and torn writes never reach the repository: the snapshots
   on its main branch are complete.                                         *)
THEOREM RepositoryStaysComplete == Spec => []RepositoryComplete
<1>1. IInv => RepositoryComplete
  BY DEF IInv, SharedComplete, RepositoryComplete
<1> QED BY <1>1, AlwaysConsistent, PTL

(* The code in a pull request of get-openapi-specs.yml is generated from the
   snapshot in it.                                                          *)
THEOREM PullsCarryTheirCode == Spec => []PullConsistent
<1>1. IInv => PullConsistent
  BY DEF IInv
<1> QED BY <1>1, AlwaysConsistent, PTL

(* With fresh checkouts, a run that reports no change has the specification and
   the catalogue it fetched in its baseline.                                *)
THEOREM NothingMissedInCI ==
  ASSUME FreshCheckout
  PROVE  Spec => []NothingMissed
<1>1. Init => NothingMissed
  BY DEF Init, NoRun, NothingMissed
<1>2. IInv /\ NothingMissed /\ [Next]_vars => NothingMissed'
  <2> SUFFICES ASSUME IInv, TypeOK, RunState, NothingMissed, [Next]_vars,
                      run'.outcome = "unchanged"
               PROVE  /\ Latest(directory').doc = run'.doc
                      /\ Latest(directory').catalogue = run'.catalogue
    BY DEF IInv, NothingMissed
  <2>1. CASE run' = run /\ directory' = directory
    BY <2>1 DEF NothingMissed
  <2>2. CASE Compare
    <3>1. /\ ~Changed(directory, run.doc, run.catalogue)
          /\ run'.doc = run.doc /\ run'.catalogue = run.catalogue /\ directory' = directory
      BY <2>2 DEF Compare, End, TypeOK, Runs, RunState
    <3>2. \A s \in directory : Complete(s)
      BY <2>2 DEF Compare, IInv, SharedComplete
    <3>3. Latest(directory) \in directory
      BY <3>1, LatestIsNewest DEF Changed, IInv, Usable
    <3> QED BY <3>1, <3>2, <3>3 DEF Changed, CatalogueDiffers, Complete
  <2> QED BY <2>1, <2>2, OnlyCompareReports
<1> QED BY <1>1, <1>2, AlwaysConsistent, PTL DEF Spec

(* What a write replaces is the run's own record, which is not complete before
   its last file is there.                                                  *)
LEMMA WriteReplacesOwn ==
  ASSUME IInv, run.phase \in {"made", "specified"},
         NEW doc, NEW catalogue, Write(doc, catalogue)
  PROVE  {s \in directory : Complete(s)} \subseteq directory'
<1>1. /\ run.at = clock /\ OwnRecord \in directory /\ OwnRecord.at = run.at
      /\ \A s, t \in directory : s.at = t.at => s = t
  BY DEF IInv, RunState, Writing, NamesUnique, OwnRecord
<1>2. ~Complete(OwnRecord)
  BY CollectorAssumption DEF OwnRecord, Complete
<1>3. \A s \in directory : Complete(s) => s.at # run.at
  BY <1>1, <1>2
<1> QED BY <1>3 DEF Write

(* No step of a run, and no interruption of one, touches a complete snapshot in
   the directory it works in, however often runs are interrupted there.     *)
THEOREM CompleteSnapshotsKept == Spec => SnapshotsImmutable
<1>1. IInv /\ [Next]_vars =>
        [run.phase # "idle" => {s \in directory : Complete(s)} \subseteq directory']_vars
  <2> SUFFICES ASSUME IInv, [Next]_vars, run.phase # "idle"
               PROVE  {s \in directory : Complete(s)} \subseteq directory'
    OBVIOUS
  <2>1. CASE UNCHANGED directory
    BY <2>1
  <2>2. CASE MakeDirectory
    BY <2>2 DEF MakeDirectory
  <2>3. CASE WriteSpec
    BY <2>3, WriteReplacesOwn DEF WriteSpec, Step
  <2>4. CASE WriteMetadata
    BY <2>4, WriteReplacesOwn DEF WriteMetadata, Step
  <2>5. CASE Interrupt
    BY <2>1, <2>5, WriteReplacesOwn DEF Interrupt
  <2>6. ASSUME NEW dry \in BOOLEAN, Start(dry) PROVE FALSE
    BY <2>6 DEF Start
  <2> QED
    BY <2>1, <2>2, <2>3, <2>4, <2>5, <2>6
    DEF Next, RunStep, Fetch, Compare, WriteBody, Propose, Publish, Merge, vars
<1> QED BY <1>1, AlwaysConsistent, PTL DEF Spec, SnapshotsImmutable

(***************************************************************************)
(* Once the newest snapshot is what is published and nothing that differs  *)
(* from it is under way, it stays so until upstream changes: no run, no    *)
(* interruption and no merge takes it back.                                *)
(***************************************************************************)
LEMMA RunStaysCurrent ==
  ASSUME IInv, RunCurrent, [Next]_vars, UNCHANGED upstream
  PROVE  RunCurrent'
<1> USE DEF RunCurrent
<1>0. run \in Runs
  BY DEF IInv, TypeOK
<1>1. ASSUME NEW dry \in BOOLEAN, Start(dry) PROVE RunCurrent'
  BY <1>1 DEF Start, NoRun
<1>2. CASE Fetch
  BY <1>0, <1>2 DEF Fetch, Runs
<1>3. CASE Compare
  BY <1>0, <1>3 DEF Compare, End, Runs
<1>4. ASSUME MakeDirectory \/ WriteSpec \/ WriteMetadata \/ WriteBody PROVE RunCurrent'
  BY <1>0, <1>4 DEF MakeDirectory, WriteSpec, WriteMetadata, WriteBody, Step, Runs
<1>5. CASE Propose \/ Interrupt
  BY <1>0, <1>5 DEF Propose, Interrupt, End, Runs
<1>6. CASE Publish \/ (\E p \in pulls : Merge(p)) \/ UNCHANGED vars
  BY <1>6 DEF Publish, Merge, vars
<1> QED BY <1>1, <1>2, <1>3, <1>4, <1>5, <1>6 DEF Next, RunStep

(* With one more snapshot the newest one is the newest of before or the one
   that was added, which is then newer.                                     *)
LEMMA LatestOfMore ==
  ASSUME NEW S \in SUBSET Snapshots, NEW s \in Snapshots, HasNewest(S), Usable(S) # {},
         \A r, t \in S \cup {s} : r.at = t.at => r = t
  PROVE  /\ Usable(S \cup {s}) # {}
         /\ Latest(S \cup {s}).at >= Latest(S).at
         /\ \/ Latest(S \cup {s}) = Latest(S)
            \/ Latest(S \cup {s}) = s /\ s.at > Latest(S).at
<1>1. /\ Usable(S) \subseteq Usable(S \cup {s}) /\ Usable(S \cup {s}) \subseteq S \cup {s}
      /\ Usable(S \cup {s}) \subseteq Usable(S) \cup {s} /\ Usable(S) \subseteq S
  BY DEF Usable
<1>2. /\ Latest(S) \in Usable(S)
      /\ \A t \in Usable(S) : t.at <= Latest(S).at
  BY LatestIsNewest
<1>3. Usable(S \cup {s}) # {}
  BY <1>1, <1>2
<1>4. /\ Latest(S \cup {s}) \in Usable(S \cup {s})
      /\ \A t \in Usable(S \cup {s}) : t.at <= Latest(S \cup {s}).at
  BY <1>3, NewestOfMore, LatestIsNewest
<1>5. \A t \in S \cup {s} : t.at \in Nat
  BY DEF Snapshots
<1>6. Latest(S).at <= Latest(S \cup {s}).at /\ Latest(S \cup {s}).at \in Nat /\ Latest(S).at \in Nat
  BY <1>1, <1>2, <1>4, <1>5
<1>7. CASE Latest(S \cup {s}).at = Latest(S).at
  BY <1>1, <1>2, <1>3, <1>4, <1>6, <1>7
<1>8. CASE Latest(S \cup {s}).at > Latest(S).at
  <2>1. Latest(S \cup {s}) \notin Usable(S)
    BY <1>2, <1>6, <1>8
  <2>2. Latest(S \cup {s}) = s
    BY <1>1, <1>4, <2>1
  <2> QED BY <1>3, <1>6, <1>8, <2>2
<1>9. \/ Latest(S \cup {s}).at = Latest(S).at
      \/ Latest(S \cup {s}).at > Latest(S).at
  BY <1>6
<1> QED BY <1>7, <1>8, <1>9

(* With fresh checkouts: a run proposes what it fetched, and a merge brings the
   newest snapshot of before or one that carries what is published.         *)
LEMMA StaysCaughtUpInCI ==
  ASSUME IInv, FreshCheckout, CaughtUp, [Next]_vars, UNCHANGED upstream
  PROVE  CaughtUp'
<1>1. /\ Usable(repository) # {} /\ Current(Latest(repository)) /\ RunCurrent
      /\ \A p \in pulls : p.snapshot.at > Latest(repository).at => Current(p.snapshot)
  BY DEF CaughtUp, Home, NothingUnderWay
<1>2. RunCurrent'
  BY <1>1, RunStaysCurrent
<1> SUFFICES /\ Usable(repository') # {} /\ Current(Latest(repository'))
             /\ \A p \in pulls' : p.snapshot.at > Latest(repository').at => Current(p.snapshot)
  BY <1>2 DEF CaughtUp, Home, NothingUnderWay, Current
<1>3. CASE repository' = repository /\ pulls' = pulls
  BY <1>1, <1>3
<1>4. CASE Propose
  <2>1. repository' = repository /\ run.phase = "described"
    BY <1>4 DEF Propose
  <2>2. Current(OwnRecord)
    BY <1>1, <2>1 DEF OwnRecord, RunCurrent, Current
  <2>3. \A p \in pulls' : p \in pulls \/ p.snapshot = OwnRecord
    BY <1>4, ProposeStep
  <2> QED BY <1>1, <2>1, <2>2, <2>3
<1>5. ASSUME NEW p \in pulls, Merge(p)
      PROVE  /\ Usable(repository') # {} /\ Current(Latest(repository'))
             /\ \A q \in pulls' : q.snapshot.at > Latest(repository').at => Current(q.snapshot)
  <2>1. repository' = repository \cup {p.snapshot} /\ pulls' \subseteq pulls
    BY <1>5 DEF Merge
  <2>2. /\ repository \in SUBSET Snapshots /\ HasNewest(repository)
        /\ \A q \in pulls : q.snapshot \in Snapshots
    BY DEF IInv, TypeOK, Pulls
  <2>3. \A r, t \in repository \cup {p.snapshot} : r.at = t.at => r = t
    BY DEF IInv, NamesUnique, Proposed
  <2>4. /\ Usable(repository') # {}
        /\ Latest(repository').at >= Latest(repository).at
        /\ \/ Latest(repository') = Latest(repository)
           \/ Latest(repository') = p.snapshot /\ p.snapshot.at > Latest(repository).at
    BY <1>1, <2>1, <2>2, <2>3, LatestOfMore
  <2>5. Current(Latest(repository'))
    BY <1>1, <2>4
  <2>6. Latest(repository).at \in Nat /\ Latest(repository').at \in Nat
    BY <1>1, <2>2, <2>4, LatestIsNewest DEF Usable, Snapshots
  <2>7. \A q \in pulls' : q.snapshot.at > Latest(repository').at => Current(q.snapshot)
    <3> SUFFICES ASSUME NEW q \in pulls', q.snapshot.at > Latest(repository').at
                 PROVE  Current(q.snapshot)
      OBVIOUS
    <3>1. q \in pulls /\ q.snapshot.at \in Nat
      BY <2>1, <2>2 DEF Snapshots
    <3>2. q.snapshot.at > Latest(repository).at
      BY <2>4, <2>6, <3>1
    <3> QED BY <1>1, <3>1, <3>2
  <2> QED BY <2>4, <2>5, <2>7
<1> QED
  BY <1>3, <1>4, <1>5
  DEF Next, RunStep, Start, Fetch, Compare, MakeDirectory, WriteSpec, WriteMetadata,
      WriteBody, Step, Interrupt, Publish, vars

(* In a shared directory: a run finds what it fetched in the baseline, so that
   it reports no change, and only a run that saw one writes.                *)
LEMMA StaysCaughtUpLocally ==
  ASSUME IInv, ~FreshCheckout, CaughtUp, [Next]_vars, UNCHANGED upstream
  PROVE  CaughtUp'
<1>1. /\ Usable(directory) # {} /\ Current(Latest(directory)) /\ RunCurrent
      /\ run.phase # "changed" /\ ~Writing /\ pulls = {}
      /\ run \in Runs
  BY DEF CaughtUp, Home, NothingUnderWay, IInv, SharedComplete, TypeOK
<1>2. RunCurrent'
  BY <1>1, RunStaysCurrent
<1> SUFFICES directory' = directory /\ run'.phase # "changed" /\ ~Writing'
  BY <1>1, <1>2 DEF CaughtUp, Home, NothingUnderWay, Current
<1>3. ASSUME NEW dry \in BOOLEAN, Start(dry)
      PROVE  directory' = directory /\ run'.phase # "changed" /\ ~Writing'
  BY <1>3 DEF Start, NoRun, Writing
<1>4. CASE Fetch
  BY <1>1, <1>4 DEF Fetch, Writing, Runs
<1>5. CASE Compare
  <2>1. ~Changed(directory, run.doc, run.catalogue)
    BY <1>1, <1>5 DEF Compare, Changed, CatalogueDiffers, Current, RunCurrent
  <2>2. run'.phase = "idle" /\ directory' = directory
    BY <1>1, <1>5, <2>1 DEF Compare, End, Runs
  <2> QED BY <2>2 DEF Writing
<1>6. CASE MakeDirectory \/ WriteSpec \/ WriteMetadata
  BY <1>1, <1>6 DEF MakeDirectory, WriteSpec, WriteMetadata, Step, Writing
<1>7. CASE WriteBody
  BY <1>1, <1>7 DEF WriteBody, Step, Writing, Runs
<1>8. CASE Propose
  BY <1>1, <1>8 DEF Propose, End, Writing, Runs
<1>9. CASE Interrupt
  BY <1>1, <1>9 DEF Interrupt, End, Writing, Runs
<1>10. CASE Publish
  BY <1>1, <1>10 DEF Publish, Writing
<1>11. ASSUME NEW p \in pulls, Merge(p) PROVE FALSE
  BY <1>1
<1>12. CASE UNCHANGED vars
  BY <1>1, <1>12 DEF vars, Writing
<1> QED
  BY <1>3, <1>4, <1>5, <1>6, <1>7, <1>8, <1>9, <1>10, <1>11, <1>12 DEF Next, RunStep

(* The half of CatchesUp that needs no fairness: from a state that is caught up,
   the newest snapshot stays what is published for as long as upstream stays as
   it is, whatever runs are started, interrupted or merged.                 *)
THEOREM CaughtUpStays == Spec => StaysCaughtUp
<1>1. IInv /\ [Next]_vars => [KeepsUp]_vars
  BY StaysCaughtUpInCI, StaysCaughtUpLocally DEF KeepsUp
<1> QED BY <1>1, AlwaysConsistent, PTL DEF Spec, StaysCaughtUp

=============================================================================
