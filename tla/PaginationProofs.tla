-------------------------- MODULE PaginationProofs --------------------------
(***************************************************************************)
(* Theorems about Pagination, for any pages and links between them, any    *)
(* default and any bound a caller may set.                                 *)
(***************************************************************************)
EXTENDS Pagination, TLAPS

LEMMA Constants == First \in Pages /\ NoPage \notin Pages /\ DefaultMaxPages \in Nat \ {0}
BY PaginationAssumption

(***************************************************************************)
(* The inductive invariant. While the walk goes on, the page it is at is   *)
(* the one the last page walked links to, and it has asked once for every  *)
(* page walked and for the answer at hand.                                 *)
(***************************************************************************)
AtNextPage ==
  pc \in {"asking", "answered"} =>
    target = IF Len(walked) = 0 THEN First ELSE chain[walked[Len(walked)].page]

AskedOncePerPage ==
  /\ pc = "asking" => asked = Len(walked) /\ Len(walked) <= MaxPages
  /\ pc = "answered" => asked = Len(walked) + 1 /\ Len(walked) < MaxPages
  /\ pc = "complete" => asked = Len(walked)
  /\ asked <= MaxPages

IInv ==
  /\ TypeOK /\ WalksTheChain /\ AtNextPage /\ AskedOncePerPage
  /\ CompleteForAReason
  /\ MergedOnceInOrder

LEMMA MaxPagesType == ASSUME TypeOK PROVE MaxPages \in Nat \ {0}
BY Constants DEF MaxPages, TypeOK

LEMMA Initially == Init => IInv
<1> SUFFICES ASSUME Init PROVE IInv
  OBVIOUS
<1>1. bound \in Nat /\ Shapes \subseteq AllShapes
  BY PaginationAssumption DEF Init
<1>2. TypeOK
  <2>1. walked \in Seq([page : Pages, items : BOOLEAN]) /\ items \in Seq(Pages) /\ asked = 0
    BY DEF Init
  <2>2. pc \in {"asking", "answered", "complete", "error"} /\ shape \in AllShapes
    BY DEF Init, AllShapes
  <2> QED BY <1>1, <2>1, <2>2, Constants DEF Init, TypeOK
<1>3. MergedOnceInOrder
  <2>1. DOMAIN items = {} /\ StepsWithItems = {}
    BY DEF Init, StepsWithItems
  <2>2. << >> \in [{} -> {}]
    OBVIOUS
  <2> QED BY <2>1, <2>2 DEF MergedOnceInOrder
<1> QED
  BY <1>2, <1>3, MaxPagesType
  DEF Init, IInv, WalksTheChain, AtNextPage, AskedOncePerPage, CompleteForAReason

(* What the end of an iteration adds to the walk.                           *)
LEMMA MergeWalks ==
  ASSUME IInv, pc = "answered", Merge, UNCHANGED chain
  PROVE  /\ walked' \in Seq([page : Pages, items : BOOLEAN]) /\ items' \in Seq(Pages)
         /\ Len(walked') = Len(walked) + 1 /\ walked'[Len(walked')].page = target
         /\ WalksTheChain'
<1> DEFINE step == [page |-> target, items |-> HasItems(shape)]
<1>1. step \in [page : Pages, items : BOOLEAN] /\ step.page = target
  BY DEF IInv, TypeOK, HasItems
<1>2. walked' = Append(walked, step) /\ walked \in Seq([page : Pages, items : BOOLEAN])
  BY DEF Merge, IInv, TypeOK
<1> HIDE DEF step
<1>3. /\ walked' \in Seq([page : Pages, items : BOOLEAN])
      /\ Len(walked') = Len(walked) + 1 /\ Len(walked) \in Nat
      /\ walked'[Len(walked')] = step
      /\ \A i \in 1 .. Len(walked) : walked'[i] = walked[i]
  BY <1>1, <1>2
<1>4. items' \in Seq(Pages)
  BY DEF Merge, IInv, TypeOK
<1>5. WalksTheChain'
  <2>1. walked'[1].page = First
    BY <1>1, <1>3 DEF IInv, WalksTheChain, AtNextPage
  <2>2. ASSUME NEW i \in 1 .. Len(walked') - 1
        PROVE  walked'[i + 1].page = chain[walked'[i].page]
    <3>1. CASE i = Len(walked)
      BY <1>1, <1>3, <2>2, <3>1 DEF IInv, AtNextPage
    <3>2. CASE i # Len(walked)
      BY <1>3, <2>2, <3>2 DEF IInv, WalksTheChain
    <3> QED BY <3>1, <3>2
  <2> QED BY <2>1, <2>2 DEF WalksTheChain
<1> QED BY <1>1, <1>3, <1>4, <1>5

(* A page that brings items adds a step that does, and its items, at the end:
   the map from what is merged to those steps is extended by that pair.     *)
LEMMA MergeKeepsOrder ==
  ASSUME IInv, pc = "answered", Merge
  PROVE  MergedOnceInOrder'
<1> DEFINE step == [page |-> target, items |-> HasItems(shape)]
           n == Len(items)
           w == Len(walked)
<1>1. /\ items \in Seq(Pages) /\ walked \in Seq([page : Pages, items : BOOLEAN])
      /\ step \in [page : Pages, items : BOOLEAN] /\ target \in Pages
      /\ step.page = target /\ step.items = HasItems(shape)
  BY DEF IInv, TypeOK, HasItems
<1>2. /\ walked' = Append(walked, step)
      /\ items' = IF HasItems(shape) THEN Append(items, target) ELSE items
  BY DEF Merge
<1> HIDE DEF step
<1>3. /\ n \in Nat /\ DOMAIN items = 1 .. n
      /\ w \in Nat /\ DOMAIN walked = 1 .. w /\ DOMAIN walked' = 1 .. w + 1
      /\ walked'[w + 1] = step
      /\ \A k \in 1 .. w : walked'[k] = walked[k]
  BY <1>1, <1>2
<1>4. PICK at \in [DOMAIN items -> StepsWithItems] :
        /\ \A i, j \in DOMAIN items : i < j => at[i] < at[j]
        /\ \A k \in StepsWithItems : \E i \in DOMAIN items : at[i] = k
        /\ \A i \in DOMAIN items : items[i] = walked[at[i]].page
  <2>1. MergedOnceInOrder /\ pc # "error"
    BY DEF IInv
  <2> QED BY <2>1 DEF MergedOnceInOrder
<1>5. \A i \in 1 .. n : at[i] \in 1 .. w
  BY <1>3, <1>4 DEF StepsWithItems
<1> HIDE DEF n, w
<1>6. CASE HasItems(shape)
  <2> DEFINE extended == [i \in 1 .. n + 1 |-> IF i = n + 1 THEN w + 1 ELSE at[i]]
  <2>1. /\ DOMAIN items' = 1 .. n + 1 /\ items'[n + 1] = target
        /\ \A i \in 1 .. n : items'[i] = items[i]
    BY <1>1, <1>2, <1>3, <1>6 DEF n
  <2>2. StepsWithItems' = StepsWithItems \cup {w + 1}
    <3>1. walked'[w + 1].items
      BY <1>1, <1>3, <1>6
    <3>2. \A k \in 1 .. w + 1 : k = w + 1 \/ k \in 1 .. w
      BY <1>3
    <3>3. w + 1 \in 1 .. w + 1 /\ \A k \in 1 .. w : k \in 1 .. w + 1
      BY <1>3
    <3>4. ASSUME NEW k \in StepsWithItems' PROVE k \in StepsWithItems \cup {w + 1}
      BY <1>3, <3>2, <3>4 DEF StepsWithItems
    <3>5. ASSUME NEW k \in StepsWithItems \cup {w + 1} PROVE k \in StepsWithItems'
      BY <1>3, <3>1, <3>3, <3>5 DEF StepsWithItems
    <3> QED BY <3>4, <3>5
  <2>3. \A i \in 1 .. n + 1 : i = n + 1 \/ i \in 1 .. n
    BY <1>3
  <2>4. extended \in [DOMAIN items' -> StepsWithItems']
    BY <1>3, <1>4, <2>1, <2>2, <2>3
  <2>5. \A i, j \in DOMAIN items' : i < j => extended[i] < extended[j]
    BY <1>3, <1>4, <1>5, <2>1
  <2>6. \A k \in StepsWithItems' : \E i \in DOMAIN items' : extended[i] = k
    <3> SUFFICES ASSUME NEW k \in StepsWithItems' PROVE \E i \in DOMAIN items' : extended[i] = k
      OBVIOUS
    <3>1. CASE k = w + 1
      <4>1. n + 1 \in DOMAIN items' /\ extended[n + 1] = k
        BY <1>3, <2>1, <3>1
      <4> QED BY <4>1
    <3>2. CASE k \in StepsWithItems
      <4>1. PICK i \in 1 .. n : at[i] = k
        BY <1>3, <1>4, <3>2
      <4>2. i \in DOMAIN items' /\ extended[i] = k
        BY <1>3, <2>1, <4>1
      <4> QED BY <4>2
    <3> QED BY <2>2, <3>1, <3>2
  <2>7. \A i \in DOMAIN items' : items'[i] = walked'[extended[i]].page
    <3> SUFFICES ASSUME NEW i \in DOMAIN items' PROVE items'[i] = walked'[extended[i]].page
      OBVIOUS
    <3>1. CASE i = n + 1
      BY <1>1, <1>3, <2>1, <3>1
    <3>2. CASE i \in 1 .. n
      <4>1. extended[i] = at[i]
        BY <1>3, <3>2
      <4> QED BY <1>3, <1>4, <1>5, <2>1, <3>2, <4>1
    <3> QED BY <2>1, <2>3, <3>1, <3>2
  <2> HIDE DEF extended
  <2> QED BY <2>4, <2>5, <2>6, <2>7 DEF MergedOnceInOrder
<1>7. CASE ~HasItems(shape)
  <2>1. items' = items /\ DOMAIN items' = 1 .. n
    BY <1>2, <1>3, <1>7
  <2>2. StepsWithItems' = StepsWithItems
    <3>1. ~walked'[w + 1].items /\ \A k \in 1 .. w + 1 : k = w + 1 \/ k \in 1 .. w
      BY <1>1, <1>3, <1>7
    <3>2. \A k \in 1 .. w : k \in 1 .. w + 1
      BY <1>3
    <3> QED BY <1>3, <3>1, <3>2 DEF StepsWithItems
  <2>3. at \in [DOMAIN items' -> StepsWithItems']
    BY <1>4, <2>1, <2>2
  <2>4. \A i \in DOMAIN items' : items'[i] = walked'[at[i]].page
    BY <1>3, <1>4, <1>5, <2>1
  <2>5. /\ \A i, j \in DOMAIN items' : i < j => at[i] < at[j]
        /\ \A k \in StepsWithItems' : \E i \in DOMAIN items' : at[i] = k
    BY <1>4, <2>1, <2>2
  <2> QED BY <2>3, <2>4, <2>5 DEF MergedOnceInOrder
<1> QED BY <1>6, <1>7

(* As long as neither grows, and the walk does not fail, nothing changes; a walk
   that has failed owes nothing.                                            *)
LEMMA OrderKept ==
  ASSUME IInv, pc' = "error" \/ (UNCHANGED <<items, walked>> /\ pc # "error")
  PROVE  MergedOnceInOrder'
<1>1. CASE pc' = "error"
  BY <1>1 DEF MergedOnceInOrder
<1>2. CASE UNCHANGED <<items, walked>> /\ pc # "error"
  <2>1. MergedOnceInOrder /\ pc # "error"
    BY <1>2 DEF IInv
  <2>2. StepsWithItems' = StepsWithItems
    BY <1>2 DEF StepsWithItems
  <2> QED BY <1>2, <2>1, <2>2 DEF MergedOnceInOrder
<1> QED BY <1>1, <1>2

LEMMA Inductive == IInv /\ [Next]_vars => IInv'
<1> SUFFICES ASSUME IInv, [Next]_vars PROVE IInv'
  OBVIOUS
<1>0. /\ TypeOK /\ MaxPages \in Nat /\ Len(walked) \in Nat /\ asked \in Nat
      /\ target \in Pages /\ chain[target] \in Pages \cup {NoPage}
  BY MaxPagesType DEF IInv, TypeOK
<1>1. CASE UNCHANGED vars \/ Done
  <2>1. MergedOnceInOrder'
    BY <1>1, OrderKept DEF vars, Done
  <2> QED
    BY <1>1, <2>1
    DEF vars, Done, IInv, TypeOK, WalksTheChain, AtNextPage, AskedOncePerPage, MaxPages,
        CompleteForAReason, AtChainEnd
<1>2. CASE Ask
  <2>2. asked' = asked + 1 /\ asked' \in Nat
    BY <1>0, <1>2 DEF Ask
  <2>3. Shapes \subseteq AllShapes
    BY PaginationAssumption
  <2>4. TypeOK'
    BY <1>2, <2>2, <2>3 DEF Ask, IInv, TypeOK
  <2>5. WalksTheChain' /\ AtNextPage' /\ AskedOncePerPage'
    BY <1>0, <1>2, <2>2
    DEF Ask, IInv, WalksTheChain, AtNextPage, AskedOncePerPage, MaxPages
  <2>6. CompleteForAReason'
    BY <1>2 DEF Ask, CompleteForAReason
  <2>7. MergedOnceInOrder'
    BY <1>2, OrderKept DEF Ask
  <2> QED BY <2>4, <2>5, <2>6, <2>7 DEF IInv
<1>3. CASE PageFails \/ LinkFails
  <2>1. /\ pc' = "error" /\ items' = << >> /\ pc = "answered"
        /\ UNCHANGED <<chain, bound, target, shape, walked, asked>>
    BY <1>3 DEF PageFails, LinkFails
  <2>2. MergedOnceInOrder'
    BY <2>1, OrderKept
  <2> QED
    BY <1>0, <2>1, <2>2
    DEF IInv, TypeOK, WalksTheChain, AtNextPage, AskedOncePerPage, MaxPages,
        CompleteForAReason
<1>4. CASE LastPage
  <2>1. /\ pc = "answered" /\ pc' = "complete" /\ Merge
        /\ UNCHANGED <<chain, bound, target, shape, asked>>
        /\ shape = "unlinked" \/ chain[target] = NoPage
    BY <1>4 DEF LastPage
  <2>2. /\ walked' \in Seq([page : Pages, items : BOOLEAN]) /\ items' \in Seq(Pages)
        /\ Len(walked') = Len(walked) + 1 /\ walked'[Len(walked')].page = target
        /\ WalksTheChain'
    BY <2>1, MergeWalks
  <2>3. CompleteForAReason'
    BY <1>0, <2>1, <2>2 DEF CompleteForAReason, AtChainEnd
  <2>4. MergedOnceInOrder'
    BY <2>1, MergeKeepsOrder
  <2> QED
    BY <1>0, <2>1, <2>2, <2>3, <2>4
    DEF IInv, TypeOK, AtNextPage, AskedOncePerPage, MaxPages
<1>5. CASE NextPage
  <2>1. /\ pc = "answered" /\ pc' = "asking" /\ Merge /\ target' = chain[target]
        /\ chain[target] # NoPage
        /\ UNCHANGED <<chain, bound, shape, asked>>
    BY <1>5 DEF NextPage, Follow
  <2>2. /\ walked' \in Seq([page : Pages, items : BOOLEAN]) /\ items' \in Seq(Pages)
        /\ Len(walked') = Len(walked) + 1 /\ walked'[Len(walked')].page = target
        /\ WalksTheChain'
    BY <2>1, MergeWalks
  <2>3. AtNextPage' /\ AskedOncePerPage'
    BY <1>0, <2>1, <2>2 DEF IInv, AtNextPage, AskedOncePerPage, MaxPages
  <2>4. MergedOnceInOrder'
    BY <2>1, MergeKeepsOrder
  <2> QED
    BY <1>0, <2>1, <2>2, <2>3, <2>4 DEF IInv, TypeOK, CompleteForAReason
<1>6. CASE StopAtBound
  <2>1. /\ pc = "asking" /\ Len(walked) >= MaxPages /\ pc' \in {"complete", "error"}
        /\ pc' = "complete" => MaxPages < DefaultMaxPages
        /\ items' \in {items, << >>}
        /\ UNCHANGED <<chain, bound, target, shape, walked, asked>>
    BY <1>6 DEF StopAtBound
  <2>2. items' \in Seq(Pages)
    <3>1. items \in Seq(Pages) /\ << >> \in Seq(Pages)
      BY <1>0 DEF TypeOK
    <3> QED BY <2>1, <3>1
  <2>3. CompleteForAReason'
    <3>1. Len(walked) = MaxPages
      BY <1>0, <2>1 DEF IInv, AskedOncePerPage
    <3>2. pc' = "complete" => bound > 0 /\ Len(walked) = bound
      BY <1>0, <2>1, <3>1, Constants DEF MaxPages, TypeOK
    <3> QED BY <2>1, <3>2 DEF CompleteForAReason
  <2>4. MergedOnceInOrder'
    BY <1>6, OrderKept DEF StopAtBound
  <2> QED
    BY <1>0, <2>1, <2>2, <2>3, <2>4
    DEF IInv, TypeOK, WalksTheChain, AtNextPage, AskedOncePerPage, MaxPages
<1> QED BY <1>1, <1>2, <1>3, <1>4, <1>5, <1>6 DEF Next

(* The inductive invariant holds in every state of every execution.         *)
THEOREM AlwaysConsistent == Spec => []IInv
BY Initially, Inductive, PTL DEF Spec

(* Every variable keeps its type.                                           *)
THEOREM TypeCorrect == Spec => []TypeOK
<1>1. IInv => TypeOK
  BY DEF IInv
<1> QED BY <1>1, AlwaysConsistent, PTL

(* The walk visits the pages the links lead to, in their order, on every
   chain a server can make of any set of pages.                             *)
THEOREM WalkFollowsLinks == Spec => []WalksTheChain
<1>1. IInv => WalksTheChain
  BY DEF IInv
<1> QED BY <1>1, AlwaysConsistent, PTL

(* What a walk that does not fail has merged is the items of every page that
   brought any, once each and in the order of the walk, whatever the server
   put on the pages and however it linked them.                             *)
THEOREM EverythingMergedOnce == Spec => []MergedOnceInOrder
<1>1. IInv => MergedOnceInOrder
  BY DEF IInv
<1> QED BY <1>1, AlwaysConsistent, PTL

(* An operation that succeeds came to the end, to its caller's bound or to a
   page without an envelope: it never stops for another reason.             *)
THEOREM SuccessHasReason == Spec => []CompleteForAReason
<1>1. IInv => CompleteForAReason
  BY DEF IInv
<1> QED BY <1>1, AlwaysConsistent, PTL

(* No chain makes a walk ask for more pages than its bound.                 *)
THEOREM WalkIsBounded == Spec => []AsksWithinBound
<1>1. IInv => AsksWithinBound
  BY Constants DEF IInv, TypeOK, AskedOncePerPage, AsksWithinBound, MaxPages
<1> QED BY <1>1, AlwaysConsistent, PTL

(***************************************************************************)
(* Why a walk ends: the steps it still has before it.                      *)
(***************************************************************************)
StepsLeft ==
  CASE pc = "asking"                 -> 2 * (MaxPages - Len(walked)) + 2
    [] pc = "answered"               -> 2 * (MaxPages - Len(walked)) + 1
    [] pc \in {"complete", "error"}  -> 0

Closer == StepsLeft' < StepsLeft

LEMMA StepsCounted ==
  IInv => /\ StepsLeft \in 0 .. 2 * MaxPages + 2
          /\ StepsLeft = 0 <=> Returned
<1> SUFFICES ASSUME IInv PROVE /\ StepsLeft \in 0 .. 2 * MaxPages + 2
                               /\ StepsLeft = 0 <=> Returned
  OBVIOUS
<1>1. /\ MaxPages \in Nat /\ Len(walked) \in Nat
      /\ pc \in {"asking", "answered", "complete", "error"}
  BY MaxPagesType DEF IInv, TypeOK
<1>2. pc \in {"asking", "answered"} => Len(walked) <= MaxPages
  BY <1>1 DEF IInv, AskedOncePerPage
<1> QED BY <1>1, <1>2 DEF StepsLeft, Returned

(* A walk returns within 2 * MaxPages + 2 steps, be the pages linked in a circle
   or as long a chain as it may be: each step brings it closer, and a step that
   does not is the stuttering of a walk that has returned.                  *)
THEOREM WalkGetsCloser ==
  Spec => /\ [](StepsLeft \in 0 .. 2 * MaxPages + 2 /\ (StepsLeft = 0 <=> Returned))
          /\ [][Closer]_vars
<1>1. ASSUME IInv, Next, ~ UNCHANGED vars PROVE Closer
  <2>1. /\ MaxPages \in Nat /\ Len(walked) \in Nat
        /\ pc \in {"asking", "answered"} => Len(walked) <= MaxPages
    BY <1>1, MaxPagesType DEF IInv, TypeOK, AskedOncePerPage
  <2>2. MaxPages' = MaxPages
    BY <1>1 DEF Next, Ask, PageFails, LinkFails, LastPage, NextPage, StopAtBound, Done,
                MaxPages, vars
  <2>3. pc = "answered" => Len(walked) < MaxPages
    BY <1>1, <2>1 DEF IInv, AskedOncePerPage
  <2>4. CASE Ask
    BY <2>1, <2>2, <2>4 DEF Ask, Closer, StepsLeft
  <2>5. CASE PageFails \/ LinkFails \/ LastPage \/ StopAtBound
    <3>1. pc \in {"asking", "answered"} /\ pc' \in {"complete", "error"}
      BY <2>5 DEF PageFails, LinkFails, LastPage, StopAtBound
    <3> QED BY <2>1, <3>1 DEF Closer, StepsLeft
  <2>6. CASE NextPage
    <3>1. Len(walked') = Len(walked) + 1
      BY <1>1, <2>6, MergeWalks DEF NextPage
    <3> QED BY <2>1, <2>2, <2>3, <2>6, <3>1 DEF NextPage, Closer, StepsLeft
  <2> QED BY <1>1, <2>4, <2>5, <2>6 DEF Next, Done
<1>2. IInv /\ [Next]_vars => [Closer]_vars
  BY <1>1
<1> QED BY <1>2, StepsCounted, AlwaysConsistent, PTL DEF Spec

=============================================================================
