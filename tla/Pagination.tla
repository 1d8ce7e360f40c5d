----------------------------- MODULE Pagination -----------------------------
(***************************************************************************)
(* A generated read operation that walks a cursor-paginated collection:    *)
(* executePaginated of thousandeyes/client/pagination.go, called with the  *)
(* merge function of internal/templates/service.go.tmpl.                   *)
(*                                                                         *)
(* The collection is a chain of pages, each linking to the next one, and   *)
(* stands for whatever a server may link: it can end, or run in a circle.  *)
(* executeRequest is one step that brings an answer or an error; what      *)
(* happens inside it is Transport.tla.                                     *)
(***************************************************************************)
EXTENDS Integers, Sequences

CONSTANTS
  Pages, First,     \* the pages a server may serve, and the one at the path
  NoPage,           \* what a page without a next link links to
  DefaultMaxPages,  \* defaultMaxPages
  Bounds,           \* what SetMaxPages may have set; 0 when it was not called
  Shapes            \* what answers may look like, among those below

(***************************************************************************)
(*   "items"      a collection and a HAL envelope                          *)
(*   "empty"      no array under the collection key, and a HAL envelope    *)
(*   "unlinked"   a collection, and _links of another type than halPage's  *)
(*   "bad link"   a collection, and a next href url.Parse rejects          *)
(*   "undecodable" a body, or an array, that does not decode               *)
(*   "failed"     an error from executeRequest                             *)
(***************************************************************************)
AllShapes == {"items", "empty", "unlinked", "bad link", "undecodable", "failed"}

ASSUME PaginationAssumption ==
  /\ First \in Pages /\ NoPage \notin Pages
  /\ DefaultMaxPages \in Nat \ {0}
  /\ Bounds \subseteq Nat
  /\ Shapes \subseteq AllShapes

VARIABLES
  chain,    \* where each page links to
  bound,    \* maxPages of the RequestBuilder
  pc,       \* "asking", "answered", "complete" or "error"
  target,   \* the page that is asked for next, or was
  shape,    \* what the latest answer looks like
  walked,   \* the pages answered without an error, and whether each of them
            \* brought items; history, of which the code keeps the length
  items,    \* the pages whose items the merge function has appended
  asked     \* the requests made; history

vars == <<chain, bound, pc, target, shape, walked, items, asked>>

MaxPages == IF bound <= 0 THEN DefaultMaxPages ELSE bound

Init ==
  /\ chain \in [Pages -> Pages \cup {NoPage}]
  /\ bound \in Bounds
  /\ pc = "asking" /\ target = First /\ shape = "items"
  /\ walked = << >> /\ items = << >> /\ asked = 0

(* Which query parameters a request carries is in Operations.               *)
Ask ==
  /\ pc = "asking"
  /\ Len(walked) < MaxPages
  /\ asked' = asked + 1
  /\ shape' \in Shapes
  /\ pc' = "answered"
  /\ UNCHANGED <<chain, bound, target, walked, items>>

\* Mutant of Follow: the next request is built from the path again.
FollowToPath == target' = First

(* The next href is used verbatim.                                          *)
Follow == target' = chain[target]

(***************************************************************************)
(* What becomes of an answer. Each of these ends an iteration of the loop. *)
(***************************************************************************)
HasItems(s) == s \in {"items", "unlinked", "bad link"}

\* Mutant of Merge: a page without the collection key counts as a whole body.
MergeAnything ==
  /\ items' = Append(items, target)
  /\ walked' = Append(walked, [page |-> target, items |-> HasItems(shape)])

Merge ==
  /\ items' = IF HasItems(shape) THEN Append(items, target) ELSE items
  /\ walked' = Append(walked, [page |-> target, items |-> HasItems(shape)])

\* Mutant of PageFails: a page that does not decode ends the walk quietly.
PageFailsQuietly ==
  /\ pc = "answered"
  /\ shape \in {"failed", "undecodable"}
  /\ pc' = IF shape = "failed" THEN "error" ELSE "complete"
  /\ items' = IF shape = "failed" THEN << >> ELSE items
  /\ UNCHANGED <<chain, bound, target, shape, walked, asked>>

(* An error from executeRequest, extractCollection or the merge function: the
   operation returns nil for its result and drops what it has merged.       *)
PageFails ==
  /\ pc = "answered"
  /\ shape \in {"failed", "undecodable"}
  /\ pc' = "error"
  /\ items' = << >>
  /\ UNCHANGED <<chain, bound, target, shape, walked, asked>>

LinkFails ==
  /\ pc = "answered"
  /\ shape = "bad link"
  /\ pc' = "error"
  /\ items' = << >>
  /\ UNCHANGED <<chain, bound, target, shape, walked, asked>>

LastPage ==
  /\ pc = "answered"
  /\ \/ shape = "unlinked"
     \/ shape \in {"items", "empty"} /\ chain[target] = NoPage
  /\ Merge
  /\ pc' = "complete"
  /\ UNCHANGED <<chain, bound, target, shape, asked>>

NextPage ==
  /\ pc = "answered"
  /\ shape \in {"items", "empty"} /\ chain[target] # NoPage
  /\ Merge
  /\ Follow
  /\ pc' = "asking"
  /\ UNCHANGED <<chain, bound, shape, asked>>

\* Mutant of StopAtBound: past the bound the loop skips the page and goes on.
SkipAtBound == pc = "asking" /\ Len(walked) >= MaxPages /\ UNCHANGED vars

(* The loop is over with a link left to follow.                             *)
StopAtBound ==
  /\ pc = "asking"
  /\ Len(walked) >= MaxPages
  /\ IF MaxPages < DefaultMaxPages
       THEN pc' = "complete" /\ UNCHANGED items
       ELSE pc' = "error" /\ items' = << >>
  /\ UNCHANGED <<chain, bound, target, shape, walked, asked>>

Returned == pc \in {"complete", "error"}

(* The operation has returned.                                              *)
Done == Returned /\ UNCHANGED vars

Next == Ask \/ PageFails \/ LinkFails \/ LastPage \/ NextPage \/ StopAtBound \/ Done

Spec == Init /\ [][Next]_vars

(* The goroutine of the caller runs, and executeRequest returns: Transport's
   EveryCallReturns.                                                        *)
FairSpec == Spec /\ WF_vars(Next)

-----------------------------------------------------------------------------
(* Every variable has its type.                                             *)
TypeOK ==
  /\ chain \in [Pages -> Pages \cup {NoPage}]
  /\ bound \in Nat
  /\ pc \in {"asking", "answered", "complete", "error"}
  /\ target \in Pages
  /\ shape \in AllShapes
  /\ walked \in Seq([page : Pages, items : BOOLEAN])
  /\ items \in Seq(Pages)
  /\ asked \in Nat

(* The pages walked are those the links lead to from the first one.         *)
WalksTheChain ==
  /\ Len(walked) > 0 => walked[1].page = First
  /\ \A i \in 1 .. Len(walked) - 1 : walked[i + 1].page = chain[walked[i].page]

(* What is merged is the items of the pages walked, each once and in order: an
   order-preserving map takes what is merged to the steps that brought items,
   and to all of them.                                                      *)
StepsWithItems == {k \in DOMAIN walked : walked[k].items}

MergedOnceInOrder ==
  pc # "error" =>
    \E at \in [DOMAIN items -> StepsWithItems] :
      /\ \A i, j \in DOMAIN items : i < j => at[i] < at[j]
      /\ \A k \in StepsWithItems : \E i \in DOMAIN items : at[i] = k
      /\ \A i \in DOMAIN items : items[i] = walked[at[i]].page

(* An operation that succeeds has come to the end of the chain, to the bound
   its caller asked for, or to a page without an envelope to follow.        *)
AtChainEnd == Len(walked) > 0 /\ chain[walked[Len(walked)].page] = NoPage

CompleteForAReason ==
  pc = "complete" =>
    \/ AtChainEnd
    \/ bound > 0 /\ Len(walked) = bound
    \/ shape = "unlinked"

(* No walk asks for more than its bound, or than the default, of pages.      *)
AsksWithinBound == asked <= IF bound > 0 THEN bound ELSE DefaultMaxPages

(* A walk ends even when the server links its pages in a circle.            *)
WalkEnds == <>Returned

=============================================================================
