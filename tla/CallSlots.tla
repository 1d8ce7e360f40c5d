----------------------------- MODULE CallSlots -----------------------------
(***************************************************************************)
(* What WithMaxConcurrentRequests promises, without channels, retries or   *)
(* contexts: clients wait for a slot, are given one or give up, and hold   *)
(* at most Slots of them together. Slots = 0 means that no limit was asked *)
(* for.                                                                    *)
(***************************************************************************)
EXTENDS Integers, FiniteSets

CONSTANTS Clients, Slots   \* a finite set and a natural number

VARIABLES waiting, holding

slotVars == <<waiting, holding>>

Init == waiting = {} /\ holding = {}

SlotFree == Slots = 0 \/ Cardinality(holding) < Slots

Arrive(c) == /\ c \notin waiting \cup holding
             /\ waiting' = waiting \cup {c}
             /\ UNCHANGED holding

Grant(c)  == /\ c \in waiting
             /\ SlotFree
             /\ waiting' = waiting \ {c}
             /\ holding' = holding \cup {c}

GiveUp(c) == /\ c \in waiting
             /\ waiting' = waiting \ {c}
             /\ UNCHANGED holding

Leave(c)  == /\ c \in holding
             /\ holding' = holding \ {c}
             /\ UNCHANGED waiting

Next == \E c \in Clients : Arrive(c) \/ Grant(c) \/ GiveUp(c) \/ Leave(c)

SafeSpec == Init /\ [][Next]_slotVars

=============================================================================
