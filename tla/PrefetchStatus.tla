--------------------------- MODULE PrefetchStatus ---------------------------
(* What the prefetcher is expected to promise the rest of the client      *)
(* about the prefetch status it writes into the block caches (spec.md      *)
(* sections 3 and 6): a block's status only moves forward, NoPrefetch to   *)
(* TriggeredPrefetch to FinishedPrefetch, and a block becomes              *)
(* FinishedPrefetch only in a step that leaves every block of its subtree  *)
(* cached.  Several blocks may change in one step: one completion walk     *)
(* finishes a whole chain of ancestors.                                    *)
EXTENDS SequencesExt

CONSTANTS Blocks, Children

VARIABLE status

\* "none" marks a block that is not in the cache.
Order == <<"none", "NoPrefetch", "TriggeredPrefetch", "FinishedPrefetch">>

Rank(s) == CHOOSE i \in DOMAIN Order : Order[i] = s

RECURSIVE Subtree(_)
Subtree(b) == {b} \cup UNION {Subtree(c[1]) : c \in ToSet(Children[b])}

Init == status = [b \in Blocks |-> "none"]

\* No block's status moves back.
Advances == \A b \in Blocks : Rank(status'[b]) >= Rank(status[b])

\* A block newly finished has its whole subtree cached after the step.
FinishesCached ==
    \A b \in Blocks :
        status'[b] = "FinishedPrefetch" /\ status[b] # "FinishedPrefetch"
            => \A d \in Subtree(b) : status'[d] # "none"

Next ==
    /\ status' \in [Blocks -> ToSet(Order)]
    /\ Advances
    /\ FinishesCached

Spec == Init /\ [][Next]_status
=============================================================================
