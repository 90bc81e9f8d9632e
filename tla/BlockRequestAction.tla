------------------------- MODULE BlockRequestAction -------------------------
(***************************************************************************)
(* The BlockRequestAction policy bundle consumed by the prefetcher         *)
(* (spec.md section 6, "Action").  Its code is not part of src/, so it is  *)
(* modelled from the spec: an action is the set of flags it carries, and   *)
(* Combine is the monotone merge of two such sets.                         *)
(***************************************************************************)

\* The flags an action may carry.
Flags == {"tracked", "prefetch", "sync", "stopIfFull", "deepSync"}

\* The named actions the rest of the filesystem submits.
BlockRequestSolo               == {}
BlockRequestWithPrefetch       == {"tracked", "prefetch"}
BlockRequestWithSyncAndPrefetch == {"tracked", "prefetch", "sync"}
BlockRequestPrefetchUntilFull  == {"tracked", "prefetch", "stopIfFull"}
BlockRequestWithDeepSync       == {"tracked", "prefetch", "sync", "deepSync"}

Sync(a)       == "sync" \in a
DeepSync(a)   == "deepSync" \in a
StopIfFull(a) == "stopIfFull" \in a

\* Prefetch(block): a syncing action always prefetches the children of an
\* indirect block; otherwise only an action with the prefetch flag does.
Prefetch(a, isIndirect) == ("prefetch" \in a) \/ (isIndirect /\ Sync(a))

\* ChildAction(block): children of an indirect block being synced are
\* prefetched too.
ChildAction(a, isIndirect) ==
    IF isIndirect /\ Sync(a) THEN a \cup {"prefetch"} ELSE a

\* Combine: union of the flags, dropping stop-if-full unless both agree.
Combine(a, o) ==
    IF StopIfFull(a) = StopIfFull(o) THEN a \cup o
    ELSE (a \cup o) \ {"stopIfFull"}

=============================================================================
