--------------------------- MODULE PrefetchForest ---------------------------
(***************************************************************************)
(* The prefetch forest of src/libkbfs/prefetcher.go and the operations the *)
(* worker goroutine performs on it: the two parent walks, the functions    *)
(* they apply (completePrefetch, decrementPrefetch, cancelPrefetch,        *)
(* rescheduleTopBlock) and the child enumeration (request/handlePrefetch). *)
(*                                                                         *)
(* Every operation is a pure operator on a "world" record w that carries   *)
(* the worker's two maps and what a handler has produced so far:           *)
(*   w.pf     the map p.prefetches  (block ID -> prefetch record)          *)
(*   w.rs     the map p.rescheduled (block ID -> rescheduled record)       *)
(*   w.done   IDs whose subtree count reached 0 in completePrefetch        *)
(*   w.fin    IDs a handler marks FinishedPrefetch directly                *)
(*   w.fetch  non-solo retriever requests issued by request()              *)
(*   w.resched requests handed to reschedulePrefetch                       *)
(*   w.err    "none", or the message of the panic the code raises          *)
(* A panic aborts the process, so once w.err is set nothing else happens.  *)
(***************************************************************************)
EXTENDS Integers, Sequences, SequencesExt, FiniteSets, TLC, BlockRequestAction

CONSTANTS
    Blocks,       \* block IDs (content hashes)
    Nonces,       \* RefNonces distinguishing references to one ID
    Children,     \* Children[b]: b's child pointers in enumeration order
    Indirect,     \* the blocks that are indirect blocks
    MaxBackoffs   \* attempts before the exponential backoff returns Stop

\* A BlockPointer: an ID and the RefNonce of this reference to it.
Ptr == Blocks \X Nonces

ASSUME /\ Children \in [Blocks -> Seq(Ptr)]
       /\ Indirect \subseteq Blocks
       /\ MaxBackoffs \in Nat

Statuses == {"NoPrefetch", "TriggeredPrefetch", "FinishedPrefetch"}

\* prefetchRequest, less the fields that only carry data (block, kmd,
\* lifetime, priority).  A wait-channel request names the waiter its
\* sendCh answers; NoWaiter marks every other request.
NoWaiter == 0
Request == [ptr: Ptr, action: SUBSET Flags, status: Statuses, waiter: Nat]

\* A parent link <<refNonce, parentPtr>>: parentPtr \in parents[refNonce].
\* The code never keeps an empty bucket, so the map of buckets is the set
\* of its links.
Link == Nonces \X Ptr

NoPanic == "none"

\* The IDs reachable from b through child pointers.
RECURSIVE Descendants(_)
Descendants(b) ==
    UNION {{c[1]} \cup Descendants(c[1]) : c \in ToSet(Children[b])}

IsTail(b) == Children[b] = <<>>

-----------------------------------------------------------------------------
(* Map helpers.                                                            *)

Drop(f, id) == [x \in DOMAIN f \ {id} |-> f[x]]

Put(f, id, v) == [x \in DOMAIN f \cup {id} |-> IF x = id THEN v ELSE f[x]]

Fail(w, msg) == [w EXCEPT !.err = msg]

-----------------------------------------------------------------------------
(* The records kept in the two maps.                                       *)

\* newPrefetch: count, triggered flag, the request, and no parents yet.
NewPrefetch(count, triggered, req) ==
    [count |-> count, triggered |-> triggered, req |-> req, parents |-> {}]

\* Mutant: the child enters without counting its own block.
NewChildPrefetchZero(c, action) ==
    NewPrefetch(0, FALSE, [ptr |-> c, action |-> action, status |-> "NoPrefetch",
                           waiter |-> NoWaiter])

\* request() enters a child it has not seen with a count of 1: its own
\* block, to be decremented when the child's own request triggers it.
NewChildPrefetch(c, action) ==
    NewPrefetch(1, FALSE, [ptr |-> c, action |-> action, status |-> "NoPrefetch",
                           waiter |-> NoWaiter])

\* Mutant: a new top block counts itself although it is already fetched.
NewTopPrefetchCounted(req) == NewPrefetch(1, TRUE, req)

\* run() enters a block it is asked to prefetch and does not know with a
\* count of 0: the block itself has already been fetched.
NewTopPrefetch(req) == NewPrefetch(0, TRUE, req)

\* Mutant: a link that survived its parent's removal is not counted
\* again when the parent is re-created.
LinkCountsNoParentNew(linked, isParentNew) == ~linked

\* request() adds the child's count to the parent when the link is new,
\* or when the parent itself is new (it may have been cancelled and
\* re-created while the child kept its link).
LinkCounts(linked, isParentNew) == ~linked \/ isParentNew

\* Mutant: the backoff allows one attempt too many.
BackOffStoppedLate(rp) == rp.tries > MaxBackoffs

\* The exponential backoff returns Stop once its elapsed-time budget is
\* spent; the model counts attempts instead of time.
BackOffStopped(rp) == rp.tries >= MaxBackoffs

\* clearRescheduleState: stop the backoff timer of id, if any.  A timer
\* that has already fired has already enqueued its request.
ClearRescheduleState(rs, id) ==
    IF id \in DOMAIN rs THEN [rs EXCEPT ![id].timer = "none"] ELSE rs

-----------------------------------------------------------------------------
(* The functions the walks apply to each visited node.                     *)

\* completePrefetch(n): subtract n; at zero remove the node, drop its
\* reschedule state and record it as done (the caller re-fetches it and
\* puts it in the caches as FinishedPrefetch).
CompletePrefetch(n, id, w) ==
    LET c == w.pf[id].count - n
    IN  IF c < 0 THEN Fail(w, "completePrefetch overstepped its bounds")
        ELSE IF c = 0
             THEN [w EXCEPT !.pf = Drop(@, id), !.rs = Drop(@, id),
                            !.done = @ \cup {id}]
             ELSE [w EXCEPT !.pf[id].count = c]

\* Mutant: the walk that triggers a node passes completePrefetch(1)
\* instead of decrementPrefetch, removing nodes that reach zero.
DecrementPrefetchCompletes(id, w) == CompletePrefetch(1, id, w)

\* decrementPrefetch: subtract one, never below zero.
DecrementPrefetch(id, w) ==
    IF w.pf[id].count - 1 < 0
    THEN Fail(w, "decrementPrefetch overstepped its bounds")
    ELSE [w EXCEPT !.pf[id].count = @ - 1]

\* The closure run() passes when adding numBlocks to every ancestor.
AddBlocks(n, id, w) == [w EXCEPT !.pf[id].count = @ + n]

\* cancelPrefetch: drop the bucket of ptr's RefNonce; a node with no
\* buckets left is removed and loses its reschedule state.
CancelPrefetch(ptr, w) ==
    LET id == ptr[1]
        ps == {l \in w.pf[id].parents : l[1] # ptr[2]}
    IN  IF ps # {} THEN [w EXCEPT !.pf[id].parents = ps]
        ELSE [w EXCEPT !.pf = Drop(@, id), !.rs = Drop(@, id)]

\* Mutant: a top node is moved to the rescheduled map but never deleted
\* from the prefetch map.
RescheduleTopBlockKeepsNode(id, w) ==
    LET pp == w.pf[id]
        rp == IF id \in DOMAIN w.rs THEN w.rs[id]
              ELSE [timer |-> "none", tries |-> 0, req |-> pp.req]
    IN  IF pp.parents # {}
        THEN [w EXCEPT !.pf = Drop(@, id), !.rs = Drop(@, id)]
        ELSE [w EXCEPT !.rs = Put(@, id,
                 IF rp.timer = "none" /\ ~BackOffStopped(rp)
                 THEN [timer |-> "armed", tries |-> rp.tries + 1, req |-> pp.req]
                 ELSE rp)]

\* rescheduleTopBlock: a node with parents is cancelled under every
\* RefNonce (which removes it); a top node moves from the prefetch map to
\* the rescheduled map and, unless a timer is already set or the backoff
\* has stopped, arms a timer that will re-send a copy of its request.
RescheduleTopBlock(id, w) ==
    LET pp == w.pf[id]
        rp == IF id \in DOMAIN w.rs THEN w.rs[id]
              ELSE [timer |-> "none", tries |-> 0, req |-> pp.req]
        armed == [timer |-> "armed", tries |-> rp.tries + 1, req |-> pp.req]
    IN  IF pp.parents # {}
        THEN [w EXCEPT !.pf = Drop(@, id), !.rs = Drop(@, id)]
        ELSE [w EXCEPT !.pf = Drop(@, id),
                       !.rs = Put(@, id,
                                  IF rp.timer = "none" /\ ~BackOffStopped(rp)
                                  THEN armed ELSE rp)]

\* The function argument of applyToParentsRecursive, as a tag.
ApplyF(f, id, w) ==
    CASE f.op = "complete"   -> CompletePrefetch(f.n, id, w)
      [] f.op = "decrement"  -> DecrementPrefetch(id, w)
      [] f.op = "add"        -> AddBlocks(f.n, id, w)
      [] f.op = "reschedule" -> RescheduleTopBlock(id, w)

-----------------------------------------------------------------------------
(* The two parent walks.  Both are post-order: every parent link is        *)
(* followed (or pruned, when the parent is no longer in the map) before f  *)
(* is applied to the node itself.  Go ranges over the maps in random       *)
(* order; the walk takes the links in CHOOSE order, which gives the same   *)
(* result on a forest.                                                     *)

RECURSIVE ApplyToParents(_, _, _), ApplyToParentLinks(_, _, _, _)

\* applyToParentsRecursive: follow every link of id under any RefNonce.
ApplyToParents(f, id, w) ==
    LET w2 == ApplyToParentLinks(f, id, w.pf[id].parents, w)
    IN  IF w2.err # NoPanic THEN w2 ELSE ApplyF(f, id, w2)

ApplyToParentLinks(f, id, links, w) ==
    IF links = {} \/ w.err # NoPanic THEN w
    ELSE LET l  == CHOOSE x \in links : TRUE
             w2 == IF l[2][1] \in DOMAIN w.pf
                   THEN ApplyToParents(f, l[2][1], w)
                   ELSE [w EXCEPT !.pf[id].parents = @ \ {l}]
         IN  ApplyToParentLinks(f, id, links \ {l}, w2)

RECURSIVE CancelWalk(_, _), CancelLinks(_, _, _)

\* applyToPtrParentsRecursive(cancelPrefetch, ptr, ...): follow only the
\* links of ptr's RefNonce, then cancel ptr.
CancelWalk(ptr, w) ==
    LET links == {l \in w.pf[ptr[1]].parents : l[1] = ptr[2]}
    IN  CancelPrefetch(ptr, CancelLinks(ptr, links, w))

CancelLinks(ptr, links, w) ==
    IF links = {} THEN w
    ELSE LET l  == CHOOSE x \in links : TRUE
             w2 == IF l[2][1] \in DOMAIN w.pf
                   THEN CancelWalk(l[2], w)
                   ELSE [w EXCEPT !.pf[ptr[1]].parents = @ \ {l}]
         IN  CancelLinks(ptr, links \ {l}, w2)

-----------------------------------------------------------------------------
(* Child enumeration.                                                      *)

\* request(): one child pointer c of the block at parentPtr.  st carries
\* the world, the IDs seen in this enumeration and the running numBlocks.
RequestChild(st, c, parentPtr, isParentNew, action) ==
    IF c[1] \in st.seen \/ st.w.err # NoPanic THEN st
    ELSE
    LET w       == st.w
        waiting == c[1] \in DOMAIN w.pf
        pf1     == IF waiting THEN w.pf
                   ELSE Put(w.pf, c[1], NewChildPrefetch(c, action))
        newAction == Combine(action, pf1[c[1]].req.action)
        send    == ~waiting \/ pf1[c[1]].req.action # newAction
        pf2     == IF send THEN [pf1 EXCEPT ![c[1]].req.action = newAction]
                   ELSE pf1
        w2      == [w EXCEPT !.pf = pf2,
                             !.fetch = IF send THEN @ \cup {<<c, action>>}
                                       ELSE @]
        link    == <<c[2], parentPtr>>
        linked  == link \in pf2[c[1]].parents
    IN  IF parentPtr[1] \notin DOMAIN pf2
        THEN [st EXCEPT !.w = Fail(w2, "prefetcher doesn't know about parent block"),
                        !.seen = @ \cup {c[1]}]
        ELSE IF LinkCounts(linked, isParentNew)
        THEN [st EXCEPT !.w = [w2 EXCEPT !.pf[c[1]].parents = @ \cup {link}],
                        !.seen = @ \cup {c[1]},
                        !.num = @ + pf2[c[1]].count]
        ELSE [st EXCEPT !.w = w2, !.seen = @ \cup {c[1]}]

\* handlePrefetch with the prefetch{IndirectFile,IndirectDir,DirectDir}Block
\* loops: request() every child with the child action, as children of the
\* pointer the node's own request names.  Returns [w, seen, num].
HandlePrefetch(w, id, isPrefetchNew, action) ==
    LET childAction == ChildAction(action, id \in Indirect)
        parentPtr   == w.pf[id].req.ptr
    IN  FoldLeft(LAMBDA st, c :
                     RequestChild(st, c, parentPtr, isPrefetchNew, childAction),
                 [w |-> w, seen |-> {}, num |-> 0], Children[id])
=============================================================================
