----------------------------- MODULE Prefetcher -----------------------------
(***************************************************************************)
(* The blockPrefetcher of src/libkbfs/prefetcher.go: the worker loop run() *)
(* serving the request, cancel and reschedule channels, and the goroutines *)
(* that feed it: ProcessBlockForPrefetch called by the block retriever     *)
(* when a user fetch or a prefetch fetch completes, CancelPrefetch, and    *)
(* the backoff timers of rescheduled top blocks, WaitChannelForBlock-      *)
(* Prefetch, and shutdown (Shutdown, shutdownLoop, the almostDone drain).  *)
(*                                                                         *)
(* The three channels are unbounded FIFOs (NewInfiniteChannelWrapper); the *)
(* worker's select takes the head of any non-empty one.  The block cache   *)
(* is the status each cached block carries.  Closing a channel wrapper     *)
(* closes its input, so a later send on it panics.                         *)
(***************************************************************************)
EXTENDS PrefetchForest

CONSTANTS
    RootPtrs,        \* pointers a user may fetch directly
    UserActions,     \* actions user fetches are made with
    CacheMayFill,    \* whether DoesCacheHaveSpace may answer "no room"
    MaxUserFetches,  \* user-driven fetches in a behaviour
    MaxFaults,       \* retriever and cache errors in a behaviour
    MaxCancels,      \* CancelPrefetch calls from outside the prefetcher
    NumWaiters,      \* WaitChannelForBlockPrefetch callers
    MayShutdown,     \* whether Shutdown is called
    CallsAfterExit   \* whether callers keep using the API after done closed

ASSUME /\ RootPtrs \subseteq Ptr
       /\ UserActions \subseteq SUBSET Flags
       /\ CacheMayFill \in BOOLEAN
       /\ {MaxUserFetches, MaxFaults, MaxCancels, NumWaiters} \subseteq Nat
       /\ {MayShutdown, CallsAfterExit} \subseteq BOOLEAN

Waiters == 1..NumWaiters

\* The life of the prefetcher: shutdownCh closed ("shutdown"), almostDoneCh
\* sent ("almostDone"), run() shutting down ("draining"), run() returned
\* and the channels closed ("exited").
Phases == {"running", "shutdown", "almostDone", "draining", "exited"}

VARIABLES
    prefetches,   \* p.prefetches
    rescheduled,  \* p.rescheduled
    requestQ,     \* p.prefetchRequestCh
    cancelQ,      \* p.prefetchCancelCh
    rescheduleQ,  \* p.prefetchRescheduleCh
    inflight,     \* retriever requests issued by request(): <<ptr, action>>
    cache,        \* cache[b]: "none", or the prefetch status b is cached with
    panicked,     \* NoPanic, or the message the process aborted with
    userFetches, faults, cancels,  \* environment budgets
    reads,        \* user fetches that read the cache, not yet processed
    phase,        \* shutdownCh, almostDoneCh, run()'s isShuttingDown, doneCh
    waiters       \* waiters[k]: the WaitChannelForBlockPrefetch call of k

vars == <<prefetches, rescheduled, requestQ, cancelQ, rescheduleQ, inflight,
          cache, panicked, userFetches, reads, faults, cancels, phase, waiters>>

PrefetchRec == [count: Int, triggered: BOOLEAN, req: Request,
                parents: SUBSET Link]
ReschedRec  == [timer: {"none", "armed", "fired"}, tries: 0..MaxBackoffs,
                req: Request]

\* "idle": not called yet; "queued": its request is in the request
\* channel; "watching": it holds the waitCh of the prefetch of ptr;
\* "released": its channel is closed; "failed": it returned an error.
WaiterRec == [st: {"idle", "queued", "watching", "released", "failed"},
              ptr: Ptr]

TypeOK ==
    /\ DOMAIN prefetches \subseteq Blocks
    /\ \A b \in DOMAIN prefetches : prefetches[b] \in PrefetchRec
    /\ DOMAIN rescheduled \subseteq Blocks
    /\ \A b \in DOMAIN rescheduled : rescheduled[b] \in ReschedRec
    /\ requestQ \in Seq(Request)
    /\ cancelQ \in Seq(Ptr)
    /\ rescheduleQ \in Seq(Request)
    /\ inflight \subseteq Ptr \X SUBSET Flags
    /\ cache \in [Blocks -> {"none"} \cup Statuses]
    /\ userFetches \in 0..MaxUserFetches
    /\ IsABag(reads)
    /\ BagToSet(reads) \subseteq RootPtrs \X UserActions \X Statuses
    /\ faults \in 0..MaxFaults
    /\ cancels \in 0..MaxCancels
    /\ phase \in Phases
    /\ waiters \in [Waiters -> WaiterRec]

Init ==
    /\ prefetches = <<>>
    /\ rescheduled = <<>>
    /\ requestQ = <<>>
    /\ cancelQ = <<>>
    /\ rescheduleQ = <<>>
    /\ inflight = {}
    /\ cache = [b \in Blocks |-> "none"]
    /\ panicked = NoPanic
    /\ userFetches = 0
    /\ reads = EmptyBag
    /\ faults = 0
    /\ cancels = 0
    /\ phase = "running"
    /\ waiters = [k \in Waiters |-> [st |-> "idle", ptr |-> CHOOSE p \in Ptr : TRUE]]

\* The world record a worker handler starts from.
World == [pf |-> prefetches, rs |-> rescheduled, done |-> {}, fin |-> {},
          fetch |-> {}, resched |-> <<>>, err |-> NoPanic]

\* What DoesCacheHaveSpace may answer (an error counts as room).
RoomAnswers == IF CacheMayFill THEN BOOLEAN ELSE {TRUE}

\* The cases a select between a channel send and <-p.shutdownCh may take:
\* "sent", "skipped" (shutdownCh is closed), or "closed" (the channel is
\* closed too, and the send panics).
SendOutcomes ==
    CASE phase = "running" -> {"sent"}
      [] phase = "exited"  -> {"skipped", "closed"}
      [] OTHER             -> {"sent", "skipped"}

SendOnClosed == "send on closed channel"

Send(q, x, o) == IF o = "sent" THEN Append(q, x) ELSE q

AfterSend(o) == IF o = "closed" THEN SendOnClosed ELSE NoPanic

\* Closing a prefetch (pp.Close) closes its waitCh: every waiter holding
\* the waitCh of a block that has left the map is released.
ReleaseGone(pf) ==
    [k \in Waiters |->
        IF waiters[k].st = "watching" /\ waiters[k].ptr[1] \notin DOMAIN pf
        THEN [waiters[k] EXCEPT !.st = "released"] ELSE waiters[k]]

\* The status a fetch of b returns: the cached one, NoPrefetch if new.
FetchedStatus(b) == IF cache[b] = "none" THEN "NoPrefetch" ELSE cache[b]

\* The block is now in the cache (with its status, if it was there).
Cached(b) == [cache EXCEPT ![b] = FetchedStatus(b)]

-----------------------------------------------------------------------------
(* The request handler of run() (lines 686-927).                           *)

StopIfNeededIgnoresRoom(req, hasRoom) ==
    Sync(req.action) \/ StopIfFull(req.action)

\* stopIfNeeded (lines 568-593): with no room, a syncing request is handed
\* to reschedulePrefetch and stops; any other stops only if it says so.
StopIfNeeded(req, hasRoom) ==
    ~hasRoom /\ (Sync(req.action) \/ StopIfFull(req.action))

ReschedulesOnFull(req, hasRoom) == ~hasRoom /\ Sync(req.action)

\* Lines 871-927: enumerate the children, then complete a tail, or add
\* numBlocks to the node and all its ancestors.
EnumerateChildren(w, id, isPrefetchNew, action) ==
    LET st == HandlePrefetch(w, id, isPrefetchNew, action)
    IN  IF st.w.err # NoPanic THEN st.w
        ELSE IF IsTail(id)
        THEN ApplyToParents([op |-> "complete", n |-> 0], id, st.w)
        ELSE IF st.num = 0 THEN st.w
        ELSE ApplyToParents([op |-> "add", n |-> st.num], id, st.w)

\* Lines 804-859: a node already in the tree is either re-triggered (only
\* when its action grows, after cancelling it if its count is 0) or
\* triggered for the first time (its own block leaves the count); a new
\* node enters the tree with count 0, already triggered.
TriggerNode(w, req) ==
    LET id == req.ptr[1] IN
    IF id \notin DOMAIN w.pf
    THEN EnumerateChildren([w EXCEPT !.pf = Put(@, id, NewTopPrefetch(req))],
                           id, TRUE, req.action)
    ELSE
    LET pre       == w.pf[id]
        newAction == Combine(pre.req.action, req.action)
    IN  IF pre.triggered
        THEN LET w1 == IF pre.count = 0 THEN CancelWalk(req.ptr, w) ELSE w
             IN  IF newAction = pre.req.action THEN w1
                 \* pre was just cancelled out of the map: request() finds
                 \* its first child's parent unknown
                 ELSE IF id \notin DOMAIN w1.pf
                 THEN Fail(w1, "prefetcher doesn't know about parent block")
                 ELSE EnumerateChildren([w1 EXCEPT !.pf[id].req.action = newAction],
                                        id, FALSE, req.action)
        ELSE IF pre.count = 0
        THEN Fail(w, "prefetch was in the tree, wasn't triggered, but had a block count of 0")
        ELSE LET w1 == ApplyToParents([op |-> "decrement", n |-> 1], id, w)
             IN  IF w1.err # NoPanic THEN w1
                 \* the walk removed pre: request() finds its parent unknown
                 ELSE IF id \notin DOMAIN w1.pf
                 THEN Fail(w1, "prefetcher doesn't know about parent block")
                 ELSE EnumerateChildren(
                          [w1 EXCEPT !.pf[id].triggered = TRUE,
                                     !.pf[id].req.action = newAction],
                          id, FALSE, req.action)

\* Lines 730-859 after the solo retrieval succeeded.
RequestBody(w, req, hasRoom) ==
    LET id      == req.ptr[1]
        waiting == id \in DOMAIN w.pf
        ind     == id \in Indirect
    IN
    IF req.status = "FinishedPrefetch" \/ IsTail(id)
    THEN IF waiting
         THEN IF w.pf[id].count < 0
              THEN Fail(w, "the subtreeBlockCount for a block should never be < 0")
              ELSE ApplyToParents([op |-> "complete", n |-> w.pf[id].count], id, w)
         ELSE IF req.status # "FinishedPrefetch" THEN [w EXCEPT !.fin = {id}]
         ELSE w
    ELSE IF ~Prefetch(req.action, ind)
    THEN IF waiting /\ ~Prefetch(w.pf[id].req.action, ind)
         THEN CancelWalk(req.ptr, w) ELSE w
    ELSE IF /\ req.status = "TriggeredPrefetch"
            /\ ~DeepSync(req.action)
            /\ waiting
            /\ Sync(req.action) = Sync(w.pf[id].req.action)
            /\ StopIfFull(req.action) = StopIfFull(w.pf[id].req.action)
    THEN w
    ELSE IF StopIfNeeded(req, hasRoom)
    THEN IF ReschedulesOnFull(req, hasRoom) THEN [w EXCEPT !.resched = <<req>>]
         ELSE w
    ELSE TriggerNode(w, req)

\* Blocks completed by a handler are re-fetched solo and put in the
\* caches as FinishedPrefetch; either call may fail (logged only).
CompletionFailures(w) ==
    IF faults < MaxFaults THEN SUBSET (w.done \cup w.fin) ELSE {{}}

\* reschedulePrefetch (lines 559-566), called by the worker itself (at
\* most once per handler): the send selects against shutdownCh.  The
\* worker only runs before its channels are closed, so it never panics.
ReschedulePrefetch(reqs) ==
    \E o \in SendOutcomes \ {"closed"} :
        rescheduleQ' = IF o = "sent" THEN rescheduleQ \o reqs ELSE rescheduleQ

\* Commit a handler's world to the variables.
Commit(w, failed, id) ==
    /\ prefetches' = w.pf
    /\ rescheduled' = w.rs
    /\ inflight' = inflight \cup w.fetch
    /\ ReschedulePrefetch(w.resched)
    /\ cache' = [b \in Blocks |->
                    IF b \in (w.done \cup w.fin) \ failed THEN "FinishedPrefetch"
                    ELSE Cached(id)[b]]
    /\ panicked' = w.err
    /\ faults' = IF failed = {} THEN faults ELSE faults + 1
    /\ waiters' = ReleaseGone(w.pf)

\* run() loops until it returns at the end of the drain.
WorkerRuns == phase # "exited"

\* The worker receives a request (lines 686-927).  A wait-channel request
\* (sendCh set) is answered at once with the prefetch's waitCh, or with
\* the always-closed channel if the block is not in the tree.
HandleRequest ==
    /\ WorkerRuns
    /\ requestQ # <<>>
    /\ LET req == Head(requestQ)
           id  == req.ptr[1]
           w0  == [World EXCEPT !.rs = ClearRescheduleState(@, id)]
       IN  IF req.waiter # NoWaiter
           THEN /\ rescheduled' = w0.rs
                /\ waiters' =
                     IF waiters[req.waiter].st # "queued" THEN waiters
                     ELSE [waiters EXCEPT ![req.waiter].st =
                             IF id \in DOMAIN prefetches THEN "watching"
                             ELSE "released"]
                /\ UNCHANGED <<prefetches, rescheduleQ, inflight, cache,
                               panicked, faults>>
           ELSE
           \/ \* the solo retrieval of the block fails
              /\ faults < MaxFaults
              /\ faults' = faults + 1
              /\ rescheduled' = w0.rs
              /\ UNCHANGED <<prefetches, rescheduleQ, inflight, cache, panicked,
                             waiters>>
           \/ \E hasRoom \in RoomAnswers :
                \E w \in {RequestBody(w0, req, hasRoom)} :
                   \E failed \in CompletionFailures(w) : Commit(w, failed, id)
    /\ requestQ' = Tail(requestQ)
    /\ UNCHANGED <<cancelQ, userFetches, reads, cancels, phase>>

\* The worker receives a cancel (lines 658-670).
HandleCancel ==
    /\ WorkerRuns
    /\ cancelQ # <<>>
    /\ LET ptr == Head(cancelQ)
           w   == CancelWalk(ptr, World)
       IN  IF ptr[1] \notin DOMAIN prefetches
           THEN UNCHANGED <<prefetches, rescheduled, waiters>>
           ELSE /\ prefetches' = w.pf
                /\ rescheduled' = w.rs
                /\ waiters' = ReleaseGone(w.pf)
    /\ cancelQ' = Tail(cancelQ)
    /\ UNCHANGED <<requestQ, rescheduleQ, inflight, cache, panicked,
                   userFetches, reads, faults, cancels, phase>>

\* The worker receives a reschedule (lines 671-685): the block enters the
\* tree if absent, takes the new request, and the walk reschedules its top
\* ancestor and cancels everything below it on the way.
HandleReschedule ==
    /\ WorkerRuns
    /\ rescheduleQ # <<>>
    /\ LET req == Head(rescheduleQ)
           id  == req.ptr[1]
           pre == IF id \in DOMAIN prefetches
                  THEN [prefetches[id] EXCEPT !.req = req]
                  ELSE NewPrefetch(1, FALSE, req)
           w   == ApplyToParents([op |-> "reschedule", n |-> 0], id,
                                 [World EXCEPT !.pf = Put(@, id, pre)])
       IN  /\ prefetches' = w.pf
           /\ rescheduled' = w.rs
           /\ waiters' = ReleaseGone(w.pf)
    /\ rescheduleQ' = Tail(rescheduleQ)
    /\ UNCHANGED <<requestQ, cancelQ, inflight, cache, panicked,
                   userFetches, reads, faults, cancels, phase>>

\* Mutant: the worker stops the timers but never sets isShuttingDown.
HandleAlmostDoneKeepsRunning ==
    /\ phase = "almostDone"
    /\ rescheduled' = [id \in DOMAIN rescheduled |->
                          ClearRescheduleState(rescheduled, id)[id]]
    /\ UNCHANGED <<prefetches, requestQ, cancelQ, rescheduleQ, inflight,
                   cache, panicked, userFetches, reads, faults, cancels, waiters,
                   phase>>

\* The worker receives almostDone (lines 928-935): it starts shutting
\* down and stops every backoff timer.
HandleAlmostDone ==
    /\ phase = "almostDone"
    /\ phase' = "draining"
    /\ rescheduled' = [id \in DOMAIN rescheduled |->
                          ClearRescheduleState(rescheduled, id)[id]]
    /\ UNCHANGED <<prefetches, requestQ, cancelQ, rescheduleQ, inflight,
                   cache, panicked, userFetches, reads, faults, cancels, waiters>>

\* Mutant: run() returns without waiting for the in-flight fetches.
DrainedQueuesOnly == requestQ = <<>> /\ cancelQ = <<>> /\ rescheduleQ = <<>>

\* The four channels run() checks before it returns (lines 642-647).
Drained ==
    /\ inflight = {}
    /\ requestQ = <<>> /\ cancelQ = <<>> /\ rescheduleQ = <<>>

\* run() returns once shutting down with all four channels empty (lines
\* 641-651); its deferred function closes doneCh and the channels.
Exit ==
    /\ phase = "draining"
    /\ Drained
    /\ phase' = "exited"
    /\ UNCHANGED <<prefetches, rescheduled, requestQ, cancelQ, rescheduleQ,
                   inflight, cache, panicked, userFetches, reads, faults, cancels,
                   waiters>>

-----------------------------------------------------------------------------
(* The goroutines feeding the worker.                                      *)

\* ProcessBlockForPrefetch (lines 962-991) with cacheOrCancelPrefetch
\* (949-960), stopIfNeeded and triggerPrefetch (939-947), run by the
\* retriever once block ptr[1] is fetched with the given cached status.
\* Each of the channel sends selects against shutdownCh.
ProcessBlockForPrefetch(ptr, status, action) ==
    LET b   == ptr[1]
        req == [ptr |-> ptr, action |-> action, status |-> status,
                waiter |-> NoWaiter]
    IN
    \E o \in SendOutcomes :
    /\ panicked' = AfterSend(o)
    /\ \/ \* finished (so already cached as such), or not to be prefetched:
          \* cache it with the status it came with; pass it on
          /\ status = "FinishedPrefetch" \/ ~Prefetch(action, b \in Indirect)
          /\ cache' = IF status = "FinishedPrefetch" THEN cache
                      ELSE [cache EXCEPT ![b] = status]
          /\ requestQ' = Send(requestQ, req, o)
          /\ UNCHANGED <<cancelQ, rescheduleQ, faults>>
       \/ /\ status # "FinishedPrefetch"
          /\ Prefetch(action, b \in Indirect)
          /\ \/ \* PutInCaches(TriggeredPrefetch) fails: cancel the prefetch
                /\ faults < MaxFaults
                /\ faults' = faults + 1
                /\ cancelQ' = Send(cancelQ, ptr, o)
                /\ UNCHANGED <<cache, requestQ, rescheduleQ>>
             \/ /\ cache' = [cache EXCEPT ![b] = "TriggeredPrefetch"]
                /\ \E hasRoom \in RoomAnswers :
                     IF StopIfNeeded(req, hasRoom)
                     THEN /\ rescheduleQ' = IF ReschedulesOnFull(req, hasRoom)
                                            THEN Send(rescheduleQ, req, o)
                                            ELSE rescheduleQ
                          /\ UNCHANGED requestQ
                     ELSE /\ requestQ' = Send(requestQ, req, o)
                          /\ UNCHANGED rescheduleQ
                /\ UNCHANGED <<cancelQ, faults>>

\* Callers of the public API that keep calling after done has closed.
Caller == phase # "exited" \/ CallsAfterExit

\* A user-driven fetch of a root block starts in the retriever, which reads
\* the block's prefetch status from the cache (NoPrefetch when the block
\* must come from the server).  reads is a bag: two fetches of one block
\* with one action are two calls.
UserFetch(ptr, action) ==
    /\ Caller
    /\ userFetches < MaxUserFetches
    /\ userFetches' = userFetches + 1
    /\ reads' = reads (+) SetToBag({<<ptr, action, FetchedStatus(ptr[1])>>})
    /\ UNCHANGED <<prefetches, rescheduled, requestQ, cancelQ, rescheduleQ,
                   inflight, cache, panicked, faults, cancels, phase, waiters>>

\* The user fetch completes: the retriever calls ProcessBlockForPrefetch
\* with the status it read, which the worker may have changed since.
UserFetchDone(r) ==
    /\ Caller
    /\ reads' = reads (-) SetToBag({r})
    /\ ProcessBlockForPrefetch(r[1], r[3], r[2])
    /\ UNCHANGED <<prefetches, rescheduled, inflight, userFetches, cancels,
                   phase, waiters>>

\* A retriever request issued by request() completes: successfully, and
\* the retriever hands the block to ProcessBlockForPrefetch, or with an
\* error (including the cancellation of the prefetch's context).
FetchDone(f) ==
    /\ inflight' = inflight \ {f}
    /\ ProcessBlockForPrefetch(f[1], FetchedStatus(f[1][1]), f[2])
    /\ UNCHANGED <<prefetches, rescheduled, userFetches, reads, cancels, phase,
                   waiters>>

FetchFails(f) ==
    /\ faults < MaxFaults
    /\ faults' = faults + 1
    /\ inflight' = inflight \ {f}
    /\ UNCHANGED <<prefetches, rescheduled, requestQ, cancelQ, rescheduleQ,
                   cache, panicked, userFetches, reads, cancels, phase, waiters>>

\* CancelPrefetch (lines 1020-1027) called from elsewhere in the client.
CancelPrefetchCall(ptr) ==
    /\ Caller
    /\ cancels < MaxCancels
    /\ cancels' = cancels + 1
    /\ \E o \in SendOutcomes :
          /\ cancelQ' = Send(cancelQ, ptr, o)
          /\ panicked' = AfterSend(o)
    /\ UNCHANGED <<prefetches, rescheduled, requestQ, rescheduleQ, inflight,
                   cache, userFetches, reads, faults, phase, waiters>>

\* The backoff timer armed by rescheduleTopBlock fires and calls
\* triggerPrefetch with the copied request (lines 554-556).
TimerFires(id) ==
    /\ rescheduled[id].timer = "armed"
    /\ rescheduled' = [rescheduled EXCEPT ![id].timer = "fired"]
    /\ \E o \in SendOutcomes :
          /\ requestQ' = Send(requestQ, rescheduled[id].req, o)
          /\ panicked' = AfterSend(o)
    /\ UNCHANGED <<prefetches, cancelQ, rescheduleQ, inflight, cache,
                   userFetches, reads, faults, cancels, phase, waiters>>

\* WaitChannelForBlockPrefetch (lines 995-1018): send a request carrying
\* the reply channel, selecting against shutdownCh.
WaitChannelForBlockPrefetch(k, ptr) ==
    /\ Caller
    /\ waiters[k].st = "idle"
    /\ \E o \in SendOutcomes :
          LET req == [ptr |-> ptr, action |-> BlockRequestSolo,
                      status |-> "NoPrefetch", waiter |-> k]
          IN  /\ requestQ' = Send(requestQ, req, o)
              /\ panicked' = AfterSend(o)
              /\ waiters' = [waiters EXCEPT ![k] =
                               [st |-> IF o = "sent" THEN "queued" ELSE "failed",
                                ptr |-> ptr]]
    /\ UNCHANGED <<prefetches, rescheduled, cancelQ, rescheduleQ, inflight,
                   cache, userFetches, reads, faults, cancels, phase>>

\* While it waits for the reply, the caller returns "Already shut down"
\* once shutdownCh is closed (lines 1009-1014).
WaitGivesUp(k) ==
    /\ waiters[k].st = "queued"
    /\ phase # "running"
    /\ waiters' = [waiters EXCEPT ![k].st = "failed"]
    /\ UNCHANGED <<prefetches, rescheduled, requestQ, cancelQ, rescheduleQ,
                   inflight, cache, panicked, userFetches, reads, faults, cancels,
                   phase>>

\* Shutdown (lines 1030-1034) closes shutdownCh once.
Shutdown ==
    /\ MayShutdown
    /\ phase = "running"
    /\ phase' = "shutdown"
    /\ UNCHANGED <<prefetches, rescheduled, requestQ, cancelQ, rescheduleQ,
                   inflight, cache, panicked, userFetches, reads, faults, cancels,
                   waiters>>

\* shutdownLoop (lines 318-336): once shutdownCh is closed it waits for
\* every in-flight fetch and then sends almostDone.
ShutdownLoopDone ==
    /\ phase = "shutdown"
    /\ inflight = {}
    /\ phase' = "almostDone"
    /\ UNCHANGED <<prefetches, rescheduled, requestQ, cancelQ, rescheduleQ,
                   inflight, cache, panicked, userFetches, reads, faults, cancels,
                   waiters>>

\* Every pointer the tree names.
TreePtrs == RootPtrs \cup UNION {ToSet(Children[b]) : b \in Blocks}

\* A panic aborts the process: nothing happens after it.
Next ==
    /\ panicked = NoPanic
    /\ \/ HandleRequest
       \/ HandleCancel
       \/ HandleReschedule
       \/ HandleAlmostDone
       \/ Exit
       \/ \E r \in RootPtrs, a \in UserActions : UserFetch(r, a)
       \/ \E r \in BagToSet(reads) : UserFetchDone(r)
       \/ \E f \in inflight : FetchDone(f) \/ FetchFails(f)
       \/ \E ptr \in TreePtrs : CancelPrefetchCall(ptr)
       \/ \E id \in DOMAIN rescheduled : TimerFires(id)
       \/ \E k \in Waiters, ptr \in RootPtrs : WaitChannelForBlockPrefetch(k, ptr)
       \/ \E k \in Waiters : WaitGivesUp(k)
       \/ Shutdown
       \/ ShutdownLoopDone

Spec == Init /\ [][Next]_vars

\* The worker is one goroutine that loops while any channel is ready, and
\* Go's select picks uniformly among the ready cases, so a channel that
\* stays non-empty while run() loops has its head taken again and again.
\* Only the channel's handler takes its head, so this is weak fairness of
\* each handler, written on the step that takes the head.  The retriever
\* answers every request (at the latest when the prefetch's context times
\* out) and finishes every user fetch it has started, a timer that is not
\* stopped fires, and shutdownLoop sends almostDone once its fetches are
\* done.  Callers of the API are not fair:
\* they may stop calling at any time.
Alive == panicked = NoPanic

Fairness ==
    /\ \/ []<>~(Alive /\ WorkerRuns /\ requestQ # <<>>)
       \/ []<><<requestQ # <<>> /\ requestQ' = Tail(requestQ)>>_requestQ
    /\ \/ []<>~(Alive /\ WorkerRuns /\ cancelQ # <<>>)
       \/ []<><<cancelQ # <<>> /\ cancelQ' = Tail(cancelQ)>>_cancelQ
    /\ \/ []<>~(Alive /\ WorkerRuns /\ rescheduleQ # <<>>)
       \/ []<><<rescheduleQ # <<>> /\ rescheduleQ' = Tail(rescheduleQ)>>_rescheduleQ
    /\ WF_vars(Alive /\ HandleAlmostDone)
    /\ WF_vars(Alive /\ Exit)
    /\ WF_vars(Alive /\ ShutdownLoopDone)
    /\ \A p \in TreePtrs :
          \/ []<>~(Alive /\ \E f \in inflight : f[1] = p)
          \/ []<><<\E f \in inflight : f[1] = p /\ inflight' = inflight \ {f}>>_inflight
    /\ \A id \in Blocks :
          WF_vars(Alive /\ id \in DOMAIN rescheduled /\ TimerFires(id))
    /\ \A r \in RootPtrs \X UserActions \X Statuses :
          \/ []<>~(Alive /\ Caller /\ BagIn(r, reads))
          \/ []<><<BagIn(r, reads) /\ reads' = reads (-) SetToBag({r})>>_reads

FairSpec == Spec /\ Fairness

-----------------------------------------------------------------------------
(* Properties.                                                             *)

\* The process never aborts: no walk drives a subtreeBlockCount below
\* zero (completePrefetch, decrementPrefetch), request() always finds the
\* parent it links a child to, and no untriggered node is left at zero.
\* The spec (section 9) leaves open whether a legal race reaches these.
NoPanicEver == panicked = NoPanic

\* The cache statuses the worker and ProcessBlockForPrefetch write behave
\* as PrefetchStatus promises: completePrefetch's FinishedPrefetch and
\* cacheOrCancelPrefetch's TriggeredPrefetch never move a block back, and
\* a block is finished only in a step that leaves its subtree cached.
Status == INSTANCE PrefetchStatus WITH status <- cache

StatusMonotone == Status!Spec

\* A waiter is told its block is done (its waitCh closed by prefetch.Close,
\* or the always-closed channel handed out by the request handler) only
\* when the prefetch is settled: never while a backoff timer is armed to
\* prefetch the block again.  rescheduleTopBlock closes waitCh (line 530)
\* as it arms that timer; spec section 6 says the signal is raised when
\* the whole subtree is prefetched.
Postponed(b) == b \in DOMAIN rescheduled' /\ rescheduled'[b].timer = "armed"

WaitReleasedOnlyWhenSettled ==
    [][\A k \in Waiters :
          waiters[k].st # "released" /\ waiters'[k].st = "released"
              => ~Postponed(waiters[k].ptr[1])]_vars

\* A block is put in the cache as FinishedPrefetch only once every block
\* of its subtree has been fetched: completePrefetch marks a root finished
\* exactly when the counts say nothing below it is outstanding.
FinishedSubtreeCached ==
    \A b \in Blocks :
        cache[b] = "FinishedPrefetch" =>
            \A d \in Descendants(b) : cache[d] # "none"

\* The links from nodes in the map to node b, one per (child, link).
LinksInto(b) ==
    {cl \in (DOMAIN prefetches) \X Link :
        cl[2] \in prefetches[cl[1]].parents /\ cl[2][2][1] = b}

\* The bookkeeping run() documents (lines 596-614): a node's
\* subtreeBlockCount is its own block while untriggered plus the counts
\* of the children linked to it.
CountMatchesSubtree ==
    \A b \in DOMAIN prefetches :
        prefetches[b].count =
            (IF prefetches[b].triggered THEN 0 ELSE 1)
            + MapThenSumSet(LAMBDA cl : prefetches[cl[1]].count, LinksInto(b))

\* Spec section 3, invariant 3: a block is active or rescheduled, never
\* both.
ActiveRescheduledDisjoint ==
    DOMAIN prefetches \cap DOMAIN rescheduled = {}

\* Spec section 5: shutdown cancels every active prefetch, so once run()
\* has returned and done is closed no prefetch is left in the tree and no
\* WaitChannelForBlockPrefetch caller still holds an open waitCh.
ShutdownCancelsAll ==
    phase = "exited" =>
        /\ DOMAIN prefetches = {}
        /\ \A k \in Waiters : waiters[k].st # "watching"

\* A caller of WaitChannelForBlockPrefetch whose request was sent gets its
\* channel, and that channel is eventually closed: by completePrefetch
\* when the subtree is done, or by a cancel or reschedule of the block.
WaitersEventuallyReleased ==
    \A k \in Waiters :
        waiters[k].st \in {"queued", "watching"} ~> waiters[k].st = "released"

\* Once the callers stop, every prefetch eventually leaves the tree: the
\* counts of every subtree reach zero.
PrefetchesDrain == <>[](DOMAIN prefetches = {})

\* After Shutdown, run() eventually drains its channels and returns, so
\* the done channel Shutdown hands back is closed.
ShutdownTerminates == phase = "shutdown" ~> phase = "exited"

\* A block ProcessBlockForPrefetch marks TriggeredPrefetch is eventually
\* marked FinishedPrefetch by completePrefetch, unless shutdown stops the
\* worker first.  This includes the mark a stale caller writes over a
\* finished block (cacheOrCancelPrefetch, line 982): the request it sends
\* with the mark makes the worker prefetch and finish the block again.
TriggeredEventuallyFinished ==
    \A b \in Blocks :
        cache[b] = "TriggeredPrefetch"
            ~> cache[b] = "FinishedPrefetch" \/ phase # "running"
=============================================================================
