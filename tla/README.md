# TLA+ model of the KBFS block prefetcher

This directory models `src/libkbfs/prefetcher.go` (`blockPrefetcher`). The
other source file, `src/go/protocol/chat1/gregor.go`, holds generated protocol
data types and is not modelled.

## The system

The prefetcher keeps a forest of *prefetches*. Each one is a block whose
subtree is being fetched in the background. One worker goroutine, `run()`,
owns the two maps and serves three unbounded FIFO channels:

| channel | sent by | handler |
|---|---|---|
| `prefetchRequestCh` | `triggerPrefetch`, called by `ProcessBlockForPrefetch` (after the retriever fetched a block) and by backoff timers | lines 686-927 |
| `prefetchCancelCh` | `CancelPrefetch`, from the rest of the client and from `cacheOrCancelPrefetch` when `PutInCaches` fails | lines 658-670 |
| `prefetchRescheduleCh` | `reschedulePrefetch`, from `stopIfNeeded` when the sync cache is full | lines 671-685 |

A fourth wrapped channel, `inFlightFetches`, holds a handle for every
retriever request `request()` issues.

The worker's `select` takes whichever channel is ready. The order in which
goroutines send is therefore not the order in which the worker handles
their messages.

`WaitChannelForBlockPrefetch` sends a request carrying a reply channel
(`sendCh`) on the request channel. The worker answers it with the node's
`waitCh`, or with an always-closed channel if the block is not in the map.
`waitCh` is closed by `prefetch.Close`, whenever a node leaves the map.

Shutdown runs in four steps:
1. `Shutdown` closes `shutdownCh`, once.
2. `shutdownLoop` has been awaiting in-flight fetches. After the close it
   drains the remaining ones and sends `almostDone`.
3. `run()` receives `almostDone`. It stops every backoff timer and starts
   draining: it takes in-flight handles itself, and returns once all four
   channels are empty.
4. Its deferred function closes `doneCh` and the four channels.

Every sender (`triggerPrefetch`, `reschedulePrefetch`, `CancelPrefetch`,
`WaitChannelForBlockPrefetch`) selects between its send and
`<-shutdownCh`.

State of the worker:
- `prefetches`: block ID → `prefetch`. Its fields are `subtreeBlockCount`,
  `subtreeTriggered`, the request with its action, and `parents`: the
  parent pointers per RefNonce.
- `rescheduled`: block ID → backoff and timer.

Invariant documented at lines 596-614: a node's count is the number of
blocks of its subtree not yet fetched. A new child is entered with 1. The
decrement walk takes a node's own block off when the node is triggered. A
parent's count is increased by the child counts `request()` returns. A
completion subtracts along every parent link. A node is marked
`FinishedPrefetch` in the cache when its count reaches 0.

## Modules

| module | models | state / actions |
|---|---|---|
| `BlockRequestAction` | the action bundle (not in src/; modelled from spec section 6) | flag sets, `Prefetch`, `ChildAction`, `Combine` |
| `PrefetchForest` | the forest and the operations on it: `newPrefetch`, both recursive parent walks, `completePrefetch`, `decrementPrefetch`, `cancelPrefetch`, `rescheduleTopBlock`, `clearRescheduleState`, `request`, `handlePrefetch` | Pure operators on a *world* record: the two maps, the blocks completed, the fetches issued, the reschedules requested, and a panic message. A handler is one composed operator, so a panic in the middle of a walk aborts that handler as it aborts the process. |
| `Prefetcher` | `run()` with all its cases, `ProcessBlockForPrefetch`/`cacheOrCancelPrefetch`/`stopIfNeeded`/`triggerPrefetch`, `CancelPrefetch`, `WaitChannelForBlockPrefetch`, backoff timers, `Shutdown` and `shutdownLoop`, and the retriever and cache as environment | Variables: `prefetches`, `rescheduled`, the three queues, `inflight` (the prefetch fetches `request()` issued), `cache` (the prefetch status per cached block), `panicked`, `phase` (running, shutdown, almostDone, draining, exited), `waiters` (per WaitChannelForBlockPrefetch caller: idle, queued, watching, released, failed), `reads` (the user fetches that have read a cached status and not yet called `ProcessBlockForPrefetch`, a bag), and budgets. Actions: `HandleRequest`, `HandleCancel`, `HandleReschedule`, `HandleAlmostDone`, `Exit`, `UserFetch`, `FetchDone`, `FetchFails`, `UserFetchDone`, `CancelPrefetchCall`, `TimerFires`, `WaitChannelForBlockPrefetch`, `WaitGivesUp`, `Shutdown`, `ShutdownLoopDone`. |
| `PrefetchStatus` | the abstract promise about the statuses written into the caches | One variable, `status`. A step may move any block's status forward, never back; a block becomes `FinishedPrefetch` only in a step that leaves its whole subtree cached. `Prefetcher` is checked against it through `Status == INSTANCE PrefetchStatus WITH status <- cache`, and does not implement it (finding 9). |
| `MCPrefetcher` | trees and action sets for the configurations | |

How the model maps to the code:
- **Block content.** The content of a block is abstracted to its list of
  child pointers (`Children`). The `Indirect` set says which blocks are
  indirect.
- **Parents.** `parents` is the set of links `<<refNonce, parentPtr>>`.
  The code never keeps an empty bucket, so this set loses nothing.
- **Walk order.** The walks take links in `CHOOSE` order where Go ranges
  over a map in random order. On the trees checked, every link leads to a
  distinct ancestor chain, so the result does not depend on the order.
- **Retriever.** A fetch of block b returns b's cached status (or
  `NoPrefetch`). A user-driven fetch is two steps: `UserFetch` reads the
  status, and `UserFetchDone` later calls `ProcessBlockForPrefetch` with it.
  The worker runs in between, so the status may be stale. A prefetch
  fetch's status is read when it completes (`FetchDone`). A fetch may fail, which also stands for the cancellation
  of its context. When `PutInCaches` fails, the code calls `CancelPrefetch`.
- **Completion.** `completePrefetch`'s re-fetch and `PutInCaches` of a
  completed block may fail. That leaves the block without
  `FinishedPrefetch`.
- **Failures.** Every failure costs one unit of `MaxFaults`.
- **Backoff.** The exponential backoff's elapsed-time budget is abstracted
  to `MaxBackoffs` attempts (`BackOffStopped`).
- **Channel sends.** Each send selects against `shutdownCh` (`SendOutcomes`).
  While `run()` loops the send happens. Once `shutdownCh` is closed, Go's
  select may take either ready case: the send or the skip. After `run()`
  has closed the channels, the send case panics with "send on closed
  channel" (`AfterSend`). This assumes `InfiniteChannelWrapper.Close`
  closes its input channel; that code is not under src/.
- **Callers after shutdown.** `CallsAfterExit` says whether callers keep
  using the API after `doneCh` is closed. Backoff timers and retriever
  completions are not callers: they fire whenever they are armed or
  outstanding.
- **Waiters.** A waiter is `released` when its `waitCh` is closed, or when
  it is answered with the closed channel. It is `failed` when it gives up
  on `shutdownCh`. The caller's own `ctx.Done` cases are left out: they
  change no prefetcher state.
- **Dead code.** `pre.req == nil` (689-693) cannot happen because every
  `newPrefetch` gets a request, so it is not modelled. The same goes for
  `handlePrefetch`'s own `isTail` result (879-898) and the "unknown block
  type" error: tails are handled before `handlePrefetch` (line 733), and
  the model has no block of unknown type.

## Properties

- `NoPanicEver`: none of the code's panics is reached. These are a count
  below zero in `completePrefetch`/`decrementPrefetch`, an unknown parent
  in `request()`, and an untriggered node at 0.
- `FinishedSubtreeCached`: a block cached as `FinishedPrefetch` has every
  block of its subtree in the cache.
- `CountMatchesSubtree`: every node's count equals its own block (while
  untriggered) plus the counts of the children linked to it. This is the
  bookkeeping of lines 596-614.
- `ActiveRescheduledDisjoint`: spec section 3 invariant 3. No block is
  both in `prefetches` and in `rescheduled`.
- `TypeOK`.
- `StatusMonotone`: `Prefetcher` implements `PrefetchStatus` under
  `status <- cache`: no block's status ever moves back, and a block is
  finished only in a step that leaves its subtree cached. This is violated
  (finding 9). A weaker refinement that allowed the downgrade would only
  restate `FinishedSubtreeCached` (the model's cache never drops a block),
  so none is checked.
- `TriggeredEventuallyFinished` (liveness): while the prefetcher runs,
  every block marked `TriggeredPrefetch` is eventually marked
  `FinishedPrefetch`. This includes a mark a stale caller writes over a
  finished block, and a root re-delivered as `TriggeredPrefetch` while
  its prefetch waits, which the filter at line 781 skips.
- `ShutdownCancelsAll`: spec section 5. Once `run()` has returned, no
  prefetch is left in the map and no waiter still waits on a `waitCh`.
- `WaitersEventuallyReleased` (liveness): a waiter that has sent its
  request, or holds a `waitCh`, eventually sees it closed.
- `PrefetchesDrain` (liveness): eventually the map stays empty, so every
  prefetch completes, is cancelled or is rescheduled away.
- `WaitReleasedOnlyWhenSettled` (action property): a waiter is never told
  its block is done, by a closed `waitCh` or by the always-closed channel,
  in a step that leaves a backoff timer armed to prefetch the block again.
- `ShutdownTerminates` (liveness): once `Shutdown` is called, `run()`
  returns.

## Fairness

`FairSpec` adds fairness that the code justifies:
- **Worker.** `run()` is one goroutine that loops while any channel is
  ready, and Go's `select` picks uniformly among the ready cases. So a
  channel that stays non-empty while `run()` loops has its head taken
  again and again.
- **Retriever.** It answers every request, at the latest when the
  prefetch context's 24-hour deadline ends it. A user-driven fetch that
  has read the cache goes on to call `ProcessBlockForPrefetch`.
- **Timers and shutdown.** A timer that is not stopped fires. `shutdownLoop`
  and the `almostDone` case proceed once they can.
- **Callers.** They are not fair: they may stop calling at any time.

The worker and retriever conditions are written as
`[]<>~enabled \/ []<><<head taken>>_q`, not as `WF_vars(HandleRequest)`.
TLC's evaluation of `ENABLED` on the recursive handler bodies does not
terminate. Only the channel's handler takes its head, and the handler is
enabled whenever its channel is non-empty and `run()` loops, so the two
forms say the same.

## Runs (`MCPrefetcher_<run>.cfg`)

Every run has `Indirect = {}`, and every run but `shared` has `Nonces = {0}`. `CHECK_DEADLOCK FALSE` is
set because the worker legitimately idles once the queues are drained and
the environment's budgets are spent. After `run()` has returned, the
system stops.

| run | tree | bounds | expect |
|---|---|---|---|
| `reschedule_flat` | a→{b,c} | sync and deep-sync, cache may be full, user fetches ≤2, one waiter, fair | pass (893k states, ~1 min) |
| `deep` | a→b→{c,d} | mixed, user fetches ≤3, one waiter, `Shutdown` at any time, fair | pass (264k states, ~50 s) |
| `shared` | a→b@0, a2→{b@1,c} | mixed, faults ≤1, cancels ≤1 | pass (41k states) |
| `finish_after_put_failure` | a→b→{c,d} | prefetch only, faults ≤1 | violation of `FinishedSubtreeCached` |
| `panic_after_reschedule` | a→b→{c,d} | sync, full cache | violation of `NoPanicEver` |
| `active_and_rescheduled` | a→{b,c} | sync, full cache, one fetch | violation of `ActiveRescheduledDisjoint` |
| `cancel_after_shutdown` | a→{b,c} | one `CancelPrefetch`, callers after exit | violation of `NoPanicEver` |
| `timer_after_shutdown` | a→{b,c} | sync, full cache, two backoff attempts, shutdown | violation of `NoPanicEver` |
| `shutdown_leaves_prefetches` | a→{b,c} | mixed, one fetch, shutdown | violation of `ShutdownCancelsAll` |
| `waiter_released_on_reschedule` | a→{b,c} | sync, full cache, one fetch, one waiter | violation of `WaitReleasedOnlyWhenSettled` |
| `waiter_hangs_after_fetch_error` | a→b→{c,d} | mixed, one fault, one waiter, fair | violation of `WaitersEventuallyReleased` |
| `status_downgrade` | a→{b,c} | prefetch only, two user fetches | violation of `StatusMonotone` |

The bounds are enough for the cases that matter:
- One fault or cancel suffices to make a node leave the map while its
  children keep their links, which is the mechanism behind the first two
  findings.
- Two user fetches re-create a removed tree. A second fetch of a root
  re-delivers it as `TriggeredPrefetch`, which is the filter at line 781.
- One backoff attempt arms, fires and exhausts a timer.
- One waiter sees every answer: closed channel, `waitCh` or shutdown.
- `Shutdown` may come at any point, so it races every fetch, reschedule
  and cancel.
- Two user fetches of one root, both read before either is processed,
  open the window in which the worker finishes the block between a read
  and its use.
- The trees have depth 1 and depth 2, and a shared child linked to two
  parents under two RefNonces.

Each property of each passing run has a mutant (listed in `PROJECT.json`),
written as a plausible coding slip of the operator it replaces:
- dropping `isParentNew` from the recount condition;
- counting a new top block as unfetched;
- counting a new child as 0;
- passing `completePrefetch(1)` instead of `decrementPrefetch`;
- an off-by-one in the backoff stop;
- rescheduling a top block without deleting it from the map;
- returning from `run()` without checking `inFlightFetches.Len()`;
- handling `almostDone` without setting `isShuttingDown`;
- `stopIfNeeded` stopping a syncing request without asking whether the
  cache has room.

## Findings

1. **Premature `FinishedPrefetch` after a cache error** (code bug;
   `finish_after_put_failure`).
   - A grandchild's `PutInCaches` fails. `CancelPrefetch` then removes the
     grandchild, its parent and the root.
   - The grandchild's sibling keeps a link to the removed parent.
   - When the root is fetched again, the parent is re-created with a count
     of 1, its own block.
   - The sibling's completion then walks through the stale link, and the
     root is marked `FinishedPrefetch` although the cancelled block is not
     cached.
2. **Panic after a reschedule** (code bug; `panic_after_reschedule`).
   - The sync cache is full, so the root is rescheduled and the middle
     block is cancelled. Its children keep their links.
   - When the timer re-sends the root, the middle block is re-created with
     count 1.
   - A deep-sync request for the middle block decrements it to 0, and
     `request()` adds nothing: its children are still linked and
     `isParentNew` is false.
   - The next child completion reaches `panic("completePrefetch overstepped
     its bounds")`.
   - The same state is reachable with an external `CancelPrefetch` instead
     of a reschedule.
3. **A block both active and rescheduled** (spec/code divergence;
   `active_and_rescheduled`). The request handler only stops the timer
   (line 695) and then creates a new prefetch.

4. **Timer fires after `run()` returned** (code bug;
   `timer_after_shutdown`).
   - `rescheduleTopBlock` arms a backoff timer without checking
     `isShuttingDown`.
   - Timers are stopped only when `almostDone` arrives, so a reschedule
     handled during the drain arms a timer that outlives `run()`.
   - When it fires, `triggerPrefetch` may take the send on the closed
     request channel and panic.
5. **`CancelPrefetch` after shutdown can panic** (spec/code divergence;
   `cancel_after_shutdown`).
   - Spec section 8, scenario 6, says a post-shutdown `CancelPrefetch`
     returns silently with a warning.
   - Once `run()` has closed the channels, both cases of its select are
     ready, and the send panics.
6. **Shutdown cancels nothing** (spec/code divergence;
   `shutdown_leaves_prefetches`).
   - Spec section 5 says shutdown cancels all active prefetches
     transitively.
   - `run()` returns with nodes still in the map and never closes them.
   - Their contexts derive from a `context.Background` that nothing
     cancels.
7. **A waiter hangs after a fetch error** (spec gap;
   `waiter_hangs_after_fetch_error`).
   - After a retriever error below a watched node, the node never leaves
     the map. The deadline only cancels its context, so its `waitCh` is
     never closed.
   - The spec says such a prefetch may time out, and that the wait signal
     is raised when the subtree is prefetched. It does not say what the
     waiter sees.

8. **A waiter is released by a postponed prefetch** (spec/code divergence;
   `waiter_released_on_reschedule`).
   - A child of the root meets a full sync cache, so the worker reschedules
     the root.
   - `rescheduleTopBlock` deletes the root and closes its `waitCh` (line
     530) while it arms the timer that will prefetch the root again.
   - The root's waiter is released although nothing below the root is
     finished. Spec section 6 says the signal is raised when the whole
     subtree is prefetched.

9. **A finished block is marked triggered again** (spec gap;
   `status_downgrade`).
   - Two user fetches of a block read its status (`NoPrefetch`) from the
     cache.
   - The first is processed, and the worker prefetches and finishes the
     block: `FinishedPrefetch`.
   - The second `ProcessBlockForPrefetch` still carries `NoPrefetch`, and
     `cacheOrCancelPrefetch` (line 982) writes `TriggeredPrefetch` over
     `FinishedPrefetch`. The not-prefetched branch (line 975) writes its
     stale status the same way.
   - Spec section 6 says only that `PutInCaches` writes the given status.
     Unless the caches refuse a downgrade, the finished signal is taken
     back. The request sent with the mark makes the worker finish the
     block again, which `TriggeredEventuallyFinished` checks in `deep`.

## Not modelled

- The constructor's nil-retriever branch (lines 142-146). It shuts the
  prefetcher down before any goroutine starts.
- Priorities (`calculatePriority`), logging, and the block and key
  metadata carried in requests. These are data no property distinguishes.
- Whether a block whose backoff stopped is prefetched once the cache has
  room. The model answers `DoesCacheHaveSpace` afresh on every call, so
  "eventually has room" cannot be stated.
- No property for the ordering comment at lines 697-701 ("an initial
  prefetch request has always been processed before the wait channel
  request"). The order breaks only when the first request goes through
  the reschedule channel. Handling that reschedule deletes the block and
  closes its `waitCh`, so the waiter sees the same thing in either order.
  What it sees is the problem, and `WaitReleasedOnlyWhenSettled` covers it.
- The indirect-block branches of `Prefetch` and `ChildAction` (sync without
  the prefetch flag). Every action the spec names that syncs also
  prefetches, so these branches never change a result, and every run
  has `Indirect = {}`.
- The `maxNumPrefetches` ceiling (line 24). Spec section 5 says it caps
  the active map, but no code reads it, so there is no overflow path to
  model.
- The caches' own policy: eviction, and whether `PutInCaches` may lower a
  status. The model's cache keeps every block and stores what it is given.
- `src/go/protocol/chat1/gregor.go`: generated data types with no
  behaviour.
