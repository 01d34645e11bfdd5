---------------------------- MODULE UploadWorker -----------------------------
(***************************************************************************)
(* The background upload of the AutoCAD plugin, one step per statement     *)
(* that other threads can see: DrawingRevisionTracker.cs runs a task per   *)
(* ended command (RunBatchOnBackgroundAsync), tasks that drain the retry   *)
(* queue (DrainRetryQueueAsync) and a task per refreshed drawing context   *)
(* (RunFullSnapshotBaselineAsync).  They share a ConcurrentQueue and a     *)
(* SemaphoreSlim(1, 1).  What happens to a batch between its dequeue and   *)
(* the answer is one step, SendBatch, with the endings the code has.       *)
(***************************************************************************)
EXTENDS Naturals, FiniteSets, SequencesExt

CONSTANTS
    Batches,    \* dirty batches; the task that runs batch b is called b too
    Drainers,   \* names for started DrainRetryQueueAsync tasks
    Baselines,  \* session ids; the baseline task of session s is called s too
    Drawings,   \* drawing ids
    NoBatch,
    NoContext,  \* the tracker between ResetForDocumentSwitch and the refresh
    Reliable    \* no request fails: what is lost then is lost without a failure

ASSUME BatchesFinite == IsFiniteSet(Batches)
ASSUME NamesApart ==
    /\ Batches \cap Drainers = {}
    /\ Batches \cap Baselines = {}
    /\ Drainers \cap Baselines = {}
    /\ NoBatch \notin Batches
ASSUME ReliableBoolean == Reliable \in BOOLEAN

VARIABLES
    context,    \* _drawingId and _currentCadSessionId of the tracker
    stamp,      \* the drawing and session ids each batch or baseline carries
    queue,      \* _retryQueue
    sem,        \* _workerSem.CurrentCount
    pc,         \* where each task is
    cur,        \* the batch each task took off the queue
    failed,     \* the hadFailure local of each task
    keep,       \* the keep list of each baseline task
    kicks,      \* DrainRetryQueueAsync tasks scheduled and not yet started
    fate        \* observer: how each batch stands

vars == <<context, stamp, queue, sem, pc, cur, failed, keep, kicks, fate>>

Tasks == Batches \cup Drainers \cup Baselines
Workers == Batches \cup Drainers
Context == [drawing : Drawings, session : Baselines]

Endings == {"committed", "resynced", "waited"}
Fates == {"new", "live", "superseded"} \cup Endings

PCs == {"idle", "enter", "refused", "enqueue", "loop", "send",
        "drop", "restore", "snapshot", "release", "check", "done"}

\* The statements between a successful WaitAsync and Release.
Critical == {"enqueue", "loop", "send", "drop", "restore", "snapshot",
             "release"}

TypeOK ==
    /\ context \in Context \cup {NoContext}
    /\ stamp \in [Batches \cup Baselines -> Context \cup {NoContext}]
    /\ queue \in Seq(Batches)
    /\ sem \in 0..1
    /\ pc \in [Tasks -> PCs]
    /\ cur \in [Tasks -> Batches \cup {NoBatch}]
    /\ failed \in [Tasks -> BOOLEAN]
    /\ keep \in [Baselines -> Seq(Batches)]
    /\ kicks \in Nat
    /\ fate \in [Batches -> Fates]

Init ==
    /\ context = NoContext
    /\ stamp = [t \in Batches \cup Baselines |-> NoContext]
    /\ queue = <<>>
    /\ sem = 1
    /\ pc = [t \in Tasks |-> "idle"]
    /\ cur = [t \in Tasks |-> NoBatch]
    /\ failed = [t \in Tasks |-> FALSE]
    /\ keep = [s \in Baselines |-> <<>>]
    /\ kicks = 0
    /\ fate = [b \in Batches |-> "new"]


Goto(t, to) == pc' = [pc EXCEPT ![t] = to]

------------------------------------------------------------------------------
(* The UI thread.                                                          *)

\* OnDocumentActivated: the context is blank until the refresh has run.
ResetForDocumentSwitch ==
    /\ context # NoContext
    /\ context' = NoContext
    /\ UNCHANGED <<stamp, queue, sem, pc, cur, failed, keep, kicks, fate>>

\* RefreshSnapshotBaselineForActiveDocument: a new session id, and a task
\* that will commit a full snapshot.
RefreshSnapshotBaseline(s, d) ==
    /\ pc[s] = "idle"
    /\ context' = [drawing |-> d, session |-> s]
    /\ stamp' = [stamp EXCEPT ![s] = context']
    /\ Goto(s, "enter")
    /\ UNCHANGED <<queue, sem, cur, failed, keep, kicks, fate>>

\* OnCommandEnded with pending changes, or CommitAutoFixDeltaAsync: a batch
\* is stamped with the context and handed to a task of its own.  The event
\* needs a drawing id, the fix does not ask for one.
SubmitBatch(b) ==
    /\ pc[b] = "idle"
    /\ stamp' = [stamp EXCEPT ![b] = context]
    /\ fate' = [fate EXCEPT ![b] = "live"]
    /\ Goto(b, "enter")
    /\ UNCHANGED <<context, queue, sem, cur, failed, keep, kicks>>

------------------------------------------------------------------------------
(* RunBatchOnBackgroundAsync.                                              *)

\* WaitAsync(0): it never blocks, the answer picks the branch.
RunEnter(b) ==
    /\ pc[b] = "enter"
    /\ IF sem > 0
       THEN /\ sem' = sem - 1
            /\ Goto(b, "enqueue")
       ELSE /\ Goto(b, "refused")
            /\ UNCHANGED sem
    /\ UNCHANGED <<context, stamp, queue, cur, failed, keep, kicks, fate>>

\* The semaphore was taken: leave the batch to the worker and return.
RunRefused(b) ==
    /\ pc[b] = "refused"
    /\ queue' = Append(queue, b)
    /\ Goto(b, "done")
    /\ UNCHANGED <<context, stamp, sem, cur, failed, keep, kicks, fate>>

RunEnqueue(b) ==
    /\ pc[b] = "enqueue"
    /\ queue' = Append(queue, b)
    /\ Goto(b, "loop")
    /\ UNCHANGED <<context, stamp, sem, cur, failed, keep, kicks, fate>>

------------------------------------------------------------------------------
(* DrainRetryQueueAsync.                                                   *)

\* (mutant) The answer of WaitAsync(0) is not looked at.
DrainBargesIn(d) ==
    /\ pc[d] = "idle"
    /\ kicks > 0
    /\ kicks' = kicks - 1
    /\ sem' = IF sem > 0 THEN sem - 1 ELSE 0
    /\ Goto(d, "loop")
    /\ UNCHANGED <<context, stamp, queue, cur, failed, keep, fate>>

\* A scheduled drain starts; when the semaphore is taken it just returns.
DrainEnter(d) ==
    /\ pc[d] = "idle"
    /\ kicks > 0
    /\ kicks' = kicks - 1
    /\ IF sem > 0
       THEN /\ sem' = sem - 1
            /\ Goto(d, "loop")
       ELSE UNCHANGED <<sem, pc>>
    /\ UNCHANGED <<context, stamp, queue, cur, failed, keep, fate>>

------------------------------------------------------------------------------
(* The drain loop, the same in both.                                       *)

Dequeue(t) ==
    /\ pc[t] = "loop"
    /\ queue # <<>>
    /\ cur' = [cur EXCEPT ![t] = Head(queue)]
    /\ queue' = Tail(queue)
    /\ Goto(t, "send")
    /\ UNCHANGED <<context, stamp, sem, failed, keep, kicks, fate>>

LoopEnds(t) ==
    /\ pc[t] = "loop"
    /\ queue = <<>>
    /\ failed' = [failed EXCEPT ![t] = FALSE]
    /\ Goto(t, "release")
    /\ UNCHANGED <<context, stamp, queue, sem, cur, keep, kicks, fate>>

\* The batch is done with: delta committed, full resync run (whatever came
\* of it), or the answer WAIT, which SendDirtyBatchAsync also makes up for
\* every failed request.
SendBatch(t, ending) ==
    /\ pc[t] = "send"
    /\ fate' = [fate EXCEPT ![cur[t]] = ending]
    /\ cur' = [cur EXCEPT ![t] = NoBatch]
    /\ Goto(t, "loop")
    /\ UNCHANGED <<context, stamp, queue, sem, failed, keep, kicks>>

\* HandleIncrementalAsync enqueues the batch again and returns normally (the
\* dispatcher timed out, nothing was extracted, presign or commit was
\* refused): the loop may take the same batch again at once, without an end,
\* while the semaphore stays taken.
Requeue(t) ==
    /\ pc[t] = "send"
    /\ ~Reliable
    /\ queue' = Append(queue, cur[t])
    /\ cur' = [cur EXCEPT ![t] = NoBatch]
    /\ Goto(t, "loop")
    /\ UNCHANGED <<context, stamp, sem, failed, keep, kicks, fate>>

\* (mutant) The catch does not enqueue the batch again.
ThrowLosesBatch(t) ==
    /\ pc[t] = "send"
    /\ ~Reliable
    /\ cur' = [cur EXCEPT ![t] = NoBatch]
    /\ failed' = [failed EXCEPT ![t] = TRUE]
    /\ Goto(t, "release")
    /\ UNCHANGED <<context, stamp, queue, sem, keep, kicks, fate>>

\* An exception (the S3 PUT, the resync start request): the loop's catch
\* enqueues the batch, remembers the failure and breaks.
SendThrows(t) ==
    /\ pc[t] = "send"
    /\ ~Reliable
    /\ queue' = Append(queue, cur[t])
    /\ cur' = [cur EXCEPT ![t] = NoBatch]
    /\ failed' = [failed EXCEPT ![t] = TRUE]
    /\ Goto(t, "release")
    /\ UNCHANGED <<context, stamp, sem, keep, kicks, fate>>

------------------------------------------------------------------------------
(* RunFullSnapshotBaselineAsync.                                           *)

\* (mutant) The queue is sorted out before the task has its turn.
BaselineBargesIn(s) ==
    /\ pc[s] = "enter"
    /\ Goto(s, "drop")
    /\ UNCHANGED <<context, stamp, queue, sem, cur, failed, keep, kicks, fate>>

\* WaitAsync(): the task waits for its turn.
BaselineEnter(s) ==
    /\ pc[s] = "enter"
    /\ sem > 0
    /\ sem' = sem - 1
    /\ Goto(s, "drop")
    /\ UNCHANGED <<context, stamp, queue, cur, failed, keep, kicks, fate>>

\* A queued batch is kept unless it is of the same drawing and another session.
Keeps(s, b) ==
    \/ stamp[b] = NoContext
    \/ stamp[b].drawing # stamp[s].drawing
    \/ stamp[b].session = stamp[s].session

\* DropQueuedBatchesForPreviousSessions: the queue is emptied into a list ...
SortOut(s) ==
    /\ pc[s] = "drop"
    /\ queue # <<>>
    /\ queue' = Tail(queue)
    /\ IF Keeps(s, Head(queue))
       THEN /\ keep' = [keep EXCEPT ![s] = Append(@, Head(queue))]
            /\ UNCHANGED fate
       ELSE /\ fate' = [fate EXCEPT ![Head(queue)] = "superseded"]
            /\ UNCHANGED keep
    /\ UNCHANGED <<context, stamp, sem, pc, cur, failed, kicks>>

SortedOut(s) ==
    /\ pc[s] = "drop"
    /\ queue = <<>>
    /\ Goto(s, "restore")
    /\ UNCHANGED <<context, stamp, queue, sem, cur, failed, keep, kicks, fate>>

\* ... and the list put back, behind what was enqueued in the meantime.
Restore(s) ==
    /\ pc[s] = "restore"
    /\ IF keep[s] = <<>>
       THEN /\ Goto(s, "snapshot")
            /\ UNCHANGED <<queue, keep>>
       ELSE /\ queue' = Append(queue, Head(keep[s]))
            /\ keep' = [keep EXCEPT ![s] = Tail(@)]
            /\ UNCHANGED pc
    /\ UNCHANGED <<context, stamp, sem, cur, failed, kicks, fate>>

\* (mutant) An early return that releases before finally does.
SnapshotReleases(s) ==
    /\ pc[s] = "snapshot"
    /\ sem' = sem + 1
    /\ Goto(s, "release")
    /\ UNCHANGED <<context, stamp, queue, cur, failed, keep, kicks, fate>>

\* The snapshot is committed, refused or fails; every way leads to finally.
BaselineSnapshot(s) ==
    /\ pc[s] = "snapshot"
    /\ Goto(s, "release")
    /\ UNCHANGED <<context, stamp, queue, sem, cur, failed, keep, kicks, fate>>

------------------------------------------------------------------------------
(* The finally blocks.                                                     *)

\* A finished drain leaves its name to the next one.
Finished(t) == IF t \in Drainers THEN "idle" ELSE "done"

\* (mutant) A failure leaves the semaphore taken.
ReleaseOnSuccess(t) ==
    /\ pc[t] = "release"
    /\ sem' = IF failed[t] THEN sem ELSE sem + 1
    /\ Goto(t, IF failed[t] THEN Finished(t) ELSE "check")
    /\ UNCHANGED <<context, stamp, queue, cur, failed, keep, kicks, fate>>

\* After a failure a worker does not look at the queue again; the baseline
\* task, whose failed stays FALSE, always does.
Release(t) ==
    /\ pc[t] = "release"
    /\ sem' = sem + 1
    /\ Goto(t, IF failed[t] THEN Finished(t) ELSE "check")
    /\ UNCHANGED <<context, stamp, queue, cur, failed, keep, kicks, fate>>

\* (mutant) The queue is not looked at after Release.
KickNever(t) ==
    /\ pc[t] = "check"
    /\ Goto(t, Finished(t))
    /\ UNCHANGED <<context, stamp, queue, sem, cur, failed, keep, kicks, fate>>

\* if (!_retryQueue.IsEmpty) Task.Run(DrainRetryQueueAsync)
Kick(t) ==
    /\ pc[t] = "check"
    /\ kicks' = IF queue # <<>> THEN kicks + 1 ELSE kicks
    /\ Goto(t, Finished(t))
    /\ UNCHANGED <<context, stamp, queue, sem, cur, failed, keep, fate>>

------------------------------------------------------------------------------

Editor ==
    \/ ResetForDocumentSwitch
    \/ \E s \in Baselines, d \in Drawings : RefreshSnapshotBaseline(s, d)
    \/ \E b \in Batches : SubmitBatch(b)

RunTask(b) == RunEnter(b) \/ RunRefused(b) \/ RunEnqueue(b)

BaselineWork(s) ==
    SortOut(s) \/ SortedOut(s) \/ Restore(s) \/ BaselineSnapshot(s)

\* The statements of a task that is past its entry, but for the failures.
Advance(t) ==
    \/ Dequeue(t)
    \/ LoopEnds(t)
    \/ \E ending \in Endings : SendBatch(t, ending)
    \/ Release(t)
    \/ Kick(t)

Setback(t) == Requeue(t) \/ SendThrows(t)

Next ==
    \/ Editor
    \/ \E b \in Batches : RunTask(b)
    \/ \E d \in Drainers : DrainEnter(d)
    \/ \E s \in Baselines : BaselineEnter(s) \/ BaselineWork(s)
    \/ \E t \in Tasks : Advance(t) \/ Setback(t)

Spec == Init /\ [][Next]_vars

\* The thread pool runs every task that can run.  A waiter of WaitAsync() is
\* served first come first served, so releases cannot pass it by for ever.
\* The user need not do anything.
Fairness ==
    /\ \A b \in Batches : WF_vars(RunTask(b))
    /\ WF_vars(\E d \in Drainers : DrainEnter(d))
    /\ \A s \in Baselines :
          SF_vars(BaselineEnter(s)) /\ WF_vars(BaselineWork(s))
    /\ \A t \in Tasks : WF_vars(Advance(t))

FairSpec == Spec /\ Fairness

------------------------------------------------------------------------------
(* What the worker is there for.                                           *)

Inside == {t \in Tasks : pc[t] \in Critical}

\* At most one task is between WaitAsync and Release, and the count of the
\* semaphore says whether there is one (DrawingRevisionTracker.cs:381, one
\* at a time is guaranteed): every path, the failing ones too, releases once.
OneWorker ==
    /\ \A t, u \in Inside : t = u
    /\ (sem = 1) <=> (Inside = {})

\* Where a batch is: in the hands of the task that brings it, being sent,
\* in the queue, or in the list a baseline has sorted out.
Places(b) ==
    {<<"hand", t, 0>> : t \in {b} \cap {c \in Batches : pc[c] \in {"enter", "refused", "enqueue"}}}
        \cup {<<"sent", t, 0>> : t \in {t \in Tasks : cur[t] = b}}
        \cup {<<"queue", b, i>> : i \in {i \in DOMAIN queue : queue[i] = b}}
        \cup UNION {{<<"keep", s, i>> : i \in {i \in DOMAIN keep[s] : keep[s][i] = b}} : s \in Baselines}

\* A batch without an ending is held in exactly one place, whatever failed
\* and whoever was refused; one with an ending is held nowhere, so that it is
\* not sent again.  (A commit whose answer is lost is no ending: its batch is
\* put back and sent again, tracker 621-628.)
HeldOnce ==
    \A b \in Batches :
        /\ fate[b] = "live" <=> Places(b) # {}
        /\ \A x, y \in Places(b) : x = y

\* A refreshed context gets its baseline once HandleIncrementalAsync stops
\* putting batches back: the drain loops do not starve its task, and no path,
\* the failing ones included, keeps the semaphore.  While the server refuses
\* presign or commit for good, a drain loop takes its own batch again and
\* again (tracker 399, 445) and the baseline does wait for ever.
BaselineRuns ==
    <>[][~\E t \in Tasks : Requeue(t)]_vars
        => \A s \in Baselines : (pc[s] = "enter") ~> (pc[s] = "done")

InQueue(b) == b \in ToSet(queue)

\* A batch that stands in the queue while a task is between WaitAsync and
\* Release is taken off it again, unless a worker met an exception: that is
\* how far looking at the queue once more after Release reaches.
InTimeIsServed ==
    \A b \in Batches :
        (InQueue(b) /\ Inside # {})
            ~> (~InQueue(b) \/ \E t \in Tasks : failed[t])

\* DrawingRevisionTracker.cs:437: the queue is used up without another
\* command ending, at least while no request fails.  (The comment at 386 says
\* why nothing should be left.)
QueueDrains ==
    \A b \in Batches : (fate[b] = "live") ~> (fate[b] # "live")

------------------------------------------------------------------------------
(* The promise it keeps.                                                   *)

InPipe == {b \in Batches : fate[b] = "live"}
Sending == {b \in Batches : \E t \in Tasks : cur[t] = b}

Pipe == INSTANCE BatchPipe WITH
    pending <- InPipe \ Sending,
    active <- IF Sending = {} THEN NoBatch ELSE CHOOSE b \in Sending : TRUE

\* Seen from outside, the tasks are one worker that takes one batch at a time.
ImplementsBatchPipe == Pipe!Spec

==============================================================================
