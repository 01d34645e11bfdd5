----------------------------- MODULE DrawingState -----------------------------
(***************************************************************************)
(* The server's record of one drawing: drawing_state_service.py behind     *)
(* drawing_state_router.py, the registration in cad_interop.py and the     *)
(* review gate in agent_api.py.  The record is a handful of Redis keys;    *)
(* the handlers run concurrently and may be interleaved wherever they      *)
(* await Redis or S3.  A step of this module is one Redis call (or one     *)
(* transaction, or a run of calls that commute with everything else).      *)
(*                                                                         *)
(* A job is one pass of a plugin's upload worker: it sends a dirty batch,  *)
(* then commits a delta or a full snapshot as the answer tells it.         *)
(***************************************************************************)
EXTENDS Naturals, FiniteSets

CONSTANTS
    Jobs,         \* workers that may be served at the same time
    Analyses,     \* /cad/analyze requests
    Reviews,      \* review requests
    Ids,          \* S3 objects: snapshot and delta ids (uuid4, never reused)
    Entries,      \* members of the five dirty:* sets (set and handle)
    DirtyLimit,   \* DIRTY_THRESHOLD
    DeltaLimit,   \* DELTA_COUNT_THRESHOLD
    LargeDeltas,  \* may a delta reach DELTA_SIZE_THRESHOLD?
    Expiring,     \* bound: the keys whose time to live may pass (Keys); the
                  \* lock of a worker that is still at it is one of them
    None

ASSUME IdsFinite == IsFiniteSet(Ids) /\ None \notin Ids
ASSUME EntriesFinite == IsFiniteSet(Entries)
ASSUME ProcsApart ==
    /\ Jobs \cap Analyses = {}
    /\ Jobs \cap Reviews = {}
    /\ Analyses \cap Reviews = {}
    /\ None \notin Jobs
ASSUME LimitsPositive == DirtyLimit \in Nat \ {0} /\ DeltaLimit \in Nat \ {0}
ASSUME LargeDeltasBoolean == LargeDeltas \in BOOLEAN

Keys == {"lock", "dirty", "deltaPaths", "deltaCount", "figures", "pending", "snapshot"}
ASSUME ExpiringKeys == Expiring \subseteq Keys

VARIABLES
    lock,         \* lock:drawing:{id}:resync, the holder's token (the job)
    status, mode, \* status and changeMode
    snap,         \* currentSnapshotId (and currentSnapshotPath, set with it)
    dirty,        \* the dirty:* sets together
    dirtyCount,   \* the cached count
    deltas,       \* deltaPaths, as the set of its delta ids
    lasting,      \* deltaPaths has no time to live
    deltaCount,
    pendingAfter, \* pendingAfterResync
    issued,       \* ids given out so far
    base,         \* base_snapshot_id inside each uploaded delta
    pc,           \* where each job, analysis and review is
    local,        \* the variables of each of them
    failing,      \* resync/fail requests under way, by job
    seen,         \* observer: deltas each review has to reckon with
    moved,        \* observer: the drawing was replaced during the review
    outlived      \* observer: deltaCount expired before the list it counts

record == <<lock, status, mode, snap, dirty, dirtyCount, deltas, lasting, deltaCount, pendingAfter>>
requests == <<issued, base, failing>>
observed == <<seen, moved, outlived>>
vars == <<record, requests, observed, pc, local>>

Procs == Jobs \cup Analyses \cup Reviews
Statuses == {"LATEST", "DIRTY", "REVIEW_REQUIRED", "RESYNC_FAILED", "FULL_RESYNC_RUNNING"}
Modes == {"NONE", "INCREMENTAL_PENDING", "INCREMENTAL_READY",
          "FULL_RESYNC_PENDING", "FULL_RESYNC_RUNNING"}

JobPCs == {"idle", "add", "count", "read", "fresh", "mode", "status", "dirtyCount",
           "start", "mark", "snapshot", "head", "look", "commit",
           "delta", "check", "conflict", "deltaHead", "push", "incr", "srem", "left", "close"}
AnalysisPCs == {"idle", "fingerprint", "clear", "register"}
ReviewPCs == {"idle", "pointer", "list", "merge"}

\* batch: its entries; ref: the snapshot id it works with; obj: the object it
\* uploaded; n: a dirty count it read; full: a delta limit is reached; hit:
\* the lock held its token when it looked; got: the deltas a review loaded.
Locals == [batch : SUBSET Entries, ref : Ids \cup {None}, obj : Ids \cup {None},
           n : Nat, full : BOOLEAN, hit : BOOLEAN, got : SUBSET Ids]
NoLocals == [batch |-> {}, ref |-> None, obj |-> None,
             n |-> 0, full |-> FALSE, hit |-> FALSE, got |-> {}]

\* A resync/fail request: not there, sent, or past its GET of the lock.
Failing == {"no", "sent", "owner", "other"}

TypeOK ==
    /\ lock \in Jobs \cup {None}
    /\ status \in Statuses
    /\ mode \in Modes
    /\ snap \in Ids \cup {None}
    /\ dirty \in SUBSET Entries
    /\ dirtyCount \in Nat
    /\ deltas \in SUBSET Ids
    /\ lasting \in BOOLEAN
    /\ deltaCount \in Nat
    /\ pendingAfter \in BOOLEAN
    /\ issued \in SUBSET Ids
    /\ base \in [Ids -> Ids \cup {None}]
    /\ pc \in [Procs -> JobPCs \cup AnalysisPCs \cup ReviewPCs]
    /\ local \in [Procs -> Locals]
    /\ failing \in [Jobs -> Failing]
    /\ seen \in [Reviews -> SUBSET Ids]
    /\ moved \in [Reviews -> BOOLEAN]
    /\ outlived \in BOOLEAN

\* No key is set: get_state reads LATEST, NONE and zeros.
Init ==
    /\ lock = None
    /\ status = "LATEST"
    /\ mode = "NONE"
    /\ snap = None
    /\ dirty = {}
    /\ dirtyCount = 0
    /\ deltas = {}
    /\ lasting = FALSE
    /\ deltaCount = 0
    /\ pendingAfter = FALSE
    /\ issued = {}
    /\ base = [id \in Ids |-> None]
    /\ pc = [p \in Procs |-> "idle"]
    /\ local = [p \in Procs |-> NoLocals]
    /\ failing = [j \in Jobs |-> "no"]
    /\ seen = [r \in Reviews |-> {}]
    /\ moved = [r \in Reviews |-> FALSE]
    /\ outlived = FALSE

At(p, where) == pc[p] = where
Goto(p, where) == pc' = [pc EXCEPT ![p] = where]
Return(p) == Goto(p, "idle") /\ local' = [local EXCEPT ![p] = NoLocals]

\* The S3 object of a new id: presign_*_upload and the PUT, or the server's
\* own upload.
Stored(p, id, about) ==
    /\ id \notin issued
    /\ issued' = issued \cup {id}
    /\ base' = [base EXCEPT ![id] = about]
    /\ local' = [local EXCEPT ![p].obj = id]

\* _decide_next_mode.  deltaSize moves with deltaCount and is abstracted to
\* the choice tooBig.
MustResync(dirtied, many, tooBig) == dirtied >= DirtyLimit \/ many >= DeltaLimit \/ tooBig

------------------------------------------------------------------------------
(* dirty/bulk: apply_dirty_batch.                                          *)

\* While the lock is there the batch is not recorded; the answer is WAIT.
BulkDeferred(j) ==
    /\ At(j, "idle")
    /\ lock # None
    /\ pendingAfter' = TRUE
    /\ UNCHANGED <<lock, status, mode, snap, dirty, dirtyCount, deltas, lasting, deltaCount,
                   requests, observed, pc, local>>

BulkBegins(j, batch) ==
    /\ At(j, "idle")
    /\ lock = None
    /\ Goto(j, "add")
    /\ local' = [local EXCEPT ![j].batch = batch]
    /\ UNCHANGED <<record, requests, observed>>

BulkAdd(j) ==
    /\ At(j, "add")
    /\ pendingAfter' = FALSE
    /\ dirty' = dirty \cup local[j].batch
    /\ Goto(j, "count")
    /\ UNCHANGED <<lock, status, mode, snap, dirtyCount, deltas, lasting, deltaCount,
                   requests, observed, local>>

BulkCount(j) ==
    /\ At(j, "count")
    /\ \E tooBig \in {FALSE, LargeDeltas} :
          local' = [local EXCEPT
              ![j].n = Cardinality(dirty),
              ![j].full = MustResync(Cardinality(dirty), deltaCount, tooBig)]
    /\ Goto(j, "read")
    /\ UNCHANGED <<record, requests, observed>>

BulkReadSnapshot(j) ==
    /\ At(j, "read")
    /\ local' = [local EXCEPT ![j].ref = snap]
    /\ Goto(j, IF snap = None THEN "fresh" ELSE "mode")
    /\ UNCHANGED <<record, requests, observed>>

\* NO_SNAPSHOT: the answer is FULL_RESYNC.
BulkNoSnapshot(j) ==
    /\ At(j, "fresh")
    /\ mode' = "FULL_RESYNC_PENDING"
    /\ status' = "DIRTY"
    /\ dirtyCount' = local[j].n
    /\ Goto(j, "start")
    /\ UNCHANGED <<lock, snap, dirty, deltas, lasting, deltaCount, pendingAfter,
                   requests, observed, local>>

BulkMode(j) ==
    /\ At(j, "mode")
    /\ mode' = IF local[j].full THEN "FULL_RESYNC_PENDING" ELSE "INCREMENTAL_PENDING"
    /\ Goto(j, "status")
    /\ UNCHANGED <<lock, status, snap, dirty, dirtyCount, deltas, lasting, deltaCount, pendingAfter,
                   requests, observed, local>>

BulkStatus(j) ==
    /\ At(j, "status")
    /\ status' = "DIRTY"
    /\ Goto(j, "dirtyCount")
    /\ UNCHANGED <<lock, mode, snap, dirty, dirtyCount, deltas, lasting, deltaCount, pendingAfter,
                   requests, observed, local>>

BulkDirtyCount(j) ==
    /\ At(j, "dirtyCount")
    /\ dirtyCount' = local[j].n
    /\ Goto(j, IF local[j].full THEN "start" ELSE "delta")
    /\ UNCHANGED <<lock, status, mode, snap, dirty, deltas, lasting, deltaCount, pendingAfter,
                   requests, observed, local>>

------------------------------------------------------------------------------
(* resync/start, snapshots/presign and snapshots/commit.                   *)

\* A baseline asks for a resync without a dirty batch.
Baseline(j) ==
    /\ At(j, "idle")
    /\ Goto(j, "start")
    /\ UNCHANGED <<record, requests, observed, local>>

\* SET NX EX: refused (409) while another token is there.
ResyncStart(j) ==
    /\ At(j, "start")
    /\ failing[j] = "no"
    /\ IF lock = None
       THEN lock' = j /\ Goto(j, "mark") /\ UNCHANGED local
       ELSE Return(j) /\ UNCHANGED lock
    /\ UNCHANGED <<status, mode, snap, dirty, dirtyCount, deltas, lasting, deltaCount, pendingAfter,
                   requests, observed>>

ResyncMark(j) ==
    /\ At(j, "mark")
    /\ status' = "FULL_RESYNC_RUNNING"
    /\ mode' = "FULL_RESYNC_RUNNING"
    /\ Goto(j, "snapshot")
    /\ UNCHANGED <<lock, snap, dirty, dirtyCount, deltas, lasting, deltaCount, pendingAfter,
                   requests, observed, local>>

SnapshotStored(j, id) ==
    /\ At(j, "snapshot")
    /\ Stored(j, id, None)
    /\ Goto(j, "head")
    /\ UNCHANGED <<record, observed, failing>>

\* HEAD finds the object.
SnapshotHead(j) ==
    /\ At(j, "head")
    /\ Goto(j, "look")
    /\ UNCHANGED <<record, requests, observed, local>>

\* Extraction, presign, PUT or HEAD fails: the plugin calls resync/fail,
\* and that call may fail as well.
ResyncFails(j) ==
    /\ pc[j] \in {"snapshot", "head"}
    /\ Return(j)
    /\ failing' \in {failing, [failing EXCEPT ![j] = "sent"]}
    /\ UNCHANGED <<record, issued, base, observed>>

\* The commit's answer is late and the plugin gives up on it; the handler
\* does not know.
CommitTimesOut(j) ==
    /\ "lock" \in Expiring
    /\ pc[j] \in {"head", "look", "commit"}
    /\ failing[j] = "no"
    /\ failing' = [failing EXCEPT ![j] = "sent"]
    /\ UNCHANGED <<record, issued, base, observed, pc, local>>

SnapshotLooksAtLock(j) ==
    /\ At(j, "look")
    /\ local' = [local EXCEPT ![j].hit = (lock = j)]
    /\ Goto(j, "commit")
    /\ UNCHANGED <<record, requests, observed>>

Replaced == moved' = [r \in Reviews |-> ~At(r, "idle")]

SnapshotCommit(j) ==
    /\ At(j, "commit")
    /\ snap' = local[j].obj
    /\ status' = "LATEST"
    /\ mode' = "NONE"
    /\ deltaCount' = 0
    /\ dirtyCount' = 0
    /\ dirty' = {}
    /\ deltas' = {}
    /\ lasting' = FALSE
    /\ outlived' = FALSE
    /\ lock' = IF local[j].hit THEN None ELSE lock
    /\ Replaced
    /\ Return(j)
    /\ UNCHANGED <<pendingAfter, requests, seen>>

------------------------------------------------------------------------------
(* resync/fail: mark_resync_failed, and the time-to-live of the lock.      *)

FailLooksAtLock(j) ==
    /\ failing[j] = "sent"
    /\ failing' = [failing EXCEPT ![j] = IF lock = j THEN "owner" ELSE "other"]
    /\ UNCHANGED <<record, issued, base, observed, pc, local>>

FailMark(j) ==
    /\ failing[j] \in {"owner", "other"}
    /\ status' = "RESYNC_FAILED"
    /\ mode' = "FULL_RESYNC_PENDING"
    /\ lock' = IF failing[j] = "owner" THEN None ELSE lock
    /\ failing' = [failing EXCEPT ![j] = "no"]
    /\ UNCHANGED <<snap, dirty, dirtyCount, deltas, lasting, deltaCount, pendingAfter,
                   issued, base, observed, pc, local>>

\* A token that nobody will release expires in any case.
Abandoned(j) == pc[j] \notin {"mark", "snapshot", "head", "look", "commit"} /\ failing[j] = "no"

\* (mutant) The lock is renewed for as long as nobody has reported back.
LockHasNoTtl ==
    /\ lock # None
    /\ ~Abandoned(lock)
    /\ lock' = None
    /\ UNCHANGED <<status, mode, snap, dirty, dirtyCount, deltas, lasting, deltaCount, pendingAfter,
                   requests, observed, pc, local>>

LockExpires ==
    /\ lock # None
    /\ "lock" \in Expiring \/ Abandoned(lock)
    /\ lock' = None
    /\ UNCHANGED <<status, mode, snap, dirty, dirtyCount, deltas, lasting, deltaCount, pendingAfter,
                   requests, observed, pc, local>>

------------------------------------------------------------------------------
(* deltas/presign and deltas/commit: commit_delta.                         *)

DeltaStored(j, id) ==
    /\ At(j, "delta")
    /\ Stored(j, id, local[j].ref)
    /\ Goto(j, "check")
    /\ UNCHANGED <<record, observed, failing>>

\* Extraction, presign, PUT or HEAD fails: nothing is written.
DeltaFails(j) ==
    /\ pc[j] \in {"delta", "deltaHead"}
    /\ Return(j)
    /\ UNCHANGED <<record, requests, observed>>

DeltaCheck(j) ==
    /\ At(j, "check")
    /\ Goto(j, IF snap # None /\ local[j].ref # snap THEN "conflict" ELSE "deltaHead")
    /\ UNCHANGED <<record, requests, observed, local>>

\* (mutant) The change mode is written to the status key.
ConflictToStatus(j) ==
    /\ At(j, "conflict")
    /\ status' = "FULL_RESYNC_PENDING"
    /\ Return(j)
    /\ UNCHANGED <<lock, mode, snap, dirty, dirtyCount, deltas, lasting, deltaCount, pendingAfter,
                   requests, observed>>

\* 409: the batch goes back to the plugin's queue.
DeltaConflict(j) ==
    /\ At(j, "conflict")
    /\ mode' = "FULL_RESYNC_PENDING"
    /\ Return(j)
    /\ UNCHANGED <<lock, status, snap, dirty, dirtyCount, deltas, lasting, deltaCount, pendingAfter,
                   requests, observed>>

DeltaHead(j) ==
    /\ At(j, "deltaHead")
    /\ Goto(j, "push")
    /\ UNCHANGED <<record, requests, observed, local>>

DeltaPush(j) ==
    /\ At(j, "push")
    /\ deltas' = deltas \cup {local[j].obj}
    /\ lasting' = FALSE
    /\ Goto(j, "incr")
    /\ UNCHANGED <<lock, status, mode, snap, dirty, dirtyCount, deltaCount, pendingAfter,
                   requests, observed, local>>

DeltaIncr(j) ==
    /\ At(j, "incr")
    /\ deltaCount' = deltaCount + 1
    /\ outlived' = FALSE
    /\ \E tooBig \in {FALSE, LargeDeltas} :
          local' = [local EXCEPT ![j].full = deltaCount' >= DeltaLimit \/ tooBig]
    /\ Goto(j, "srem")
    /\ UNCHANGED <<lock, status, mode, snap, dirty, dirtyCount, deltas, lasting, pendingAfter,
                   requests, seen, moved>>

DeltaSrem(j) ==
    /\ At(j, "srem")
    /\ dirty' = dirty \ local[j].batch
    /\ Goto(j, "left")
    /\ UNCHANGED <<lock, status, mode, snap, dirtyCount, deltas, lasting, deltaCount, pendingAfter,
                   requests, observed, local>>

DeltaCountLeft(j) ==
    /\ At(j, "left")
    /\ local' = [local EXCEPT ![j].n = Cardinality(dirty)]
    /\ Goto(j, "close")
    /\ UNCHANGED <<record, requests, observed>>

DeltaClose(j) ==
    /\ At(j, "close")
    /\ LET compact == local[j].n >= DirtyLimit \/ local[j].full IN
       /\ status' = IF local[j].n = 0 /\ ~compact THEN "REVIEW_REQUIRED" ELSE "DIRTY"
       /\ mode' = IF compact THEN "FULL_RESYNC_PENDING" ELSE "INCREMENTAL_READY"
    /\ dirtyCount' = local[j].n
    /\ Return(j)
    /\ UNCHANGED <<lock, snap, dirty, deltas, lasting, deltaCount, pendingAfter, requests, observed>>

------------------------------------------------------------------------------
(* /cad/analyze: the first snapshot of a session.                          *)

AnalysisStored(a, id) ==
    /\ At(a, "idle")
    /\ Stored(a, id, None)
    /\ Goto(a, "fingerprint")
    /\ UNCHANGED <<record, observed, failing>>

\* check_and_store_fingerprint answers mismatch when the file has changed.
AnalysisFingerprint(a) ==
    /\ At(a, "fingerprint")
    /\ Goto(a, "clear") \/ Goto(a, "register")
    /\ UNCHANGED <<record, requests, observed, local>>

\* (mutant) The list is forgotten, the counters are reset.
ClearKeepsList(a) ==
    /\ At(a, "clear")
    /\ dirty' = {}
    /\ dirtyCount' = 0
    /\ deltaCount' = 0
    /\ outlived' = FALSE
    /\ Replaced
    /\ Goto(a, "register")
    /\ UNCHANGED <<lock, status, mode, snap, deltas, lasting, pendingAfter, requests, seen, local>>

\* clear_stale_caches
AnalysisClear(a) ==
    /\ At(a, "clear")
    /\ dirty' = {}
    /\ dirtyCount' = 0
    /\ deltas' = {}
    /\ lasting' = FALSE
    /\ deltaCount' = 0
    /\ outlived' = FALSE
    /\ Replaced
    /\ Goto(a, "register")
    /\ UNCHANGED <<lock, status, mode, snap, pendingAfter, requests, seen, local>>

\* register_initial_snapshot: unlike a commit it leaves the lists alone.
AnalysisRegister(a) ==
    /\ At(a, "register")
    /\ snap' = local[a].obj
    /\ status' = "LATEST"
    /\ mode' = "NONE"
    /\ deltaCount' = 0
    /\ dirtyCount' = 0
    /\ outlived' = FALSE
    /\ Replaced
    /\ Return(a)
    /\ UNCHANGED <<lock, dirty, deltas, lasting, pendingAfter, requests, seen>>

------------------------------------------------------------------------------
(* A review: _load_drawing_for_review and load_merged_drawing.             *)

\* The delta_count the gate reads decides what it loads, so a delta counts
\* for a review from its INCR on.
Committed == deltas \ {local[j].obj : j \in {j \in Jobs : At(j, "incr")}}
Current(ids, s) == {id \in ids : base[id] = s}

\* REVIEW_BLOCKING_STATUSES and REVIEW_BLOCKING_CHANGE_MODES
Blocked ==
    \/ mode \in {"INCREMENTAL_PENDING", "FULL_RESYNC_PENDING", "FULL_RESYNC_RUNNING"}
    \/ status = "FULL_RESYNC_RUNNING"
    \/ /\ dirtyCount > 0
       /\ ~(mode = "INCREMENTAL_READY" /\ deltaCount > 0 /\ snap # None)

\* (mutant) Off by one: a single delta is not merged.
GateSkipsOne(r) ==
    /\ At(r, "idle")
    /\ ~Blocked
    /\ snap # None
    /\ local' = [local EXCEPT ![r].ref = snap]
    /\ Goto(r, IF deltaCount > 1 THEN "pointer" ELSE "merge")
    /\ seen' = [seen EXCEPT ![r] = IF deltaCount = 0 THEN {} ELSE Current(Committed, snap)]
    /\ moved' = [moved EXCEPT ![r] = FALSE]
    /\ UNCHANGED <<record, requests, outlived>>

\* Only with a snapshot is there something to load; otherwise the review
\* goes on with the legacy cache.  Behind a zero it loads the snapshot alone
\* (NoHiddenDelta), else it has to reckon with every delta committed so far.
ReviewGate(r) ==
    /\ At(r, "idle")
    /\ ~Blocked
    /\ snap # None
    /\ local' = [local EXCEPT ![r].ref = snap]
    /\ Goto(r, IF deltaCount > 0 THEN "pointer" ELSE "merge")
    /\ seen' = [seen EXCEPT ![r] = IF deltaCount = 0 THEN {} ELSE Current(Committed, snap)]
    /\ moved' = [moved EXCEPT ![r] = FALSE]
    /\ UNCHANGED <<record, requests, outlived>>

\* load_merged_drawing reads the state again ...
ReviewPointer(r) ==
    /\ At(r, "pointer")
    /\ snap # None
    /\ local' = [local EXCEPT ![r].ref = snap]
    /\ Goto(r, "list")
    /\ UNCHANGED <<record, requests, observed>>

\* ... loads the snapshot, then LRANGE.
ReviewList(r) ==
    /\ At(r, "list")
    /\ local' = [local EXCEPT ![r].got = deltas]
    /\ Goto(r, "merge")
    /\ UNCHANGED <<record, requests, observed>>

Valid(r) == Current(local[r].got, local[r].ref)

\* A delta that leaves the list while a review is on its way to it is none
\* the review can hand over.
OnlyLeft(ids) ==
    seen' = [r \in Reviews |-> IF pc[r] \in {"pointer", "list"} THEN seen[r] \cap ids ELSE seen[r]]

\* The valid deltas are merged; if there were others the list is deleted and
\* written anew with the valid ones, without EXPIRE.
ReviewMerge(r) ==
    /\ At(r, "merge")
    /\ IF local[r].got # Valid(r)
       THEN /\ deltas' = Valid(r)
            /\ lasting' = (Valid(r) # {})
            /\ deltaCount' = Cardinality(Valid(r))
            /\ outlived' = FALSE
            /\ OnlyLeft(Valid(r))
       ELSE UNCHANGED <<deltas, lasting, deltaCount, outlived, seen>>
    /\ Return(r)
    /\ UNCHANGED <<lock, status, mode, snap, dirty, dirtyCount, pendingAfter,
                   requests, moved>>

\* The snapshot is gone or S3 does not deliver; the review falls back to the
\* legacy cache.
ReviewFails(r) ==
    /\ pc[r] \in {"pointer", "list", "merge"}
    /\ Return(r)
    /\ UNCHANGED <<record, requests, observed>>

------------------------------------------------------------------------------
(* The times to live: a day for the dirty sets, a quarter of an hour for    *)
(* pendingAfterResync, 90 days for the snapshot, a week for the rest.       *)
(* There is no clock: a key expires before another when it is never written *)
(* after it and does not live longer, and what a handler has just written   *)
(* does not expire before the handler is through.                           *)

Committing(j) == pc[j] \in {"incr", "srem", "left", "close"}

\* Some of the five sets: none to which a batch under way was added.
DirtyExpires(gone) ==
    /\ "dirty" \in Expiring
    /\ gone # {}
    /\ gone \subseteq dirty
    /\ \A j \in Jobs : At(j, "add") \/ gone \cap local[j].batch = {}
    /\ dirty' = dirty \ gone
    /\ UNCHANGED <<lock, status, mode, snap, dirtyCount, deltas, lasting, deltaCount, pendingAfter,
                   requests, observed, pc, local>>

\* A list that a review wrote anew stays.
ListExpires ==
    /\ "deltaPaths" \in Expiring
    /\ deltas # {}
    /\ ~lasting
    /\ \A j \in Jobs : ~Committing(j)
    /\ deltas' = {}
    /\ OnlyLeft({})
    /\ UNCHANGED <<lock, status, mode, snap, dirty, dirtyCount, lasting, deltaCount, pendingAfter,
                   requests, moved, outlived, pc, local>>

\* The count is written after every push, so it outlives a list that expires.
DeltaCountExpires ==
    /\ "deltaCount" \in Expiring
    /\ deltaCount > 0
    /\ deltas = {} \/ lasting
    /\ \A j \in Jobs : ~Committing(j)
    /\ deltaCount' = 0
    /\ outlived' = (deltas # {})
    /\ UNCHANGED <<lock, status, mode, snap, dirty, dirtyCount, deltas, lasting, pendingAfter,
                   requests, seen, moved, pc, local>>

\* (mutant) The cached figures live no longer than the sets.
FiguresExpireEarly ==
    /\ "figures" \in Expiring
    /\ deltas = {} \/ lasting
    /\ \A j \in Jobs : pc[j] \in {"idle", "add"} /\ failing[j] = "no"
    /\ status' \in {status, "LATEST"}
    /\ mode' \in {mode, "NONE"}
    /\ dirtyCount' \in {dirtyCount, 0}
    /\ UNCHANGED <<lock, snap, dirty, deltas, lasting, deltaCount, pendingAfter,
                   requests, observed, pc, local>>

\* status, changeMode and dirtyCount, together or apart: they are written
\* after the sets and after the list, and live a week too.
FiguresExpire ==
    /\ "figures" \in Expiring
    /\ dirty = {}
    /\ deltas = {} \/ lasting
    /\ \A j \in Jobs : pc[j] \in {"idle", "add"} /\ failing[j] = "no"
    /\ status' \in {status, "LATEST"}
    /\ mode' \in {mode, "NONE"}
    /\ dirtyCount' \in {dirtyCount, 0}
    /\ UNCHANGED <<lock, snap, dirty, deltas, lasting, deltaCount, pendingAfter,
                   requests, observed, pc, local>>

PendingExpires ==
    /\ "pending" \in Expiring
    /\ pendingAfter
    /\ pendingAfter' = FALSE
    /\ UNCHANGED <<lock, status, mode, snap, dirty, dirtyCount, deltas, lasting, deltaCount,
                   requests, observed, pc, local>>

\* Deltas do not renew it.
SnapshotExpires ==
    /\ "snapshot" \in Expiring
    /\ snap # None
    /\ snap' = None
    /\ UNCHANGED <<lock, status, mode, dirty, dirtyCount, deltas, lasting, deltaCount, pendingAfter,
                   requests, observed, pc, local>>

Expire ==
    \/ \E gone \in SUBSET dirty : DirtyExpires(gone)
    \/ ListExpires \/ DeltaCountExpires \/ FiguresExpire
    \/ PendingExpires \/ SnapshotExpires

------------------------------------------------------------------------------

Bulk(j) ==
    \/ BulkAdd(j) \/ BulkCount(j) \/ BulkReadSnapshot(j) \/ BulkNoSnapshot(j)
    \/ BulkMode(j) \/ BulkStatus(j) \/ BulkDirtyCount(j)

Resync(j) ==
    \/ ResyncStart(j) \/ ResyncMark(j)
    \/ \E id \in Ids : SnapshotStored(j, id)
    \/ SnapshotHead(j) \/ SnapshotLooksAtLock(j) \/ SnapshotCommit(j)

Fail(j) == FailLooksAtLock(j) \/ FailMark(j)

Delta(j) ==
    \/ \E id \in Ids : DeltaStored(j, id)
    \/ DeltaCheck(j) \/ DeltaConflict(j) \/ DeltaHead(j) \/ DeltaPush(j) \/ DeltaIncr(j)
    \/ DeltaSrem(j) \/ DeltaCountLeft(j) \/ DeltaClose(j)

Analysis(a) ==
    \/ \E id \in Ids : AnalysisStored(a, id)
    \/ AnalysisFingerprint(a) \/ AnalysisClear(a) \/ AnalysisRegister(a)

Review(r) ==
    \/ ReviewGate(r) \/ ReviewPointer(r) \/ ReviewList(r) \/ ReviewMerge(r) \/ ReviewFails(r)

Asks(j) ==
    \/ BulkDeferred(j)
    \/ \E batch \in (SUBSET Entries) \ {{}} : BulkBegins(j, batch)
    \/ Baseline(j)

Mishap(j) == ResyncFails(j) \/ CommitTimesOut(j) \/ DeltaFails(j)

Next ==
    \/ \E j \in Jobs : Asks(j) \/ Bulk(j) \/ Resync(j) \/ Fail(j) \/ Delta(j) \/ Mishap(j)
    \/ \E a \in Analyses : Analysis(a)
    \/ \E r \in Reviews : Review(r)
    \/ LockExpires
    \/ Expire

Spec == Init /\ [][Next]_vars

\* Handlers run on and timers fire.  A resync goes on or fails: the plugin
\* bounds the extraction (60 s) and every request.  Nobody has to ask for
\* anything, and nothing has to go wrong.
Fairness ==
    /\ \A j \in Jobs : /\ WF_vars(Bulk(j)) /\ WF_vars(Fail(j))
                       /\ WF_vars(Resync(j) \/ ResyncFails(j))
                       /\ WF_vars(Delta(j) \/ DeltaFails(j))
    /\ \A a \in Analyses : WF_vars(Analysis(a))
    /\ \A r \in Reviews : WF_vars(Review(r))
    /\ WF_vars(LockExpires)

FairSpec == Spec /\ Fairness

------------------------------------------------------------------------------
(* What the record promises.                                               *)

\* A review merges deltas only if deltaCount is positive, and the count is
\* not written together with the list: still, a committed delta of the
\* current snapshot is never behind a zero, but for a list that a review has
\* written anew (drawing_state_service.py 573-582, without EXPIRE) and whose
\* count has expired.
NoHiddenDelta ==
    snap # None /\ deltaCount = 0 /\ ~outlived => Current(Committed, snap) = {}

\* A review that passed the gate with a count hands over every delta of its
\* snapshot that was committed by then, unless the drawing was replaced while
\* it was loading; but for those that another review took off the list, or
\* that expired with it, before it read the list.
ReviewIsWhole ==
    [][\A r \in Reviews :
          ReviewMerge(r) /\ ~moved[r] => seen[r] \subseteq Valid(r)]_vars

\* Between requests the cached count (the UI and the gate go by it) covers
\* the dirty entries there are, and more only when entries have expired, and
\* neither good state stands over dirty entries; LATEST does not stand over
\* deltas either, but for a list that was written anew and never expires.
Quiet == (\A p \in Procs : At(p, "idle")) /\ (\A j \in Jobs : failing[j] = "no")

RecordIsExact ==
    Quiet =>
        /\ Cardinality(dirty) <= dirtyCount
        /\ status = "REVIEW_REQUIRED" => dirty = {}
        /\ status = "LATEST" => dirty = {} /\ (deltas = {} \/ lasting)

\* Batches are not deferred for ever: every resync lock goes away, the one
\* whose holder never reports back too.
DeferralEnds == (lock # None) ~> (lock = None)

\* drawing_state_service.py:553: it is stale deltas that are removed from the
\* list, and only a new snapshot makes a delta stale; agent_api.py:89: what a
\* review loads is the latest drawing.
CommittedStays ==
    [][snap # None /\ snap' = snap => Current(Committed, snap) \subseteq deltas']_vars

==============================================================================
