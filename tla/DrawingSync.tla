----------------------------- MODULE DrawingSync ------------------------------
(***************************************************************************)
(* From the editor to the server's copy: what the user draws, what         *)
(* DrawingRevisionTracker.cs marks and flushes, what the worker extracts   *)
(* from AutoCAD and what the server then holds of each drawing.            *)
(*                                                                         *)
(* The worker is the one of BatchPipe, which UploadWorker implements; the  *)
(* server's handlers are single steps here (DrawingState opens them up).   *)
(* An edit is known by its number in the log of all edits.  The server's   *)
(* copy of an entity is the number of the edit it shows, 0 for none.       *)
(***************************************************************************)
EXTENDS Naturals, Sequences, FiniteSets

CONSTANTS
    Batches, NoBatch,
    Baselines,      \* session ids of RefreshSnapshotBaselineForActiveDocument
    Analyses,       \* session ids of /cad/analyze uploads
    Drawings, Handles,
    None,
    MaxEdits,       \* bound: edits in a behaviour
    MaxSwitches     \* bound: activations whose refresh has not run

ASSUME TasksApart ==
    /\ NoBatch \notin Batches
    /\ Batches \cap (Baselines \cup Analyses) = {}
    /\ Baselines \cap Analyses = {}
    /\ None \notin Drawings \cup Baselines
    /\ None \notin [drawing : Drawings, session : Baselines \cup Analyses]
ASSUME BoundsNat == MaxEdits \in Nat /\ MaxSwitches \in Nat

VARIABLES
    \* AutoCAD
    front,          \* MdiActiveDocument
    command,        \* CMDNAMES is not empty: no marshalled task runs
    log,            \* every edit so far
    \* the tracker
    context,        \* _drawingId and _currentCadSessionId
    marked,         \* the handle sets, as the edits that put a handle there
    activated,      \* refreshes enqueued by OnDocumentActivated
    greeted,        \* SESSION_INFO: "no", "queued" (its refresh), "done"
    stamp,          \* drawing and session of a batch, baseline or analysis
    load,           \* the edits whose handles a batch carries
    \* the worker
    pending, active, fate,
    due,            \* baseline tasks waiting for the semaphore
    serves,         \* the baseline task that holds it
    phase,          \* where the worker is
    base,           \* current_snapshot_id of the answer
    got,            \* what was extracted
    from,           \* (history) the document it was extracted from
    \* /cad/analyze
    analysis,       \* where each upload is
    shot,           \* what it extracted, until it is registered
    \* the server
    copy,           \* snapshot and deltas, merged
    serial,         \* how many snapshots there were: currentSnapshotId
    lock            \* the resync lock

editor == <<front, command, log>>
tracker == <<context, marked, activated, greeted>>
carried == <<stamp, load>>
pipe == <<pending, active, fate>>
extracted == <<got, from>>
worker == <<due, serves, phase, base, extracted>>
uploads == <<analysis, shot>>
server == <<copy, serial, lock>>
vars == <<editor, tracker, carried, pipe, worker, uploads, server>>

Pipe == INSTANCE BatchPipe

Sessions == Baselines \cup Analyses
Context == [drawing : Drawings, session : Sessions]
Edits == DOMAIN log
Numbers == 0..MaxEdits
Contents == [Handles -> Numbers]
Phases == {"idle", "send", "extract", "deltas", "check", "start", "extractAll", "snapshot", "clear"}

TypeOK ==
    /\ front \in Drawings
    /\ command \in BOOLEAN
    /\ log \in Seq([drawing : Drawings, handle : Handles, erases : BOOLEAN, silent : BOOLEAN])
    /\ context \in Context \cup {None}
    /\ marked \in SUBSET Edits
    /\ activated \in 0..MaxSwitches
    /\ greeted \in {"no", "queued", "done"}
    /\ stamp \in [Batches \cup Sessions -> Context \cup {None}]
    /\ load \in [Batches -> SUBSET Edits]
    /\ Pipe!PipeTypeOK
    /\ due \in SUBSET Baselines
    /\ serves \in Baselines \cup {None}
    /\ phase \in Phases
    /\ base \in Nat
    /\ got \in Contents
    /\ from \in Drawings \cup {None}
    /\ analysis \in [Analyses -> {"new", "sent", "registered", "done"}]
    /\ shot \in [Analyses -> Contents]
    /\ copy \in [Drawings -> Contents]
    /\ serial \in [Drawings -> Nat]
    /\ lock \in [Drawings -> BOOLEAN]

Nothing == [h \in Handles |-> 0]

\* The plugin is loaded into an editor with empty drawings; who its user is
\* it learns from SESSION_INFO.
Init ==
    /\ front \in Drawings
    /\ command = FALSE
    /\ log = <<>>
    /\ context = None
    /\ marked = {}
    /\ activated = 0
    /\ greeted = "no"
    /\ stamp = [x \in Batches \cup Sessions |-> None]
    /\ load = [b \in Batches |-> {}]
    /\ Pipe!Init
    /\ due = {}
    /\ serves = None
    /\ phase = "idle"
    /\ base = 0
    /\ got = Nothing
    /\ from = None
    /\ analysis = [a \in Analyses |-> "new"]
    /\ shot = [a \in Analyses |-> Nothing]
    /\ copy = [d \in Drawings |-> Nothing]
    /\ serial = [d \in Drawings |-> 0]
    /\ lock = [d \in Drawings |-> FALSE]

\* The edit that made the entity of drawing d what it is, 0 for none.
Latest(d, h) ==
    LET mine == {n \in Edits : log[n].drawing = d /\ log[n].handle = h}
    IN  IF mine = {} THEN 0 ELSE CHOOSE n \in mine : \A m \in mine : m <= n
IsThere(d, h) == Latest(d, h) # 0 /\ ~log[Latest(d, h)].erases
\* ExtractFull of drawing d.
Full(d) == [h \in Handles |-> Latest(d, h)]

------------------------------------------------------------------------------
(* The user, and the events AutoCAD raises for the tracker.                *)

CommandStarts ==
    /\ ~command
    /\ command' = TRUE
    /\ UNCHANGED <<front, log, tracker, carried, pipe, worker, uploads, server>>

\* An entity that was erased does not come back; a handle is not used twice.
\* An erasure is silent if the plugin makes it, with dirty events suppressed.
Happens(h, erases, silent) ==
    /\ Len(log) < MaxEdits
    /\ IF erases THEN IsThere(front, h) ELSE IsThere(front, h) \/ Latest(front, h) = 0
    /\ log' = Append(log, [drawing |-> front, handle |-> h, erases |-> erases, silent |-> silent])

\* MarkDirty: without a drawing id the event is ignored.
Edit(h, erases) ==
    /\ command
    /\ Happens(h, erases, FALSE)
    /\ marked' = IF context = None THEN marked ELSE marked \cup {Len(log')}
    /\ UNCHANGED <<front, command, context, activated, greeted,
                   carried, pipe, worker, uploads, server>>

\* (mutant) The batch asks AutoCAD which drawing it is of.
StampsFront(b, edits) ==
    /\ Pipe!Submit(b)
    /\ stamp' = [stamp EXCEPT ![b] =
                     [drawing |-> front, session |-> IF context = None THEN None ELSE context.session]]
    /\ load' = [load EXCEPT ![b] = edits]

Batch(b, edits) ==
    /\ Pipe!Submit(b)
    /\ stamp' = [stamp EXCEPT ![b] = context]
    /\ load' = [load EXCEPT ![b] = edits]

\* OnCommandEnded; FlushBatch empties the sets.
CommandEnds ==
    /\ command
    /\ command' = FALSE
    /\ IF marked # {} /\ context # None
       THEN /\ \E b \in Batches : Batch(b, marked)
            /\ marked' = {}
       ELSE UNCHANGED <<carried, pipe, marked>>
    /\ UNCHANGED <<front, log, context, activated, greeted, worker, uploads, server>>

\* Only CommandEnded is hooked.
CommandCancelled ==
    /\ command
    /\ command' = FALSE
    /\ UNCHANGED <<front, log, tracker, carried, pipe, worker, uploads, server>>

\* APPROVE_FIX and the orders of the chat: the edit is made with dirty events
\* suppressed and its handle goes into a batch of its own, whatever the
\* context is; the handle of an entity that the fix erases (DELETE, a replaced
\* block) goes there as a modified one too.
ApplyFix(h, erases) ==
    /\ ~command
    /\ Happens(h, erases, erases)
    /\ \E b \in Batches : Batch(b, {Len(log')})
    /\ UNCHANGED <<front, command, tracker, worker, uploads, server>>

------------------------------------------------------------------------------
(* Documents and sessions.                                                 *)

\* OnDocumentActivated: unhook, ResetForDocumentSwitch, enqueue a refresh.
ActivateDocument(d) ==
    /\ ~command
    /\ activated < MaxSwitches
    /\ front' = d
    /\ context' = None
    /\ marked' = {}
    /\ activated' = activated + 1
    /\ UNCHANGED <<command, log, greeted, carried, pipe, worker, uploads, server>>

SessionInfo ==
    /\ greeted = "no"
    /\ greeted' = "queued"
    /\ UNCHANGED <<editor, context, marked, activated, carried, pipe, worker, uploads, server>>

SetDrawingContext(s, d) ==
    /\ context' = [drawing |-> d, session |-> s]
    /\ marked' = {}

\* The refresh of the active document: a new session, the events hooked (to
\* the document in front), and a baseline task.
NewSession(s) ==
    /\ stamp[s] = None
    /\ SetDrawingContext(s, front)
    /\ stamp' = [stamp EXCEPT ![s] = context']
    /\ due' = due \cup {s}

\* Without org and device the refresh is skipped.
RefreshActivated ==
    /\ ~command
    /\ activated > 0
    /\ activated' = activated - 1
    /\ IF greeted = "no"
       THEN UNCHANGED <<context, marked, stamp, due>>
       ELSE \E s \in Baselines : NewSession(s)
    /\ UNCHANGED <<editor, greeted, load, pipe, serves, phase, base, extracted, uploads, server>>

\* The one of SESSION_INFO is skipped when there is a context.
RefreshGreeted ==
    /\ ~command
    /\ greeted = "queued"
    /\ greeted' = "done"
    /\ IF context # None
       THEN UNCHANGED <<context, marked, stamp, due>>
       ELSE \E s \in Baselines : NewSession(s)
    /\ UNCHANGED <<editor, activated, load, pipe, serves, phase, base, extracted, uploads, server>>

------------------------------------------------------------------------------
(* The worker sends a batch.                                               *)

Target == IF serves # None THEN stamp[serves].drawing ELSE stamp[active].drawing

TakeBatch(b) ==
    /\ phase = "idle"
    /\ Pipe!Take(b)
    /\ phase' = "send"
    /\ UNCHANGED <<editor, tracker, carried, due, serves, base, extracted, uploads, server>>

Empty == got' = Nothing /\ from' = None
Idle == phase' = "idle" /\ base' = 0 /\ Empty

\* WAIT: the lock is there, or the request failed (a batch without a drawing
\* id has no route); the batch is forgotten.
AnswerWait ==
    /\ phase = "send"
    /\ Pipe!Finish("waited")
    /\ Idle
    /\ UNCHANGED <<editor, tracker, carried, due, serves, uploads, server>>

\* dirty/bulk accepts the batch; at a limit it asks for a full resync, and
\* always without a snapshot.
Answer ==
    /\ phase = "send"
    /\ stamp[active] # None
    /\ ~lock[Target]
    /\ \/ phase' = "start" /\ UNCHANGED base
       \/ /\ serial[Target] > 0
          /\ phase' = "extract"
          /\ base' = serial[Target]
    /\ UNCHANGED <<editor, tracker, carried, pipe, due, serves, extracted, uploads, server>>

\* (mutant) A failure on the way, and nobody enqueues the batch again.
FailureForgets ==
    /\ active # NoBatch
    /\ phase \in {"extract", "deltas", "start"}
    /\ Pipe!Finish("waited")
    /\ Idle
    /\ UNCHANGED <<editor, tracker, carried, due, serves, uploads, server>>

\* A failure on the way: the batch goes back to the queue.
PutBack ==
    /\ active # NoBatch
    /\ phase \in {"extract", "deltas", "start"}
    /\ Pipe!PutBack
    /\ Idle
    /\ UNCHANGED <<editor, tracker, carried, due, serves, uploads, server>>

\* The erased handles a batch lists: those of the user's erasures.
Erasure(n) == log[n].erases /\ ~log[n].silent
Erased(b) == {log[n].handle : n \in {n \in load[b] : Erasure(n)}}
Put(b) == {log[n].handle : n \in load[b]} \ Erased(b)

\* ExtractByHandles, in the document in front; what is not there is skipped.
Extract ==
    /\ phase = "extract"
    /\ ~command
    /\ got' = [h \in Handles |->
                  IF h \in Put(active) /\ IsThere(front, h) THEN Latest(front, h) ELSE 0]
    /\ from' = front
    /\ phase' = "deltas"
    /\ UNCHANGED <<editor, tracker, carried, pipe, due, serves, base, uploads, server>>

\* The copy with the delta merged.
Merged(old) ==
    [h \in Handles |->
        IF h \in Erased(active)
        THEN CHOOSE n \in load[active] : log[n].handle = h /\ Erasure(n)
        ELSE IF got[h] # 0 THEN got[h] ELSE old[h]]

\* (mutant) The base of the delta is not looked at.
DeltaOfAnyBase ==
    /\ phase = "deltas"
    /\ copy' = [copy EXCEPT ![Target] = Merged(@)]
    /\ Pipe!Finish("committed")
    /\ Idle
    /\ UNCHANGED <<editor, tracker, carried, due, serves, uploads, serial, lock>>

\* deltas/commit, which refuses (PutBack) a delta of another snapshot.
CommitDelta ==
    /\ phase = "deltas"
    /\ base = serial[Target]
    /\ copy' = [copy EXCEPT ![Target] = Merged(@)]
    /\ Pipe!Finish("committed")
    /\ Idle
    /\ UNCHANGED <<editor, tracker, carried, due, serves, uploads, serial, lock>>

\* It is committed, but the answer is late or lost: the batch goes back to
\* the queue all the same.
DeltaAnswerLost ==
    /\ phase = "deltas"
    /\ base = serial[Target]
    /\ copy' = [copy EXCEPT ![Target] = Merged(@)]
    /\ Pipe!PutBack
    /\ Idle
    /\ UNCHANGED <<editor, tracker, carried, due, serves, uploads, serial, lock>>

------------------------------------------------------------------------------
(* Full snapshots: for a batch, or as a baseline.                          *)

\* What DropQueuedBatchesForPreviousSessions drops; a batch that its task has
\* not enqueued yet escapes.
Outdated(s) ==
    {b \in pending : /\ stamp[b] # None
                     /\ stamp[b].drawing = stamp[s].drawing
                     /\ stamp[b].session # stamp[s].session}

BaselineBegins(s) ==
    /\ phase = "idle"
    /\ s \in due
    /\ due' = due \ {s}
    /\ serves' = s
    /\ \E old \in SUBSET Outdated(s) : Pipe!Supersede(old)
    /\ phase' = "check"
    /\ UNCHANGED <<editor, tracker, carried, base, extracted, uploads, server>>

\* Is the document of the baseline still in front?
BaselineChecks ==
    /\ phase = "check"
    /\ ~command
    /\ IF front = Target
       THEN phase' = "start" /\ UNCHANGED serves
       ELSE phase' = "idle" /\ serves' = None
    /\ UNCHANGED <<editor, tracker, carried, pipe, due, base, extracted, uploads, server>>

\* An exception in a baseline ends it without clearing the sets.
BaselineThrows ==
    /\ serves # None
    /\ phase \in {"check", "start"}
    /\ phase' = "idle"
    /\ serves' = None
    /\ UNCHANGED <<editor, tracker, carried, pipe, due, base, extracted, uploads, server>>

\* However a resync ends, the batch it was for is done with, and a baseline
\* goes on to clear the sets.
ResyncEnds ==
    IF serves = None
    THEN Pipe!Finish("resynced") /\ Idle
    ELSE phase' = "clear" /\ Empty /\ UNCHANGED <<pipe, base>>

\* 409 under another's lock, or any other answer than success.
ResyncRefused ==
    /\ phase = "start"
    /\ ResyncEnds
    /\ UNCHANGED <<editor, tracker, carried, due, serves, uploads, server>>

StartResync ==
    /\ phase = "start"
    /\ ~lock[Target]
    /\ lock' = [lock EXCEPT ![Target] = TRUE]
    /\ phase' = "extractAll"
    /\ UNCHANGED <<editor, tracker, carried, pipe, due, serves, base, extracted, uploads, copy, serial>>

\* ExtractFull, in the document in front; a baseline checks the document in
\* the same marshalled call, the resync of a batch has no path to check.
ExtractAll ==
    /\ phase = "extractAll"
    /\ ~command
    /\ serves # None => front = Target
    /\ got' = Full(front)
    /\ from' = front
    /\ phase' = "snapshot"
    /\ UNCHANGED <<editor, tracker, carried, pipe, due, serves, base, uploads, server>>

\* (Committed with the answer lost ends the same way, by resync/fail.)
CommitSnapshot ==
    /\ phase = "snapshot"
    /\ copy' = [copy EXCEPT ![Target] = got]
    /\ serial' = [serial EXCEPT ![Target] = @ + 1]
    /\ lock' = [lock EXCEPT ![Target] = FALSE]
    /\ ResyncEnds
    /\ UNCHANGED <<editor, tracker, carried, due, serves, uploads>>

\* Null, a timeout, presign, PUT or commit: resync/fail, which may fail too
\* and then leaves the lock.
ResyncFails ==
    /\ phase \in {"extractAll", "snapshot"}
    /\ lock' \in {lock, [lock EXCEPT ![Target] = FALSE]}
    /\ ResyncEnds
    /\ UNCHANGED <<editor, tracker, carried, due, serves, uploads, copy, serial>>

\* RESYNC_LOCK_TTL is longer than a resync.
LockExpires(d) ==
    /\ lock[d]
    /\ ~(phase \in {"extractAll", "snapshot"} /\ Target = d)
    /\ lock' = [lock EXCEPT ![d] = FALSE]
    /\ UNCHANGED <<editor, tracker, carried, pipe, worker, uploads, copy, serial>>

\* ClearAllSets after the baseline, on a thread of the pool.
BaselineClears ==
    /\ phase = "clear"
    /\ marked' = {}
    /\ serves' = None
    /\ Idle
    /\ UNCHANGED <<editor, context, activated, greeted, carried, pipe, due, uploads, server>>

------------------------------------------------------------------------------
(* /cad/analyze: the user starts a review, a snapshot on the side.         *)

AnalysisSent(a) ==
    /\ analysis[a] = "new"
    /\ ~command
    /\ analysis' = [analysis EXCEPT ![a] = "sent"]
    /\ shot' = [shot EXCEPT ![a] = Full(front)]
    /\ stamp' = [stamp EXCEPT ![a] = [drawing |-> front, session |-> a]]
    /\ UNCHANGED <<editor, tracker, load, pipe, worker, server>>

\* register_initial_snapshot
AnalysisRegistered(a) ==
    /\ analysis[a] = "sent"
    /\ analysis' = [analysis EXCEPT ![a] = "registered"]
    /\ copy' = [copy EXCEPT ![stamp[a].drawing] = shot[a]]
    /\ serial' = [serial EXCEPT ![stamp[a].drawing] = @ + 1]
    /\ shot' = [shot EXCEPT ![a] = Nothing]
    /\ UNCHANGED <<editor, tracker, carried, pipe, worker, lock>>

\* The answer: the context becomes that of the analysis.
AnalysisAnswered(a) ==
    /\ analysis[a] = "registered"
    /\ ~command
    /\ analysis' = [analysis EXCEPT ![a] = "done"]
    /\ SetDrawingContext(a, stamp[a].drawing)
    /\ UNCHANGED <<editor, activated, greeted, carried, pipe, worker, shot, server>>

AnalysisFails(a) ==
    /\ analysis[a] \in {"sent", "registered"}
    /\ analysis' = [analysis EXCEPT ![a] = "done"]
    /\ shot' = [shot EXCEPT ![a] = Nothing]
    /\ UNCHANGED <<editor, tracker, carried, pipe, worker, server>>

------------------------------------------------------------------------------

User ==
    \/ CommandStarts \/ CommandEnds \/ CommandCancelled
    \/ \E h \in Handles : Edit(h, TRUE) \/ Edit(h, FALSE) \/ ApplyFix(h, TRUE) \/ ApplyFix(h, FALSE)
    \/ \E d \in Drawings : ActivateDocument(d)

Greeting == SessionInfo \/ RefreshActivated \/ RefreshGreeted

Sends ==
    \/ \E b \in Batches : TakeBatch(b)
    \/ AnswerWait \/ Answer \/ PutBack \/ Extract \/ CommitDelta \/ DeltaAnswerLost

Resyncs ==
    \/ \E s \in Baselines : BaselineBegins(s)
    \/ BaselineChecks \/ BaselineThrows \/ ResyncRefused \/ StartResync \/ ExtractAll
    \/ CommitSnapshot \/ ResyncFails \/ BaselineClears
    \/ \E d \in Drawings : LockExpires(d)

Analyse(a) == AnalysisSent(a) \/ AnalysisRegistered(a) \/ AnalysisAnswered(a) \/ AnalysisFails(a)

Next == User \/ Greeting \/ Sends \/ Resyncs \/ \E a \in Analyses : Analyse(a)

Spec == Init /\ [][Next]_vars

------------------------------------------------------------------------------
(* What should be true of the copy.                                        *)

\* The server's copy of an entity never goes back to an older version, though
\* batches are put back behind later ones and full snapshots come in between;
\* only two snapshots can pass each other, one of them /cad/analyze's (tracker
\* 415-437, 496-560, 716-759; cad_interop.py 419).  What does not count is an
\* entity of another drawing that replaces one, or is replaced.
Aside == \E a \in Analyses : analysis[a] # "new"
\* What is committed for a batch to its drawing was extracted from another one,
\* or the batch lists edits of another one: those of SwitchIsSafe.  A baseline
\* does not stray, however often documents are switched between its start, its
\* turn and its marshalled call.
Strayed ==
    /\ serves = None
    /\ \/ from # None /\ from # Target
       \/ phase = "deltas" /\ \E n \in load[active] : log[n].drawing # Target
CopyGoesForward ==
    [][\A d \in Drawings, h \in Handles :
          copy'[d][h] < copy[d][h] /\ log[copy[d][h]].drawing = d =>
              Strayed \/ (serial'[d] # serial[d] /\ Aside)]_vars

\* Who will tell the server of edit n: the copy has it; it is marked, in a
\* batch that waits, or in one that is being sent and will be or was
\* extracted with it; or a baseline is coming that has not extracted yet.
\* No batch brings a silent erasure.
Told(n) == copy[log[n].drawing][log[n].handle] = n
Brings(b, n) == IF log[n].erases THEN Erasure(n) /\ n \in load[b] ELSE log[n].handle \in Put(b)
Carried(n) ==
    \E b \in pending : stamp[b] # None /\ stamp[b].drawing = log[n].drawing /\ Brings(b, n)
Sent(n) ==
    /\ active # NoBatch
    /\ stamp[active] # None
    /\ Target = log[n].drawing
    /\ \/ phase \in {"send", "extract", "start"} /\ Brings(active, n)
       \/ phase = "deltas" /\ Erasure(n) /\ n \in load[active]
       \/ phase = "extractAll"
       \/ got[log[n].handle] = n
InBaseline(n) ==
    \/ \E s \in due : stamp[s].drawing = log[n].drawing
    \/ /\ serves # None
       /\ stamp[serves].drawing = log[n].drawing
       /\ phase \in {"check", "start", "extractAll"} \/ got[log[n].handle] = n
Marked(n) == n \in marked /\ context.drawing = log[n].drawing
Covered(n) == Told(n) \/ Marked(n) \/ Carried(n) \/ Sent(n) \/ InBaseline(n)

\* The steps that give an edit up, each with the lines that do.
GivesUp ==
    \/ AnswerWait                                  \* tracker 493-496
    \/ BaselineChecks \/ BaselineThrows \/ ResyncRefused \/ ResyncFails
                                                   \* tracker 656-660, 667, 685, 716-759
    \/ BaselineClears                              \* tracker 665
    \/ \E d \in Drawings : ActivateDocument(d)     \* tracker 163-168
    \/ RefreshActivated \/ RefreshGreeted          \* tracker 109
    \/ \E a \in Analyses : AnalysisRegistered(a) \/ AnalysisAnswered(a)
    \/ CommitSnapshot /\ Aside
    \/ /\ Extract \/ (ExtractAll /\ serves = None)
       /\ front # Target                           \* tracker 528, 698
    \/ (CommitDelta \/ DeltaAnswerLost \/ CommitSnapshot) /\ Strayed

\* The edits nobody is told of in the first place: an erasure by a fix or an
\* order of the chat, whose handle is sent as a modified one and found missing
\* (DrawingPatcher.cs 199-219; tracker 780-784, 515-556), and whatever happens
\* while the tracker has no context or that of another drawing.
NeverTold ==
    \/ \E h \in Handles : ApplyFix(h, TRUE)
    \/ context = None \/ context.drawing # front

\* Every edit is covered from the start, and no other step makes the tracker
\* forget it while it is the latest: not the flush, not a batch that is put
\* back or superseded, not a delta or a snapshot that was extracted before the
\* edit and is committed after it.
EditsStayCovered ==
    [][/\ \A n \in Edits :
             n = Latest(log[n].drawing, log[n].handle) /\ Covered(n) =>
                 \/ Covered(n)'
                 \/ n # Latest(log[n].drawing, log[n].handle)'
                 \/ GivesUp
       /\ \A n \in Edits' \ Edits : Covered(n)' \/ NeverTold]_vars

\* DrawingRevisionTracker.cs:382 and 406: since a batch carries its drawing
\* and session, it is safe to switch documents while it is worked on.
SwitchIsSafe ==
    \A d \in Drawings, h \in Handles :
        copy[d][h] # 0 => log[copy[d][h]].drawing = d

==============================================================================
