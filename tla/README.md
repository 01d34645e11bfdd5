# Verification of the Cadence AI drawing pipeline

Cadence AI reviews AutoCAD drawings against building regulations. A C# plugin
(`CadSllmAgent/`) runs inside AutoCAD, a FastAPI server (`backend/`) keeps the
drawings and runs the reviews with LangGraph agents, a React UI (`frontend/`)
shows the results; Redis, PostgreSQL and S3 hold the state.  What all of it
rests on is that the server reviews the drawing the user sees, that a review's
findings reach the right user once, and that approved fixes are applied once.
This directory holds TLA+ models of that part of the system, the TLC
configurations that check them on small instances and TLAPS proofs of what
matters most.  The reference for every definition is the source; the map from
definitions to lines is in `PROJECT.json`.

## 1. Inventory

| Component (source) | State | Operations | Hard behaviour | What makes it correct |
|---|---|---|---|---|
| Dirty tracking (`DrawingRevisionTracker.cs` 186-302) | five handle sets, suppression depth, "notified" flag | object events, `FlushBatch`, `ClearAllSets` | events arrive while a background task extracts; suppression is a counter | an edit is in a set, a batch or the server's copy |
| Upload worker (same file, 318-777) | `_retryQueue`, `_workerSem`, tasks | run a batch, drain, baseline | thread pool, lost wakeups, failures in the middle | one worker at a time, no batch lost or doubled |
| Drawing record (`drawing_state_service.py`, `drawing_state_router.py`) | a dozen Redis keys per drawing, a lock with TTL, S3 objects | bulk, presign, commit, resync start/fail, register, merge | every `await` is an interleaving point; TTLs | counters cover the sets, locks go away, a review sees every committed delta |
| Review gate (`agent_api.py` 73-147) | none of its own | block, load, merge | reads the record while it changes | blocks exactly when the copy is behind |
| Review session (`agent_api.py` 257-709 and 1139-1333, `review_cancel.py`, `ChatApp.tsx`, `useSocket.ts`) | a set of cancelled sessions in the process, the spinner and the list of the browser | start, cancel, progress, finish | HTTP beside a WebSocket: a cancel races a start or a result; a second review of the session | the spinner ends; results replace results |
| Decisions (`state_service.py`, `websocket.py`, `SocketMessageHandler.cs`) | rows of `review_results` in PostgreSQL, `_pendingEntities` in the plugin | approve, reject, one or all; FIX_RESULT | a decision in flight meets another one, or the next review | an entry is carried out once, a fix never after its rejection; rows tell what happened |
| Proposals (`websocket.py` 300-411, 853-923) | `_batch_proposals`, a dict of the process | create, replace, modify; approve, reject | a 5 s wait for the plugin, answers after it | objects stay exactly if approved |
| Sockets (`socket_manager.py`, `SocketClient.cs`) | groups of connections, pending queue | connect, disconnect, send, broadcast | sends to connections that die; reconnect with backoff; queue at its limit | no send blocks the others |
| Extraction upload (`cad_interop.py` 224-331, `ApiClient.cs` 112-282) | staged chunks in Redis | chunk, merge, analyse | lost, repeated or interleaved chunk series | a merged drawing is one series, whole |
| Task dispatcher (`SafeTaskDispatcher.cs`) | queue of UI-thread tasks | enqueue, idle pump | commands block the pump | every task runs or fails |
| Licences, devices, versions (`license_api.py`, `plugin_api.py`, `UpdateChecker.cs`) | rows of `licenses` and `devices` | verify, register, download | one row per request | a machine has one device row (unique `machine_id`) |
| Sessions and memory (`agent_service.py`, `state_service.py`, `memory_service.py`, `memory_summary_node.py`) | chat rows, `summary_text`, `recent_chat`, rows of fixes | create, append, write back | a review and a chat turn write back what they read minutes ago; the two halves of the memory are two commits | the memory is the answered turns, in order, each once |
| Chat commands (`websocket.py` 40-796, `common/draw_command.py`, the `sub/action.py` of the domains, `DrawingPatcher.cs`) | the drawing, the browser's selection, proposals | recognise, ask the model, index by handle, preview, apply | three ways from a message to the drawing, which read handles, words and the copy differently; the plugin holds what the server has not seen | nothing but what was selected, named or approved changes |
| Pipe review (`services/agents/pipe`, `pipe_review_node.py`) | the results of its parts while it runs | topology, geometry, rules, checks, merge, fixes | parts run beside each other and fail one by one; findings meet under keys of different forms | no sure finding loses its fix, nothing uncertain is repaired automatically, nothing is shown twice |
| Electrical, fire and architectural reviews (`services/agents/elec`, `fire`, `arch`, `elec_review_node.py`) | the results of their parts while they run | topology, geometry, rules, checks, merge, fixes | no `return_exceptions`: one part that fails ends the review while the others run on; entities that occur twice | circuits are whole, every lonely head has a fix, nothing accuses itself |
| Search for rules (`sub/query.py`, `query_builder.py`, `rag_engine.py`, `vector_service.py` 572-606) | none | queries, merge, judgement, rerank | limits on queries and chunks, a second round, queries that fail | no system of the drawing goes unasked, no chunk found is lost while there is room |
| Compliance (`sub/review/compliance.py` of the domains) | none | ask by parts, filter, merge, rate | a drawing too long for one call; filters that drop claims | no founded claim is dropped |
| Chat and routing (`services/graph/nodes`, `arch_pipe_layer_split.py`, `common/*.py`) | cache of an organisation's rules, cache of block names | intent, layout, names, tools, answer | caches that outlive what they hold | an answer rests on what was saved, drawn and retrieved |
| Rest of the UI (`frontend/`) | stores | render, forms | - | shows the server's state |
| Documents, scheduler, evaluation, installer, updater | files, S3, jobs | sequential jobs | - | - |

The plugin and the server meet over HTTP (`ApiClient.cs`: dirty/bulk,
presign, commit, resync) and over a WebSocket (fix commands, state changes).
The server's handlers are coroutines of one or several processes over one
Redis; nothing but Redis' single commands and `MULTI/EXEC` is atomic.  Inside
the plugin the UI thread raises events and thread-pool tasks do the network
work; they meet in a `ConcurrentQueue`, a `SemaphoreSlim` and a lock.

The hazards found while reading and modelling are listed
at their lines in `PROJECT.json`, with the properties that would catch them, or
the reason why none does yet.

## 2. Modules and how they correspond to the code

```
BatchPipe  <--- refines ---  UploadWorker  <--- proofs ---  UploadWorker_proofs
    ^
    | instance
DrawingSync  <--- proofs ---  DrawingSync_proofs

DrawingState  <--- proofs ---  DrawingState_proofs

ReviewSession  <--- proofs ---  ReviewSession_proofs

SafeTasks
    ^
    | extends
Proposals  <--- proofs ---  Proposals_proofs (of both)
    +--- extends --->  PluginLink

Analysis  <--- proofs ---  Analysis_proofs
    |                             | extends
    |                             +------------->  ChunkUpload_proofs, Conversation_proofs
    +-- extends -->  ChunkUpload  <--- proofs ---  ChunkUpload_proofs
    |
    +-- extends -->  DomainReviews
    |                  |-- extends -->  PipeReview --> Compliance, RuleSearch --+
    |                  |-- extends -->  FireReview ----------------------------+--> ReviewMerge
    |                  +-- extends -->  ElecReview --> ElecSymbols -------------+      |
    |                                                                          PipeTopology
    +-- instance -->  ChatCommands --> FireAction --> ElecAction --> PipeAction
    |                                                       --> DrawCommand --> Patcher
    +-- extends -->  Conversation  <--- proofs ---  Conversation_proofs
                          +--> AgentAnswer --> AgentRouting --> ObjectMap --> LayerSplit
                                    +--------> RagContext
```

The `MC...` modules add what TLC needs: symmetries, the set of tasks, the
chunks and the drawings; `ReviewSession` is checked as it is.

**BatchPipe** says what the plugin's upload promises: a batch waits in a pool,
one batch at a time is worked on, and a batch leaves for good as committed,
resynced, waited or superseded, exactly once.

**UploadWorker** is `DrawingRevisionTracker.cs` 318-777 as a concurrent
program: `RunBatchOnBackgroundAsync` (one task per batch), `DrainRetryQueueAsync`
and `RunFullSnapshotBaselineAsync`, with `_retryQueue`, `_workerSem` and the
locals of each task. One action is one step between two points where another
task may run: `WaitAsync(0)`, the enqueue after its refusal, each dequeue, the
end of the loop, each outcome of a batch, the sorting of the queue by a
baseline, `Release`, and the look at the queue after it. `fate` is an
observer. What the network answers is a choice of the ending; a batch that
`HandleIncrementalAsync` puts back (505-511, 541, 553, 573, 628) comes back to
the queue as often as the network says so, and the same loop takes it again.

**DrawingState** is the server's record of one drawing
(`drawing_state_service.py`, `drawing_state_router.py`), the registration by
`/cad/analyze` (`cad_interop.py` 377-440) and the gate and load of a review
(`agent_api.py` 73-147). One action is one Redis call, one `MULTI/EXEC`, or a
run of calls that commute with all others; handlers interleave at every await.
A *job* is one pass of a plugin's upload worker. Keys expire one by one, as
their lifetimes allow: some of the `dirty:*` sets, which live a day, before the
figures, which live a week and are renewed by fewer calls; the list of deltas,
which lives a week from its last push, before its count, unless a review's prune
wrote it anew, for then (573-587) the list has no lifetime any more (`lasting`)
and its count may go first (`outlived`); the pointer to the snapshot; the flag
of a pending batch; the lock. Abstractions: the five `dirty:*` sets are one set
of entries and their `SADD`s one step; the delta's
size is the choice `tooBig`; time stamps, paths, `lastError` and the
fingerprint's value are left out; the resync token is the job's name; the
`pending_key` comparison, which the plugin's own requests always pass, and the
path without a token, which the plugin never uses, are left out; `get_state`,
a gather of reads, is one step.

**DrawingSync** goes from the editor to the copy: object events, command ends
and cancels, applied fixes, document switches, session greetings, the batch's
way through extraction and commit, baselines with their check of the document,
and `/cad/analyze`. It instantiates BatchPipe for the worker, which the
refinement justifies. The server's handlers are single steps. An edit is its
number in a log, the copy of an entity the number of the edit it shows.
Marshalled calls run when no command is active (`SafeTaskDispatcher.cs`), and
documents are switched when none is. A fix or an order of the chat changes an
entity or erases it; the erasure is suppressed and its handle sent as a modified
one, so nobody is told (`silent`). A delta may be committed although its answer is
lost, and its batch is then put back (`DeltaAnswerLost`). Undone erasures (the tracker ignores
them, 189-192) and reused handles do not occur.

**ReviewSession** is one session of one browser and one plugin: reviews from
the button to their results (`ChatApp.tsx` 626-735, `agent_api.py` 257-709), one
after the other or overlapping, the rows of `review_results`, and the decisions
on one or all of them through `confirmFixes`, APPROVE_FIX, REJECT_FIX and
FIX_RESULT. WebSockets are queues; HTTP requests travel beside them. A row's id is
its position; a deleted row keeps its position. What a review lists are
*entries*: each names its row, and a row may have two, because several violations
of one object or group share a fix id (`agent_api.py` 1154-1235). The plugin keeps
entries and tries every one an approval names, of those with a list of
handles only the first; each may fail, and the FIX_RESULT is a success all the
same. Abstractions: the server has a snapshot, so a review goes straight to
`/agent/start`; the deletion, insertion and reading back of rows in
`save_agent_state` are one step; every finding has a row; more than two entries
of a row behave like two; the database answers, but for the save in
`/agent/start`, whose failure the code passes over; the plugin's second filter of
layers and an exception outside the patcher (while the clouds are removed, which
would leave a row without its FIX_RESULT) are left out, and so are chat and
proposals. `calm` is an observer: every review so far was started on a session
that was settled. Nothing in the code sees to that; the properties that need it
say so, and section 6 says what happens otherwise. `MaxEvents` bounds decisions,
clicks on stop, progress messages and lost messages together.

**SafeTasks** is `SafeTaskDispatcher.cs`: threads append to the queue and
then set the flag that a drain is scheduled; the drain takes the flag back,
looks whether a command is active, and runs the queue or leaves a hook on the
command's end. One action is one step another thread can see.

**PluginLink** is the WebSocket between `SocketClient.cs` and the group "cad" of
`socket_manager.py`: the two steps of `SendAsync`, the queue with its limit, the
flush after a reconnect, the receive loop, and the dead connection that stays
in the group until it is noticed. A break loses what travels, in both directions.

**Proposals** composes the two with the proposals of a chat
(`websocket.py` 184-410, 841-949; `SocketMessageHandler.cs` 46-115, 401-625):
create, replace and modify, the wait of five seconds for CREATE_RESULT, the
panel, the answer, a chat that is stopped and a server that is started anew.
Each message the plugin receives is a task of SafeTasks. Abstractions: zooms,
marks and texts; the browser's connection loses nothing; the UI takes a panel
away with the first click, so each is answered once.

**ChunkUpload** is `SendCadDataAsync` (`ApiClient.cs` 82-282) and
`POST /cad/analyze` (`cad_interop.py` 196-440): chunks with three attempts each,
time-outs, lost connections and cancelled sends, and a request as the server's
sequence of Redis and S3 calls, each of which may fail. A request whose client
has given up goes on beside the one that repeats it. `odd` is an observer: it
names what befell a send. A chunk is a sequence of handles; blocks of
`focus_extraction` and layers are left out.

**PipeTopology** and **ReviewMerge** are pure operators: which lines of an
extraction make a run (`_UF` of `topology.py`), which pairs nearly meet, which
blocks overlap; the rule checks and quality checks over them, the filter of
weak lines, the merge with what the language model claims, the items, the fixes
and their actions. What coordinates decide is a *plan* (a set of pairs that
touch, nearly touch, and so on); a confidence is a percentage; text is left out.
Left out with the geometry: overshoots, hangers, distances to walls and notes
without a pipe.

**RuleSearch** is how a review comes to its rules. The pipe review makes up to
eight queries out of the systems the drawing shows, the words in it and two
general ones (`workflow_handler.py` 1498-1576), merges their results by the
number of queries and the ranks (1594-1647), has the language model judge the
documents, asks up to three more queries and sorts again (1684-1782). The other
domains ask for their candidates, the electrical one restricted to a standard
the user names, fire and architecture over a pool that is reranked. A chunk is
a document and a place; what the database finds for a query, in which order,
and what the model judges are the plan's. A query that fails finds nothing.

**Compliance** is what each domain keeps of the language model's claims
(`sub/review/compliance.py`): what is asked, at once or part by part, the merge
of what the parts say, the filters of the pipe domain one after the other
(quality, other domains, supports, slopes, heights, gas meters, tanks, texts),
and the confidences. A claim names what its rule and its words speak of
(`cites`, `says`), never its wording; the handles of supports and hangers count
with the relations of the plan.

**PipeReview** is `call_review_agent` (`workflow_handler.py` 1911-2398) as a task:
text check, then topology, geometry and rules beside each other, then the three
checks; each may fail and stands for nothing then; a cancelled review
leaves its checks running.

**ElecReview** is the electrical review as operators: the circuits of
`elec/sub/topology.py` with their four passes of joining, panels and devices of
a circuit, open ends and broken wires; the checks of
`deterministic_checker.py` (gaps, isolated devices, outlets without a panel,
overlaps, labels, crowded and long circuits), the merge with the claims, the
fixes and their labels. A wire is a place in the extraction, because the code
numbers wires and not handles. Left out: the filter by selected handles.

**ElecSymbols** is what that review makes of circles and texts: the drawing's
intent and which lines are wires, clusters of terminals, the circle of a
cluster that is off its grid, orphan circles, overlapping symbols, the number
and spacing of grounding rods, outlet heights and strands. Elements stand on a
line, in millimetres, so medians, radii and limits are computed and not given;
words and layers are the plan's. Left out: the check of terminals against a
reference body, which nothing sets; the first of the two orphan checks, which
the second replaces; clusters that repeat, of which a small drawing has one.

**FireReview** is the fire review as operators: merging heads at one place,
nearest head, spacing and coverage of `parser.py`, the hard candidates, their
merge with the claims and the filter of unmeasured spacing errors, and the
fixes of `revision.py`. Elements stand on a line; which elements are equipment,
and how the floor is sampled, is the plan's.

**DomainReviews** gives the three other domains their course: what runs beside
what, which failures end the review and which stand for nothing found, the
120 s of compliance. The architectural review has no rules of its own, so its
result is the claims and their actions.

**Patcher** is what a command of the server makes of the drawing
(`DrawingPatcher.cs`, `HandleCadAction`): the commands on entities, blocks, texts
and layers, the layer of proposals, and handles that are read as hexadecimal
and then as decimal. A fix is a record with the fields its JSON has. A turn is a
multiple of 90 degrees; numbers stand on a line.

**DrawCommand**, **PipeAction**, **ElecAction** and **FireAction** are the way from
a request to fixes, as operators: the parser of `common/draw_command.py`, the
trade patterns, keyword tables and prompts of the piping agent, the rods and
outlets of the electrical one, the moves of the fire one. The language model's
answer is a field of the request and may be missing.

**ChatCommands** puts them in order (`websocket.py` 517-796, `agent_api.py` 1047-1394):
the shortcuts and the parser before the agent, the agent, the parser after it;
preview and panel, what the user approves or rejects, and what the plugin does.
The plugin's drawing may hold more than the server's copy. **ChatScenes** has the
drawings and messages of the instance.

**LayerSplit** and **ObjectMap** are the layout of a review (which layers are
architecture, piping or neither; spatial hints) and which text names which block.
**RagContext** is the tables beside a chunk and the references an answer and
a fix keep. **AgentRouting** is the intent of a request and the tools that
are called for it, **AgentAnswer** how the results become the answer.

**Conversation** is the turns of a session: a message of the chat and a call of
`/agent/execute` side by side, each with its loads, the cache of the
organisation's rules and of the block names, the agent, and the commits of
transcript, memory and fixes one by one, each of which may fail; beside them the
user's edits, roles for layers that are saved, and a stopped chat.
**ConversationScenes** has the scripts. Abstractions: compressing the memory keeps
every piece of it; the focus is a field of the request.

**Analysis** lets a review of one of the four domains read what an upload stored,
doubled and missing entities included: nothing on the way from the list to the checks removes
a handle that occurs twice. In the place of a review there may be a chat
message; or a conversation, before anything is sent. `ChatCommands` is an
instance (`Chat`), so its names stay apart from those of the reviews.

## 3. What each run checks

| Run | Instance | Result |
|---|---|---|
| `upload_worker` | 2 batches, 2 drains, 2 baselines, 2 drawings, batches put back any number of times | `TypeOK`; `OneWorker`: one task between `WaitAsync` and `Release`; `HeldOnce`: a live batch is in one place, an ended one nowhere; `ImplementsBatchPipe` |
| `upload_worker_live` | the same with 1 baseline, 1 drawing | `BaselineRuns`: a baseline gets its turn once batches are no longer put back; `InTimeIsServed`: a batch queued while a worker is inside leaves the queue, unless a worker met an exception |
| `upload_worker_strands` | no failures | violates `QueueDrains` (finding) |
| `record` | 1 job, 1 analysis, 2 reviews that may overlap, 4 ids, limits 2; list, count and pending flag expire | `TypeOK`; `NoHiddenDelta`: a zero `deltaCount` hides no committed delta, unless the count expired before a list that a prune wrote anew; `ReviewIsWhole`: a review hands over every delta that was committed when it passed the gate, unless the drawing was replaced or another review's prune or the list's expiry took it off before it read |
| `record_one_worker` | 1 job, 1 review, 2 entries; lock, sets, figures and snapshot expire | `RecordIsExact`: between requests the count covers the entries and no good state stands over them; `DeferralEnds`: each resync lock goes away |
| `record_prune` | 1 job, 1 review | violates `CommittedStays` (finding) |
| `sync` | 2 drawings, 1 switch, 2 handles, 2 edits, 2 batches, 1 baseline, 1 analysis | `TypeOK`; `EditsStayCovered`: every edit is covered from the start but for the listed kinds, and only the listed steps give one up; `CopyGoesForward`: the copy of an entity goes back only when two snapshots pass each other or what is committed is of another drawing |
| `sync_switch` | 2 drawings, 1 batch | violates `SwitchIsSafe` (finding) |
| `review_session` | 2 reviews, overlapping or not, 1 finding with one or two entries, 2 events | `TypeOK`; `AppliedOnce`: no entry is carried out twice; `WaivedStaysOff` and `ClosedStaysClosed`: while reviews were started on a settled session, a rejected fix is not carried out and a decided row keeps its status; `ConfirmedEnds`, if no message is lost; `SpinnerEndsAlone`, if nothing is stopped |
| `review_rows` | 1 review, 2 findings, 2 events | violates `RowsTellTheDrawing` (finding) |
| `proposals` | 1 proposal of 2 objects, a queue of 1, 1 break or restart, 1 command or other task | `TypeOK`; `Attended`: a queued task has somebody who will come for it; `ResultOnce`: no result is counted twice; `AnswerIsWhole`: a panel shown in time names every object, and an approval keeps all; `AnswersDecide`: objects come and go only as the user answered; `EveryTaskRuns`; `RejectedGoes` |
| `analysis` | 2 sends (2 chunks of 3 and 2 entities; 1 of 2), 3 attempts, 1 failing call, 1 lost request, 1 failing part; then a review of one of the four domains or one of 81 chat messages; or one of 57 conversations with one lapse; 218,479 states | `TypeOK`; `StoredIsWhole` and `StoredGoesForward` about the upload; `RunsAreComponents`; `ReviewHasGround`: a measured finding is about what is in the drawing, and a review keeps the rules that were found for it; `SureGetsFix`: a sure finding has a fix for its group, unless another of its element and type shadows it, and a shadowed quality issue is shown; an automatic fix has a sure finding, and a founded claim reaches the user; `OnlyMeantChanges`; `MemoryIsWhole`; `DialogHasGround`; `AnalysisEnds` |

**Why the bounds are enough.** The worker's hazards need a holder, a refused
task and a third one that acts between them: two batches, two drains and a
baseline give all three; how often a batch is put back is not bounded. In
the record the limits are 2 so that both sides of each comparison, and the
equality, occur; four ids allow a snapshot, its delta, a second snapshot and a
delta of that one, the longest pattern in which a stale base can matter; a
second review is what prunes while the first one loads. The expiries are divided
among the runs by the property that reads the key. In
DrawingSync two edits of one handle make an older and a newer version, two
handles a batch with more than one entry, and one baseline beside one analysis
two snapshots that pass each other. One switch between two drawings is all
that the stamp of a batch and the document in front need to disagree
(`sync_switch` shows what goes wrong then). In
ReviewSession two reviews can overlap, and in turn make two rows of the same
finding, which is where ids, the list of the plugin and the status of rows can
disagree; one finding lets decisions on one and on all overlap on the same row,
and its two entries are what one fix id can stand for. Two events are two
decisions in either order, or one beside a stop, a progress message or a loss.
What holds with two findings, both with lists of handles, and one review was also
looked at, with four events (76,571 states, no violation); two of each exceed what
liveness checking affords. A proposal of two objects can be
half drawn and half told, and a queue of one overflows with its second message;
proposals do not share state but for the chat's task, whose replacement
`StopChat` is. Two sends make an older and a newer one; with two chunks the
last is not the first; one failing call and one lost request suffice for a
retry that meets its first attempt. What is left of their history when the
review begins is what explains the stored list. The plans hold each remarkable situation
at least once, and most of them beside another of the same element: for the
electrical review a doubled wire, a T-junction, an arc, a note in a gap, a gap
whose wires join elsewhere, a circuit without a panel, four and five terminals,
rings, rods with contradicting notes, and every kind of finding; for the fire review
heads too far, heads at one place, tagged heads and an uncovered place. The claims
are none, a sure and an unsure one of the same type as a rule's, one
with confidence 0, and for every filter of the compliance agent one that it
drops and one that it keeps, said at once and part by part. The searches are
empty, short, with a table of contents, with only the general query, with more
systems, words and chunks than the limits take, with a judgement that
contradicts the ranks and asks again, with a standard, and with candidates and
a reranker. The chat messages have every command, keyword shortcut and way of
selecting at least once; the conversations have turns that overlap, answers
that split into pieces, blank requests, drawings that change between two
reviews, and every intent of every domain. `MaxRecent` is 1 where the code
remembers five turns, so that the second turn already moves the oldest one.

**Deadlock** is not checked in the worker, the sync, the session, the proposals
and the analysis: their users may stop. The record's runs do check it.

**Edits given up.** The steps `EditsStayCovered` lists are those where the
code forgets an edit that is not on the server: the answer WAIT, which a failed
request also looks like (tracker 493-496); a baseline that is skipped, refused
or fails after it superseded older batches; `ClearAllSets` after a baseline
(665) and on a switch of document or context (109, 167); an analysis, whose
snapshot is older than the edit; and the steps by which a drawing gets the
entities of another one (`sync_switch`). No comment of the code claims otherwise,
except line 40 on WAIT. `NeverTold` lists the edits that are not covered even at
the start: an erasure by a fix (784 sends its handle as a modified one, which the
extraction does not find), and what happens while the tracker has no context or
that of another drawing.

## 4. Fairness

- *UploadWorker*: the thread pool runs every task that can run (weak fairness
  per task). A baseline's `WaitAsync()` gets strong fairness: the asynchronous
  waiters of a `SemaphoreSlim` are a FIFO list, so releases cannot pass one by
  for ever. The user need not do anything. That batches are put back only
  finitely often is a premise of `BaselineRuns`, not a fairness of the code.
- *DrawingState*: a handler goes on (weak fairness per handler); a resync goes
  on or fails, since the plugin bounds the extraction by 60 s and every
  request by 5 minutes (`ApiClient.cs` 33); the lock's TTL fires. Nobody must
  ask, and no failure must happen.
- *DrawingSync* states no liveness.
- *ReviewSession*: HTTP requests are answered, messages that were relayed are
  delivered, tasks scheduled, agents answer or fail (their own timeouts), and
  the user finishes the command that keeps the plugin from its messages.
  `ConfirmedEnds` assumes that no message was relayed to nobody, and
  `SpinnerEndsAlone` that the user stops nothing; both are stated as premises.

- *Proposals*: a thread inside `EnqueueSafeTask` and the UI thread go on, the
  user ends a command some time, a lost connection is made anew (the plugin
  retries for ever) and the server's loops run. Nobody need ask or answer.
- *Analysis*: the loop of a send goes on, so do the server's requests and the
  parts of a review, each of which has its own time-out. A request need not
  time out and nothing need fail.

## 5. What is proved

For every value of the constants, under the assumptions the modules name
(finite sets where something is counted, positive sizes and limits, names that
are apart; every instance evaluates them):

- **`UploadWorker_proofs`**: `WorkerTypes`, `WorkerMutex` (`OneWorker`),
  `NothingLostNothingTwice` (`HeldOnce`) and `WorkerImplementsPipe`.
  `OneWorker` is not inductive: that a task which
  releases holds the semaphore needs to know which statements each kind of
  task has. `WorkerInv` adds `Kinds` (that, and which locals are in use
  where), `HeldAtMostOnce` (queue, keep lists, tasks in hand and tasks that
  send are disjoint and without repetition) and `LiveIsHeld` (a batch is live
  exactly if it is in one of them). The proof has one step per action; the
  refinement maps `active` to the batch some task sends and shows that each
  action is a step of BatchPipe or leaves its variables alone.
- **`DrawingState_proofs`**, for any number of jobs, analyses, reviews, ids,
  limits and whatever expires: `RecordTypes`, `ZeroHidesNothing`
  (`NoHiddenDelta`) and `ReviewsAreWhole` (`ReviewIsWhole`). The list and its
  count are written in two steps, by
  several handlers, so the first property rests on ids: `OnlyIssued` (every id
  written anywhere was given out) and `NotYetKnown` (a snapshot on its way is
  the base of no delta, and no two handlers bring the same one). Hence a commit
  that resets the count also makes every listed delta stale. It uses neither the
  lock nor its expiry. `ReviewsAreWhole` needs only `LoadingInv`: while the
  drawing is not replaced a review's snapshot is the current one, and what it
  must reckon with (`seen`, from which only another review's prune and the
  list's expiry take something) is in the list until it has read it; the gate let
  it pass with a count, so it does read it. For one job and no
  analysis, but any number of reviews, entries, ids and limits and whatever
  expires: `OneWorkerIsExact` (`RecordIsExact`). `ExactInv` says, step by step of
  the job, which figure it is about to write and that this covers what it counted
  (`CountInv`), and when a good status may stand (`GoodInv`).
- **`DrawingSync_proofs`**: `SyncIsTyped`, `CopiesGoForward`
  (`CopyGoesForward`) and `EditsAreCovered` (`EditsStayCovered`), for any
  number of drawings, entities, edits, batches, baselines, analyses and
  switches. `SyncInv` says what a busy worker is busy with and that this has a
  drawing. `ForwardInv` adds that every number under an entity is that of one of
  its edits, that an erasure is its entity's last edit, and that what was
  extracted is not behind the copy: a delta as long as its base is the current
  snapshot (`DeltaNotBehind`), a snapshot as long as no analysis was sent
  (`SnapshotNotBehind`). The numbers need a greatest edit of an entity, which
  comes from the well-foundedness of strict inclusion on finite sets.
  For the edits `CoverInv` adds that the marked ones
  are of the document in front and not silent, so that in a batch no erasure in
  another drawing hides an edit of the same handle; that what was extracted for a
  batch is of its handles, is not erased and comes from the document it was taken
  from; and
  that nothing is left of the extraction before. Each place an edit can be in
  (marked, in a batch that waits, in the one that is sent, in a baseline) is then
  followed from step to step; a delta or a snapshot that was extracted before the
  edit cannot hide it, by the facts of `ForwardInv`.
- **`Proposals_proofs`**, of the dispatcher alone, for any number of threads and
  tasks: `DispatcherTypes` and `EveryTaskIsAttended` (`Attended`). Alone it is
  not inductive: a task that meets a set flag waits for whoever set it, so the
  invariant says that a set flag announces a drain. Of the whole, for any number
  of proposals, objects, threads, faults and commands, and any limit of the
  queue: `ProposalsAreTyped`, `ProposedWorkIsAttended` (`Attended`, from the
  theorem of SafeTasks, since every step is one of the dispatcher's or leaves it
  alone), `DrawingFollowsAnswers`
  (`AnswersDecide`), `OneResultAnObject` (`ResultOnce`) and `ApprovedIsWhole`
  (`AnswerIsWhole`). `OrderInv` carries the answer along: an order to delete,
  replace or modify, in the connection or in the task queue, was given for an
  answer, and answers stand. `OnceInv` counts: the create order of an object
  still to be sent, in the connection, or among the tasks, and its result in
  the plugin's hand, its queue, the connection or the server's list, are together at
  most one, and none before the proposal; every step moves one or loses it.
  `StandInv` says that a reported success is in the drawing until the proposal
  is rejected. `WholeInv` then follows by counting: as many handles as objects,
  each once, are all of them.
- **`ReviewSession_proofs`**, for any number of reviews, overlapping or not,
  findings, decisions, clicks, progress messages and lost messages:
  `SessionIsTyped` and `NoEntryTwice` (`AppliedOnce`). An entry names its review,
  and a review publishes once. `OnceInv` says that what a review shows is its
  own (`ShownIsOwn`); that entries in a message, in the plugin's list or carried
  out are of a review that is done, and stays so (`ListedIsDone`); that no two
  results on their way to the plugin share an entry (`Apart`); and that what
  is on its way is neither listed nor carried out (`ComingIsNew`). What an approval
  carries out leaves the list, and nothing brings it back. That carried out
  entries are in the list once uses that `SetToSeq` lists a finite set without
  repetition.
- **`ChunkUpload_proofs`**, for any number of sends, chunks, entities, attempts,
  faults and lost connections: `UploadIsTyped`, `StoredDrawingIsWhole`
  (`StoredIsWhole`) and `StoredNeverGoesBack` (`StoredGoesForward`). The property
  speaks of what is stored; the invariant must say what is staged. `CalmInv`: as
  long as nothing odd befell a send, the list of a send whose staging is there
  holds exactly the chunks before the current one, one request at most can touch it,
  and each of its steps has in hand what it will store. `LastInv` and `BegunInv`
  say that only the last chunk stores and that sends begin in order; `LateInv`,
  that a request of an older send is one of those named odd.
- **`Conversation_proofs`**, for any scripts (any number of requests, drawings,
  layers, entities, rules and chunks), any number of remembered turns, added
  tables and lapses: `DialogTyped`, `ConversationIsRemembered` (`MemoryIsWhole`) and
  `ConversationHasGround` (`DialogHasGround`). The assumptions are
  `BoundsAssumption` (a turn is remembered, a table may be added) and
  `ScriptsAssumption` (a script is well formed: lists are sequences, an entity with a
  place has both ends, a place of a document holds one chunk).
  `DialogInv` is about the halves of the memory: unless something is named spoiled,
  at most one turn is between its two commits, the half it has not stored is the
  one it has read, and when none is between them the halves make up what is kept
  (`Sound`). A turn that has read something else writes over what it has not
  read, and only then is it named. The commits come in their order, the
  question and the answer before the memory (`DialogTold`).
  `GroundInv` is about what an answer rests on: the roles in the cache are the
  saved ones unless a save is under way or could not be read, the names in the
  cache were found for a drawing of the fingerprint they are kept under, and a turn
  that has read something has read this. That the nearest wall is
  nearest, that every table near a text that refers to it is added while there is room,
  and that each reference of a fix is one of a chunk, are lemmas about the folds over
  entities and chunks: a fold is the recursive function it stands for, and what
  holds of each of its values follows by induction over the places already visited.
- **`Analysis_proofs`** carries these over to the whole of Analysis: every step of
  it is a step of the upload, or of the conversation, or leaves them alone
  (`ReviewedDrawingIsWhole`, `AnalysisRemembers`, `AnalysisHasGround`). `AnalysisTyped`
  (`TypeOK`) needs besides that a review has a domain as soon as it has begun, and
  that it does not begin beside a message. `RunsArePartsOfTheDrawing`
  (`RunsAreComponents`) is about the two union-finds, of the pipes and of the
  wires, for every drawing, every coordinate and every order in which the pairs are
  met. The parents are a forest (`Forest`: a measure falls on the way to a root, so
  that `Find` is the function from a place to its root), a union ties two groups only
  along a link of the drawing (`Tied`) and parts none that was joined (`Coarser`).
  Each loop of the code is a fold, unrolled place by place, and at its end every link
  it had to meet is inside one group: the groups are then the connected sets. The
  runs of pipes are these groups; for wires the groups are carried from places in the
  list to handles, where one handle drawn twice is two wires. That what a review reads
  is a list of handles (`HasList`) is the part of the invariant it needs.

**Only model-checked:** liveness (`BaselineRuns`, `InTimeIsServed`,
`DeferralEnds`, `ConfirmedEnds`, `SpinnerEndsAlone`, `EveryTaskRuns`,
`RejectedGoes`, `AnalysisEnds`), which is out of the proof system's reach;
of Analysis `ReviewHasGround`, `SureGetsFix` and
`OnlyMeantChanges`. These three speak of what a review or a command computes in
one go from a whole drawing: selections and sorts of lists (`SelectSeq`, `SortSeq`),
of whose definitions the prover makes nothing, one inside the other. A fold over
a list can be unrolled, as in `Conversation_proofs` and for the union-finds, one
lemma a fold; these take some hundred. There is no liveness of a chat turn:
it awaits the language model without a time limit.

## 6. Findings

With a run each (`PROJECT.json` quotes the lines):

1. *A stranded batch* (tracker 387): a batch is refused by `WaitAsync(0)`, the
   worker releases and finds the queue empty, the batch is enqueued. It waits
   for the next command, against the comments at 386 and 437.
2. *A pruned delta* (`drawing_state_service.py` 573): a review reads the record
   before a resync and the list after it, takes the new snapshot's delta for a
   stale one and writes the list anew without it, against 553. A second review
   that passed its gate for this snapshot then misses the delta.
3. *Another drawing's entities* (tracker 528, 698): a batch whose document is
   switched away extracts the document in front, against 382 and 406.
4. *A fix in the drawing whose row says REJECTED* (`state_service.py` 336): an
   approval is in flight while the row is rejected, against 310.

Met while modelling, without a run:

- The keys of a record expire apart. The list of deltas goes after 7 days without
  a write, the snapshot they belong to after 90 (`drawing_state_service.py` 18-20):
  in between the snapshot alone passes for the latest drawing. A list that a
  prune wrote anew (573-587) has no lifetime, its count has 7 days: when the count
  is gone the gate and the load take it for zero, and the deltas are not
  merged. The dirty sets go after a day, while the counts and the mode that came
  of them stay a week.
- A batch whose presign, extraction or commit keeps failing is put back and taken
  again by the same loop, without a pause and with the semaphore held (tracker
  399, 445, 505-511, 541, 553, 573, 628): the baseline that would replace it
  waits as long.
- An entity that a fix, an order of the chat or a replaced block erases (`DrawingPatcher.cs`
  199-219, 311-321; `SocketMessageHandler.cs` 328-330, 508-511, 584-587) is sent as a
  modified one, which the extraction passes over: the server's copy keeps it
  until the next full snapshot.
- After a failed resync the gate lets no review pass, though the badge
  (`DrawingStatusBadge.tsx` 39) says that a review on the old snapshot is possible.
- A progress message sent after REVIEW_CANCELLED turns the spinner on again
  and the task then stops silently; the stall guard `ChatApp.tsx` 727 mentions
  only clears a timer (182-184).
- The plugin reports a success for an approval that had targets, whatever came of
  them (`SocketMessageHandler.cs` 314-319, 335-355): of several bulk fixes only the
  first is tried, a fix whose patch returns false counts for nothing, and all
  rows become APPLIED. The result of ALL marks every open row of the session,
  those the plugin never had among them (`state_service.py` 319).
- Any FIX_RESULT turns the spinner off, so a second review can start beside a
  running one, and nothing in `/agent/start` (374) waits until the session is
  settled. Then a rejected row is listed and carried out again, an
  "approve all" meets the list of the next review, a confirmed row is published
  again, rows that are decided meanwhile are copied as pending ones, and a late
  publication replaces a newer list. That is why `WaivedStaysOff` and
  `ClosedStaysClosed` hold only while every review was started on a settled
  session. `AppliedOnce` holds always, but of entries: several violations of
  one object share a fix id (`agent_api.py` 1154-1235), and one approval carries
  out each of them; and a row that is listed again has a new entry.

Of the way of an edit: an analysis that is answered while another document is
in front sets the context back to the analysed drawing (`SetDrawingContext`
asks nobody which document is active). Until the next activation the edits of
the document in front are batched under that drawing; the tracker's next
refresh corrects it. `EditsStayCovered` says nothing of such edits.

Of the resync: the token is compared before the transaction (329); the lock can
expire in between, against the comment at 328. A late commit is not refused (307).

Of proposals and the connection:

- A CREATE panel that comes after its five seconds names no handles; its
  rejection leaves the objects, though the answer of `websocket.py` 917 says
  that none are left.
- The approval of a replacement deletes the old objects although the new ones
  were never drawn; after a restart of the server it leaves both.
- A stopped chat leaves the objects it drew without a panel.
- A message queued between the flush and the look at the socket waits in the
  plugin for the next reconnect (`SocketClient.cs` 38-70).
- `send_to_group` reaches every client, whatever its session (`socket_manager.py` 38).

Of the upload:

- `except Exception` in `cad_interop.py` 531-533 turns the 400 and 502 raised
  above into 500: refusals of the chunk order are tried again, and the plugin's
  branch for 4xx is never taken.
- A retry of the last chunk can take the staging before its first attempt
  clears it, and the list after: an empty drawing is stored, and its review
  reports no violation. The same follows from a failing `LRANGE`.
- An `HttpRequestException` in the chunked path is caught by nobody; the send
  ends without a word.
- The last chunk of a cancelled send may overwrite the newer drawing.

Of the pipe review:

- After a retried chunk a doubled block overlaps itself and is "duplicate with
  itself" at confidence 1.0; the log at `topology.py` 1087 says that the first of
  two lines with one handle is used, but the maps keep the last and the list both.
- A confidence of 0.0 counts as 1.0, where the comment at `report.py` 80 calls
  it uncertain.
- An unsure claim of the language model drops a sure finding of the same
  element and type. A second gap at one handle loses its fix, and with text
  issues it is not shown either, though `drawing_qa_checker.py` 1274-1276 calls
  handle and type too coarse a key. An unsure quality issue is shown twice.
- A failing language model discards the typos the rules of the text check found
  (`workflow_handler.py` 1276-1278). The 120 s of compliance cover all chunks
  and both attempts of 90 s. A cancelled review leaves its checks running.
- The required value of a slope error cannot be parsed: its fix is always manual.

Of the electrical review:

- Ends joined by a note or at a T-junction stay open (`topology.py` 1231-1256):
  the same pair is reported broken, with an automatic bridge. A T-junction is
  found only if an end of the other wire lies in a neighbouring cell (992-1010).
- Circuit 0 counts as no element; the findings "too long" and "overcrowded"
  without a panel name the number of the circuit as if it were a handle.
- A doubled wire overlaps itself, and the cleanup deletes the handle it keeps.
  A doubled device or length counts twice, a doubled stray line is no stray.
- `{equipment_id: item}` labels each fix of an element with its last violation,
  also in the fire review. `_run_orphan_terminal_check` is defined twice (2118,
  2509). Unsure findings and quality issues are shown to nobody.
- An orphan circle that a chunk doubled forms a regular row with itself
  (2482-2504), which suppresses its finding.
- Of several notes about one group of rods the first decides, whatever the
  others say (842-845, 1132-1135).

Of the fire and the architectural review:

- An exception in compliance loses the measured candidates; a time-out keeps them.
- A detector with a tag never gets an automatic fix: its place is kept under
  the tag. Two detectors nearest to each other give two new ones at one place.
- A claimed spacing error of an unmeasured head stays as soon as any head of
  its kind has a measured one.
- Every architectural claim of a mapped type gets an action, whatever its confidence.

Of the search for rules and of compliance:

- The queries of the second round count from one again (`workflow_handler.py`
  1631), so a chunk found by one of the first and one of the second round
  counts as found once; the comment at 1599 promises distinct queries. A
  document judged 0 counts as 0.5 (1777) and stands before one judged 0.3; none is dropped.
- The general queries give way to others at the limit of eight; the fallback
  query puts the common chunks before the session's, which all others put first.
- `_extract_target_doc` (elec 108) keeps other standards out, but each query
  relaxes on its own when the standard does not answer it.
- Fire and architecture gather many queries over one `AsyncSession`.
- The pipe domain keeps of several claims of one element and type the wordiest
  (`compliance.py` 541-563), before the filters and only when the drawing was
  read in parts: an unfounded claim can displace a founded one and is dropped
  then. Of one call doubles are shown twice.
- Electrical and fire parts are asked about the first element of the part only. A small
  electrical drawing whose one call fails loses the review, a large one a part.
- Claims about handles that are not in the drawing pass the filter of domains.

Of chat commands:

- `websocket.py` 563-566 and 742-745 pass `view_center` to a parser of the pipe domain
  that does not take it (`pipe/sub/action.py` 837-842): the TypeError is
  swallowed and the pipe domain has no fast path.
- ROTATE and SCALE turn about the drawing's origin (`draw_command.py` 231-241);
  the middle of the selection is used only when the parser found nothing.
- The items of a list are sent with their `_handle` inside `auto_fix` (`websocket.py`
  204-258, 271-280), where the plugin does not look for it: a modification in a
  mixed list changes nothing.
- Several fixes of one type for one handle share the first's row and fix; fixes
  without a handle are never indexed (`agent_api.py` 1163-1168).
- The fire domain moves every element when nothing is selected. "Draw ... red"
  with a selection is taken for a change of colour (`websocket.py` 57-60).
- A word for deletion with a selection erases at once; the question of the pipe
  agent about clusters of symbols (618-657) is asked only in a review.
- A hexadecimal handle the drawing does not know is tried as a decimal one
  (`DrawingPatcher.cs` 1095-1118), and an id equal to a block's name is the
  first entity of that block (`agent_api.py` 911-941).

Of conversations:

- A memory that cannot be read is taken for an empty one and then overwritten;
  of two overlapping turns the later commit wins; `recent_chat` is committed
  before `summary_text`, so a failure between them loses or doubles the oldest turn.
- An answer that contains a horizontal rule splits into several turns when it
  is read back, and the window of five never shrinks to its size again.
- The turn of `/agent/execute` that ends in an error stores confirmed rows
  again as pending ones; one without fixes deletes the pending rows on display.
- A failed load of an organisation's rules is cached as "no rules" until the
  next save; other processes' caches are never cleared, and neither are the
  agents kept per organisation (`mapping.py` 29, 649-663), whose map of terms is
  therefore the one of the first use. A chat message has no
  organisation, so its layers get their roles by name only. The cache of block
  names knows neither colours of layers nor rotation. A lower-case key of an
  exact rule never matches.
- The electrical review ignores the selection. A review the electrical
  agent turns into a question gets no tables. Fire's words for a suggested fix are
  shadowed by those for an action. The digits of a section serve as the id
  of a chunk (`reference_chunk_id`) when there is none.

## 7. What is not modelled, and the plan

Out of reach: what agents, the vector search and classifiers compute, geometry, and
AutoCAD itself (the models take an extraction as what the document holds at that
moment). Sequential jobs without state shared with the review (documents,
scheduler, installer, updater, evaluation, licences) are left out. Of what is
modelled in part there remain: overshoots, hangers, wall clearances, notes
without a pipe and the focus selection of the pipe review; the reference body
of terminals, the selected handles and `_validate_after_fix` of the electrical one;
the floor and the roles of the fire one; layers and counts in the merge of a
snapshot; in Proposals the items of a list that neither create nor delete and
are sent at once (`websocket.py` 271-280, 368-378; their effect on the drawing is in
ChatCommands); of chat and sessions the name rules of MappingAgent, the list of
unmapped layers, the time to live of the name cache, a session whose row is
missing, the agents kept per organisation with their map of terms, the focus in
Redis, `run_stream`, `create_chat_session`, prompts, and
the repair and retry of the model's JSON. `fire/query_rag_engine.py` is used by nobody.

Done, in the order of the plan: BatchPipe, UploadWorker, DrawingState,
DrawingSync, ReviewSession, SafeTasks, PluginLink, Proposals, ChunkUpload, each
with its proofs; the four reviews with their search for rules and compliance,
chat commands and conversations in Analysis.
Left:

1. *ReviewSession with several plugins and browsers*, since the hub reaches
   every client of a group.
2. *The agents kept per organisation* in Conversation, beside the cache of rules.
