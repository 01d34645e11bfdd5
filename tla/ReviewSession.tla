---------------------------- MODULE ReviewSession -----------------------------
(***************************************************************************)
(* One review session: the user's browser (ChatApp.tsx, useSocket.ts), the *)
(* server (agent_api.py, websocket.py, state_service.py) and the plugin    *)
(* (SocketMessageHandler.cs).  A review is started over HTTP and runs in   *)
(* the background; its findings become rows of review_results and are sent *)
(* to the plugin and to the browser, which decides them over a WebSocket.  *)
(*                                                                         *)
(* A WebSocket delivers in order; HTTP requests travel beside it.  A row's *)
(* id is its position in rows; a finding (object and kind of violation) is *)
(* a member of Findings.  What a review lists are entries, and several of  *)
(* them may have the same row.                                             *)
(***************************************************************************)
EXTENDS Naturals, Sequences, FiniteSets, SequencesExt

CONSTANTS
    MaxReviews,     \* bound: reviews the user starts
    Findings,       \* what a review can find
    Bulk,           \* those whose fix has a list of target_handles
    MaxEvents       \* bound: the user's decisions and clicks on stop, progress messages
                    \* and messages relayed while no plugin is connected, in all

ASSUME FiniteFindings == IsFiniteSet(Findings)
ASSUME BoundsAreNat == MaxReviews \in Nat /\ MaxEvents \in Nat

VARIABLES
    \* the browser
    analyzing,      \* isAnalyzing: the spinner
    listed,         \* reviewResults, as row ids
    resolved,       \* the ids decided here
    deciding,       \* the confirmFixes request of "approve all" / "ignore all"
    cancels,        \* clicks on stop so far
    \* messages under way
    toServer,       \* browser to server
    toUi,           \* server to browser
    toCad,          \* server to plugin
    fromCad,        \* plugin to server
    lost,           \* how many the server relayed to nobody
    \* the server
    stage,          \* where the handler and the task of each review are
    held,           \* pending_fixes of the state a start carries
    shows,          \* the entries a finished review publishes
    cancelled,      \* the session is in review_cancel.py's set
    rows,           \* review_results of the session
    \* the plugin
    pending,        \* _pendingEntities
    \* what the properties remember
    applied,        \* the entries in the order the plugin carried them out
    waived,         \* row ids the user rejected one by one
    taken,          \* decisions and progress messages so far
    calm            \* every review was started when all before it was settled

browser == <<analyzing, listed, resolved, deciding, cancels>>
wires == <<toServer, toUi, toCad, fromCad, lost>>
server == <<stage, held, shows, cancelled, rows>>
plugin == <<pending, applied>>
vars == <<browser, wires, server, plugin, waived, taken, calm>>

Room == taken + cancels + lost < MaxEvents

\* Reviews are numbered in the order they are started.
Reviews == 1..MaxReviews
Ids == DOMAIN rows
Statuses == {"PENDING", "CONFIRMED", "APPLIED", "REJECTED", "FAILED", "DELETED"}
Open == {"PENDING", "CONFIRMED"}
Stages == {"new", "asked", "loaded", "queued", "preparing", "running", "saving", "publishing", "done"}
\* The entry of a violation: its row is that of its fix, which another one of
\* the same object or group may have already.
Entries == [row : Ids, review : Reviews, again : BOOLEAN]
RowsOf(entries) == {e.row : e \in entries}
Idle == [verb |-> "none", ids |-> {}, answered |-> FALSE]

TypeOK ==
    /\ analyzing \in BOOLEAN
    /\ listed \in SUBSET Ids
    /\ resolved \in SUBSET Ids
    /\ deciding \in [verb : {"none", "approve", "reject"}, ids : SUBSET Ids, answered : BOOLEAN]
    /\ cancels \in Nat
    /\ toServer \in Seq([verb : {"cancel", "approve", "reject"}, ids : SUBSET Ids, all : BOOLEAN])
    /\ toUi \in Seq([kind : {"started", "ended", "result"}, ids : SUBSET Ids])
    /\ toCad \in Seq([verb : {"approve", "reject"}, ids : SUBSET Ids, all : BOOLEAN]
                     \cup [verb : {"result"}, entries : SUBSET Entries])
    /\ fromCad \in Seq([ids : SUBSET Ids, all : BOOLEAN, success : BOOLEAN])
    /\ lost \in Nat
    /\ stage \in [Reviews -> Stages]
    /\ held \in [Reviews -> Seq(Findings)]
    /\ shows \in [Reviews -> SUBSET Entries]
    /\ cancelled \in BOOLEAN
    /\ rows \in Seq([finding : Findings, status : Statuses])
    /\ pending \in SUBSET Entries
    /\ applied \in Seq(Entries)
    /\ waived \in SUBSET Ids
    /\ taken \in Nat
    /\ calm \in BOOLEAN
    /\ taken + cancels + lost <= MaxEvents

Init ==
    /\ analyzing = FALSE
    /\ listed = {}
    /\ resolved = {}
    /\ deciding = Idle
    /\ cancels = 0
    /\ toServer = <<>>
    /\ toUi = <<>>
    /\ toCad = <<>>
    /\ fromCad = <<>>
    /\ lost = 0
    /\ stage = [r \in Reviews |-> "new"]
    /\ held = [r \in Reviews |-> <<>>]
    /\ shows = [r \in Reviews |-> {}]
    /\ cancelled = FALSE
    /\ rows = <<>>
    /\ pending = {}
    /\ applied = <<>>
    /\ waived = {}
    /\ taken = 0
    /\ calm = TRUE

------------------------------------------------------------------------------
(* The browser.                                                            *)

Settled ==
    /\ \A r \in Reviews : stage[r] \in {"new", "done"}
    /\ deciding = Idle
    /\ toServer \o toUi \o toCad \o fromCad = <<>>

\* runDrawReviewExtract with a snapshot on the server.  CLEAR_CAD_REVIEW goes
\* to the plugin around it and is carried out at once.  Nothing waits for the
\* decisions on the review before, or for that review to end.
StartReview(r) ==
    /\ ~analyzing
    /\ calm' = (calm /\ Settled)
    /\ stage[r] = "new"
    /\ \A q \in Reviews : q < r => stage[q] # "new"
    /\ stage' = [stage EXCEPT ![r] = "asked"]
    /\ analyzing' = TRUE
    /\ listed' = {}
    /\ resolved' = {}
    /\ pending' = {}
    /\ UNCHANGED <<deciding, cancels, wires, held, shows, cancelled, rows, applied, waived, taken>>

Send(m) == toServer' = Append(toServer, m)

CancelReview ==
    /\ analyzing
    /\ Room
    /\ cancels' = cancels + 1
    /\ analyzing' = FALSE
    /\ Send([verb |-> "cancel", ids |-> {}, all |-> FALSE])
    /\ UNCHANGED <<listed, resolved, deciding, toUi, toCad, fromCad, lost, server, plugin, waived, taken, calm>>

Undecided == listed \ resolved

\* approve and reject of one card; nothing is written before the plugin answers.
DecideOne(verb, id) ==
    /\ Room
    /\ taken' = taken + 1
    /\ id \in Undecided
    /\ Send([verb |-> verb, ids |-> {id}, all |-> FALSE])
    /\ resolved' = resolved \cup {id}
    /\ waived' = IF verb = "reject" THEN waived \cup {id} ELSE waived
    /\ UNCHANGED <<analyzing, listed, deciding, cancels, toUi, toCad, fromCad, lost, server, plugin, calm>>

\* approve("ALL") and reject("ALL") wait for confirmFixes first.
DecideAll(verb) ==
    /\ Room
    /\ taken' = taken + 1
    /\ Undecided # {}
    /\ deciding = Idle
    /\ deciding' = [verb |-> verb, ids |-> listed, answered |-> FALSE]
    /\ UNCHANGED <<analyzing, listed, resolved, cancels, wires, server, plugin, waived, calm>>

AllDecided ==
    /\ deciding.answered
    /\ Send([verb |-> deciding.verb, ids |-> {}, all |-> TRUE])
    /\ resolved' = deciding.ids
    /\ deciding' = Idle
    /\ UNCHANGED <<analyzing, listed, cancels, toUi, toCad, fromCad, lost, server, plugin, waived, taken, calm>>

\* useSocket.ts onmessage.
UiReceives ==
    /\ toUi # <<>>
    /\ analyzing' = (Head(toUi).kind = "started")
    /\ listed' = IF Head(toUi).kind = "result" THEN Head(toUi).ids ELSE listed
    /\ toUi' = Tail(toUi)
    /\ UNCHANGED <<resolved, deciding, cancels, toServer, toCad, fromCad, lost, server, plugin, waived, taken, calm>>

------------------------------------------------------------------------------
(* The server: review_results.                                             *)

OpenIds == {id \in Ids : rows[id].status \in Open}

\* (mutant) The ids are given anew.
SyncedAnew(findings) ==
    SelectSeq(rows, LAMBDA row : row.status # "PENDING")
    \o [i \in DOMAIN findings |-> [finding |-> findings[i], status |-> "PENDING"]]

\* sync_pending_fixes: the pending rows are replaced.
Synced(findings) ==
    [i \in Ids |-> IF rows[i].status = "PENDING" THEN [rows[i] EXCEPT !.status = "DELETED"] ELSE rows[i]]
    \o [i \in DOMAIN findings |-> [finding |-> findings[i], status |-> "PENDING"]]

\* (mutant) An update that does not look at the status.
UpdatedAlways(ids, from, status) ==
    [i \in Ids |-> IF i \in ids THEN [rows[i] EXCEPT !.status = status] ELSE rows[i]]

\* UPDATE ... SET status WHERE id IN ids AND status IN from.
Updated(ids, from, status) ==
    [i \in Ids |-> IF i \in ids /\ rows[i].status \in from
                   THEN [rows[i] EXCEPT !.status = status] ELSE rows[i]]

\* (mutant) A result only closes pending rows.
MarkedIfPending(result) ==
    Updated(IF result.all THEN Ids ELSE result.ids, {"PENDING"}, IF result.success THEN "APPLIED" ELSE "FAILED")

\* mark_fix_result.
Marked(result) ==
    Updated(IF result.all THEN Ids ELSE result.ids, Open, IF result.success THEN "APPLIED" ELSE "FAILED")

\* confirm_pending_fixes: the selected rows are confirmed, the other pending
\* ones rejected.
Confirmed(ids) ==
    [i \in Ids |-> IF rows[i].status # "PENDING" THEN rows[i]
                   ELSE [rows[i] EXCEPT !.status = IF i \in ids THEN "CONFIRMED" ELSE "REJECTED"]]

\* The row a finding is listed under: the oldest open one (fix_by_pair).
RowOf(table, f) ==
    CHOOSE i \in DOMAIN table :
        /\ table[i].finding = f /\ table[i].status \in Open
        /\ \A j \in 1..(i - 1) : table[j].finding = f => table[j].status \notin Open
IsOpen(table, f) == \E i \in DOMAIN table : table[i].finding = f /\ table[i].status \in Open

------------------------------------------------------------------------------
(* The server: a review from the request to its results.                   *)

Tell(kind, ids) == toUi' = Append(toUi, [kind |-> kind, ids |-> ids])
Goes(r, from, to) == stage[r] = from /\ stage' = [stage EXCEPT ![r] = to]

\* start_agent_review clears the flag and reads the open rows; those of one
\* sync have the same created_at, so their order is left to the database.
StartLoads(r) ==
    /\ Goes(r, "asked", "loaded")
    /\ cancelled' = FALSE
    /\ LET read == SetToSeq(OpenIds)
       IN  held' = [held EXCEPT ![r] = [n \in DOMAIN read |-> rows[read[n]].finding]]
    /\ UNCHANGED <<browser, wires, shows, rows, plugin, waived, taken, calm>>

\* The request is refused, or a search it awaits fails.
StartFails(r) ==
    /\ Goes(r, "loaded", "done")
    /\ analyzing' = FALSE
    /\ held' = [held EXCEPT ![r] = <<>>]
    /\ UNCHANGED <<listed, resolved, deciding, cancels, wires, shows, cancelled, rows, plugin, waived, taken, calm>>

\* It writes the rows back, whether that works or not, and says that the
\* analysis starts.
StartSaves(r) ==
    /\ Goes(r, "loaded", "queued")
    /\ rows' \in {rows, Synced(held[r])}
    /\ held' = [held EXCEPT ![r] = <<>>]
    /\ Tell("started", {})
    /\ UNCHANGED <<browser, toServer, toCad, fromCad, lost, shows, cancelled, plugin, waived, taken, calm>>

\* DOMAIN_MISMATCH: no task is started.
Mismatch(r) ==
    /\ Goes(r, "queued", "done")
    /\ Tell("ended", {})
    /\ UNCHANGED <<browser, toServer, toCad, fromCad, lost, held, shows, cancelled, rows, plugin, waived, taken, calm>>

TaskBegins(r) ==
    /\ ~cancelled
    /\ Goes(r, "queued", "preparing")
    /\ Tell("started", {})
    /\ UNCHANGED <<browser, toServer, toCad, fromCad, lost, held, shows, cancelled, rows, plugin, waived, taken, calm>>

\* The three places where run_agent_background_task looks at the flag.
TaskStops(r) ==
    /\ cancelled
    /\ stage[r] \in {"queued", "preparing", "running"}
    /\ stage' = [stage EXCEPT ![r] = "done"]
    /\ UNCHANGED <<browser, wires, held, shows, cancelled, rows, plugin, waived, taken, calm>>

TaskRuns(r) ==
    /\ ~cancelled
    /\ Goes(r, "preparing", "running")
    /\ UNCHANGED <<browser, wires, held, shows, cancelled, rows, plugin, waived, taken, calm>>

\* (mutant) A review gives up without a word.
TaskDies(r) ==
    /\ stage[r] \in {"preparing", "running", "saving", "publishing"}
    /\ stage' = [stage EXCEPT ![r] = "done"]
    /\ UNCHANGED <<browser, wires, held, shows, cancelled, rows, plugin, waived, taken, calm>>

\* DRAWING_RESYNC, DRAWING_EMPTY, or ERROR of an exception.
TaskGivesUp(r) ==
    /\ stage[r] \in {"preparing", "running", "saving", "publishing"}
    /\ stage' = [stage EXCEPT ![r] = "done"]
    /\ Tell("ended", {})
    /\ shows' = [shows EXCEPT ![r] = {}]
    /\ UNCHANGED <<browser, toServer, toCad, fromCad, lost, held, cancelled, rows, plugin, waived, taken, calm>>

\* emit_pipeline_step, in the course of the agents' work; the spinner follows.
Progress(r) ==
    /\ stage[r] = "running"
    /\ Room
    /\ taken' = taken + 1
    /\ Tell("started", {})
    /\ UNCHANGED <<browser, toServer, toCad, fromCad, lost, stage, held, shows, cancelled, rows, plugin, waived, calm>>

AgentAnswers(r) ==
    /\ ~cancelled
    /\ Goes(r, "running", "saving")
    /\ UNCHANGED <<browser, wires, held, shows, cancelled, rows, plugin, waived, taken, calm>>

\* save_agent_state with what was found, then the rows are read again.  A
\* review that found nothing shows the confirmed rows that are left.  More has
\* a fix that another one has already.
TaskSaves(r, found) ==
    /\ Goes(r, "saving", "publishing")
    /\ rows' = Synced(SetToSeq(found))
    /\ \E more \in SUBSET found :
          shows' = [shows EXCEPT ![r] =
              {[row |-> RowOf(rows', f), review |-> r, again |-> FALSE] :
                   f \in IF found # {} THEN found ELSE {g \in Findings : IsOpen(rows', g)}}
              \cup {[row |-> RowOf(rows', f), review |-> r, again |-> TRUE] : f \in more}]
    /\ UNCHANGED <<browser, wires, held, cancelled, plugin, waived, taken, calm>>

\* A message for the plugin; nobody looks whether one is connected.
Relay(m) ==
    \/ toCad' = Append(toCad, m) /\ lost' = lost
    \/ Room /\ lost' = lost + 1 /\ toCad' = toCad

\* _send_review_websocket.
TaskPublishes(r) ==
    /\ Goes(r, "publishing", "done")
    /\ Relay([verb |-> "result", entries |-> shows[r]])
    /\ Tell("result", RowsOf(shows[r]))
    /\ shows' = [shows EXCEPT ![r] = {}]
    /\ UNCHANGED <<browser, toServer, fromCad, held, cancelled, rows, plugin, waived, taken, calm>>

------------------------------------------------------------------------------
(* The server: decisions.                                                  *)

\* POST /agent/fixes/confirm, carried out or refused; the browser drops a
\* decision that was refused.
ConfirmFixes ==
    /\ deciding # Idle
    /\ ~deciding.answered
    /\ \/ /\ rows' = Confirmed(IF deciding.verb = "approve" THEN deciding.ids ELSE {})
          /\ deciding' = [deciding EXCEPT !.answered = TRUE]
       \/ /\ deciding' = Idle
          /\ UNCHANGED rows
    /\ UNCHANGED <<analyzing, listed, resolved, cancels, wires, stage, held, shows, cancelled, plugin, waived, taken, calm>>

\* CANCEL_REVIEW; what the plugin makes of it concerns uploads only.
ServerCancels ==
    /\ toServer # <<>> /\ Head(toServer).verb = "cancel"
    /\ toServer' = Tail(toServer)
    /\ cancelled' = TRUE
    /\ Tell("ended", {})
    /\ UNCHANGED <<browser, toCad, fromCad, lost, stage, held, shows, rows, plugin, waived, taken, calm>>

\* APPROVE_FIX is only relayed: its result is written when the plugin answers.
ServerRelaysApproval ==
    /\ toServer # <<>> /\ Head(toServer).verb = "approve"
    /\ toServer' = Tail(toServer)
    /\ Relay(Head(toServer))
    /\ UNCHANGED <<browser, toUi, fromCad, server, plugin, waived, taken, calm>>

\* _persist_reject_fix_result, whatever the status of the row is.
ServerRejects ==
    /\ toServer # <<>> /\ Head(toServer).verb = "reject"
    /\ toServer' = Tail(toServer)
    /\ rows' = IF Head(toServer).all THEN Confirmed({}) ELSE Updated(Head(toServer).ids, Statuses \ {"DELETED"}, "REJECTED")
    /\ Relay(Head(toServer))
    /\ UNCHANGED <<browser, toUi, fromCad, stage, held, shows, cancelled, plugin, waived, taken, calm>>

\* _persist_cad_fix_result.
ServerMarks ==
    /\ fromCad # <<>>
    /\ rows' = Marked(Head(fromCad))
    /\ fromCad' = Tail(fromCad)
    /\ Tell("ended", {})
    /\ UNCHANGED <<browser, toServer, toCad, lost, stage, held, shows, cancelled, plugin, waived, taken, calm>>

------------------------------------------------------------------------------
(* The plugin: one message at a time, when no command is active.           *)

NextForPlugin(verb) == toCad # <<>> /\ Head(toCad).verb = verb /\ toCad' = Tail(toCad)

\* (mutant) Approved fixes stay in the list.
LeavesAll(targets) == pending

\* RemovePendingTargets.
Leaves(targets) == pending \ targets

\* What a decision is about.
Meant(message) == IF message.all THEN pending ELSE {e \in pending : e.row \in message.ids}

\* (mutant) Those rejected one by one stay in the list.
KeepsRejected(message) == IF message.all THEN {} ELSE pending

\* What a rejection leaves in the list.
Keeps(message) == pending \ Meant(message)

\* HandleReviewResult: the list is replaced.
PluginShows ==
    /\ NextForPlugin("result")
    /\ pending' = Head(toCad).entries
    /\ UNCHANGED <<browser, toServer, toUi, fromCad, lost, server, applied, waived, taken, calm>>

\* HandleApproveFix: each target is tried, but only the first of those with a
\* list of handles; ApplyFix, ApplyBulkFix and CreateEntity may fail.  All of
\* them leave the list, and the result is a success whatever was done.
PluginApproves ==
    /\ NextForPlugin("approve")
    /\ LET message == Head(toCad)
           targets == Meant(message)
           bulk == {e \in targets : rows[e.row].finding \in Bulk}
       IN  /\ \E first \in IF bulk = {} THEN {{}} ELSE {{e} : e \in bulk} :
               \E done \in SUBSET ((targets \ bulk) \cup first) :
                  applied' = applied \o SetToSeq(done)
           /\ pending' = Leaves(targets)
           /\ fromCad' = Append(fromCad, [ids |-> message.ids, all |-> message.all, success |-> targets # {}])
    /\ UNCHANGED <<browser, toServer, toUi, lost, server, waived, taken, calm>>

\* HandleRejectFix.
PluginRejects ==
    /\ NextForPlugin("reject")
    /\ pending' = Keeps(Head(toCad))
    /\ UNCHANGED <<browser, toServer, toUi, fromCad, lost, server, applied, waived, taken, calm>>

------------------------------------------------------------------------------
User ==
    \/ \E r \in Reviews : StartReview(r)
    \/ CancelReview
    \/ \E verb \in {"approve", "reject"} : DecideAll(verb) \/ \E id \in Undecided : DecideOne(verb, id)

Handler(r) == StartLoads(r) \/ StartFails(r) \/ StartSaves(r)
Task(r) ==
    \/ Mismatch(r) \/ TaskBegins(r) \/ TaskStops(r) \/ TaskRuns(r) \/ TaskGivesUp(r)
    \/ Progress(r) \/ AgentAnswers(r) \/ (\E found \in SUBSET Findings : TaskSaves(r, found))
    \/ TaskPublishes(r)
Socket == ServerCancels \/ ServerRelaysApproval \/ ServerRejects
Plugin == PluginShows \/ PluginApproves \/ PluginRejects

Next ==
    \/ User \/ AllDecided \/ UiReceives \/ ConfirmFixes
    \/ (\E r \in Reviews : Handler(r) \/ Task(r))
    \/ Socket \/ ServerMarks \/ Plugin

Spec == Init /\ [][Next]_vars

\* Requests are answered, messages delivered, tasks scheduled, agents answer,
\* and the user finishes the command that keeps the plugin from its messages.
FairSpec ==
    /\ Spec
    /\ WF_vars(AllDecided) /\ WF_vars(UiReceives) /\ WF_vars(ConfirmFixes)
    /\ \A r \in Reviews : WF_vars(Handler(r)) /\ WF_vars(Task(r))
    /\ WF_vars(Socket) /\ WF_vars(ServerMarks) /\ WF_vars(Plugin)

------------------------------------------------------------------------------
(* What a session promises.                                                *)

CarriedOut == RowsOf({applied[n] : n \in DOMAIN applied})

\* The plugin carries out no entry of a list twice, however the decisions on
\* single cards overlap with those on all of them, with messages that are lost
\* and with other reviews.  A row may come up more than once: it may have
\* several entries (agent_api.py 1154-1235), and a review that ends before the
\* row's approval is answered lists it again.
AppliedOnce == \A m, n \in DOMAIN applied : applied[m] = applied[n] => m = n

\* As long as the plugin was connected for every message and every review was
\* started when all before it was settled, which nothing in the code ensures, a
\* fix the user rejected is never carried out afterwards: the rejection is
\* relayed behind the decisions before it and ahead of an "approve all" that
\* follows.  (A review that overlaps can list the row again, and an "approve
\* all" of the list before meets the next one.)
WaivedStaysOff ==
    [][lost = 0 /\ calm => \A id \in waived : id \in CarriedOut' => id \in CarriedOut]_vars

\* As long as every review was started when all before it was settled, a row
\* that is decided keeps its status: no later review, result or decision
\* reopens it or turns it into another outcome, though a single rejection is
\* written whatever the status is.  (A review that overlaps lists a row that
\* is being approved, and a rejection then writes over APPLIED.)
ClosedStaysClosed ==
    [][calm => \A id \in Ids : rows[id].status \notin Open => rows'[id].status = rows[id].status]_vars

\* As long as the plugin was connected for every message, the rows "approve
\* all" confirmed do not stay confirmed: the plugin's result closes them.
SomeConfirmed == \E id \in Ids : rows[id].status = "CONFIRMED"
ConfirmedEnds == [](lost = 0) => (SomeConfirmed ~> ~SomeConfirmed)

\* When the user stops no review, the spinner ends by itself, by the result or
\* by one of the messages for reviews that give up.
SpinnerEndsAlone == [](cancels = 0) => (analyzing ~> ~analyzing)

\* mark_fix_result: the rows reflect the plugin's FIX_RESULT.  Once nothing is
\* under way the fixes carried out are those whose row says APPLIED.
Quiet == toServer \o toCad \o fromCad = <<>> /\ deciding = Idle
RowsTellTheDrawing ==
    Quiet /\ lost = 0 => \A id \in CarriedOut : rows[id].status = "APPLIED"
=============================================================================
