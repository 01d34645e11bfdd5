------------------------------- MODULE Proposals ------------------------------
(* Objects an answer of the chat creates, replaces or changes               *)
(* (websocket.py 184-410, 504-516, 841-923, 939-949; SocketMessageHandler.cs *)
(* 46-115 and 401-625): the server draws new objects at once, collects their       *)
(* handles for up to five seconds, shows a panel, and undoes or completes   *)
(* what was proposed when the user answers.  The plugin's part runs in the  *)
(* tasks of SafeTasks, and all of it goes over the connection of            *)
(* PluginLink.  The server's own queue to the browser loses nothing; marks, *)
(* zooms and chat texts are left out.  A handle is the pair of its proposal *)
(* and its position in it.                                                  *)
EXTENDS SafeTasks, PluginLink, FiniteSets

CONSTANTS
    Pids,           \* proposals
    Size,           \* objects a proposal creates
    MaxFaults,      \* broken connections and restarts of the server (bound)
    MaxExtras       \* commands of the user and tasks of other origin (bound)

ASSUME ProposalAssumption == Size \in Nat \ {0}

VARIABLES
    batch,          \* _batch_proposals: [kind, handles] or None
    chat,           \* the task of the chat: [pid, at, left, sent]
    panel,          \* "none", "shown", "approved", "rejected"
    offered,        \* the handles the panel was shown with
    new,            \* objects of the proposal in the drawing
    old,            \* the objects it replaces are in the drawing
    changed,        \* the changes it proposes are carried out
    kind,           \* (history) what was proposed
    late,           \* (history) the five seconds ran out
    left            \* what the bounds leave: faults, extras

server == <<batch, chat>>
browser == <<panel, offered>>
drawing == <<new, old, changed>>
history == <<kind, late>>
vars == <<dispatcher, link, server, browser, drawing, history, left>>

Kinds == {"create", "replace", "modify"}
Objects(p) == {<<p, i>> : i \in 1..Size}
Note == [do |-> "note"]
Create(p, i) == [do |-> "create", object |-> <<p, i>>]
Delete(hs) == [do |-> "delete", handles |-> hs]
DeleteOld(p) == [do |-> "delete old", of |-> p]
Modify(p) == [do |-> "modify", of |-> p]
Result(o, ok) == [object |-> o, ok |-> ok]

\* The plugin's dispatcher carries all of it.
ASSUME WorkAssumption ==
    /\ Note \in Work
    /\ \A p \in Pids :
         /\ DeleteOld(p) \in Work /\ Modify(p) \in Work
         /\ \A i \in 1..Size : Create(p, i) \in Work
         /\ \A hs \in SUBSET Objects(p) : Delete(hs) \in Work
ASSUME NoneIsNoValue ==
    /\ None \notin Kinds \cup Pids
    /\ None \notin [kind : Kinds, handles : Seq(UNION {Objects(p) : p \in Pids})]

NoChat == [pid |-> None, at |-> "none", left |-> 0, sent |-> FALSE]

Init ==
    /\ DispatcherInit /\ LinkInit
    /\ batch = [p \in Pids |-> None]
    /\ chat = NoChat
    /\ panel = [p \in Pids |-> "none"]
    /\ offered = [p \in Pids |-> {}]
    /\ new = [p \in Pids |-> {}]
    /\ old = [p \in Pids |-> TRUE]
    /\ changed = [p \in Pids |-> FALSE]
    /\ kind = [p \in Pids |-> None]
    /\ late = [p \in Pids |-> FALSE]
    /\ left = [faults |-> MaxFaults, extras |-> MaxExtras]

Spend(what) == left[what] > 0 /\ left' = [left EXCEPT ![what] = @ - 1]

------------------------------------------------------------------------------
(* The server: _send_list_as_proposal inside the task of the chat           *)

\* A new USER_CHAT first stops the task of the one before (844-846), and so
\* does CANCEL_CHAT; the proposal the stopped task waited for stays in the
\* dict.
Propose(p, k) ==
    /\ kind[p] = None
    /\ kind' = [kind EXCEPT ![p] = k]
    /\ batch' = [batch EXCEPT ![p] = [kind |-> k, handles |-> <<>>]]
    /\ IF k = "modify"
       THEN chat' = NoChat /\ panel' = [panel EXCEPT ![p] = "shown"]
       ELSE /\ chat' = [NoChat EXCEPT !.pid = p, !.at = "sends", !.left = Size]
            /\ UNCHANGED panel
    /\ UNCHANGED <<dispatcher, link, offered, drawing, late, left>>

StopChat ==
    /\ chat.at # "none"
    /\ chat' = NoChat
    /\ UNCHANGED <<dispatcher, link, batch, browser, drawing, history, left>>

\* One CREATE_ENTITY; if none of them reached the group the proposal is
\* dropped, and the user told so.
SendCreate ==
    /\ chat.at = "sends"
    /\ Put(<<Create(chat.pid, chat.left)>>)
    /\ LET sent == chat.sent \/ Reached IN
       IF chat.left > 1
       THEN chat' = [chat EXCEPT !.left = @ - 1, !.sent = sent] /\ UNCHANGED batch
       ELSE IF sent
       THEN chat' = [chat EXCEPT !.left = 0, !.at = "waits"] /\ UNCHANGED batch
       ELSE chat' = NoChat /\ batch' = [batch EXCEPT ![chat.pid] = None]
    /\ UNCHANGED <<dispatcher, browser, drawing, history, left>>

\* The panel gets the handles collected so far; CREATE is forgotten, REPLACE
\* waits for the answer.
Shows(p) ==
    /\ panel' = [panel EXCEPT ![p] = "shown"]
    /\ offered' = [offered EXCEPT ![p] = Among(batch[p].handles)]
    /\ batch' = IF batch[p].kind = "create" THEN [batch EXCEPT ![p] = None] ELSE batch
    /\ chat' = NoChat

Complete(p) == Len(batch[p].handles) >= Size
AllCame ==
    /\ chat.at = "waits" /\ Complete(chat.pid)
    /\ Shows(chat.pid)
    /\ UNCHANGED <<dispatcher, link, drawing, history, left>>

\* asyncio.wait_for(ev.wait(), timeout=5.0)
TimeIsUp ==
    /\ chat.at = "waits" /\ ~Complete(chat.pid)
    /\ Shows(chat.pid)
    /\ late' = [late EXCEPT ![chat.pid] = TRUE]
    /\ UNCHANGED <<dispatcher, link, drawing, kind, left>>

\* (mutant) a creation that failed counts as well
CollectsAny(p, r) == batch[p] # None

\* CREATE_RESULT: a handle is collected if its proposal is still known.
Collects(p, r) == batch[p] # None /\ r.ok
HearResult ==
    /\ up # <<>>
    /\ LET r == Head(up) p == r.object[1] IN
       batch' = IF Collects(p, r)
                THEN [batch EXCEPT ![p].handles = Append(@, r.object)] ELSE batch
    /\ up' = Tail(up)
    /\ UNCHANGED <<phase, pending, held, down, listed, lost>>
    /\ UNCHANGED <<dispatcher, chat, browser, drawing, history, left>>

------------------------------------------------------------------------------
(* The user's answer and what the server makes of it                        *)

\* APPROVE_ENTITY: what is no longer known counts as a creation, for which
\* there is nothing to do.
Approve(p) ==
    /\ panel[p] = "shown"
    /\ panel' = [panel EXCEPT ![p] = "approved"]
    /\ LET b == batch[p] IN
       Put(IF b = None THEN <<>>
             ELSE IF b.kind = "replace" THEN <<DeleteOld(p)>>
             ELSE IF b.kind = "modify" THEN <<Modify(p)>> ELSE <<>>)
    /\ batch' = [batch EXCEPT ![p] = None]
    /\ UNCHANGED <<dispatcher, chat, offered, drawing, history, left>>

\* (mutant) what was held back is sent with the deletion
RejectSendsAll(p) ==
    /\ panel[p] = "shown"
    /\ panel' = [panel EXCEPT ![p] = "rejected"]
    /\ Put(<<Delete(offered[p]), IF kind[p] = "modify" THEN Modify(p) ELSE DeleteOld(p)>>)
    /\ batch' = [batch EXCEPT ![p] = None]
    /\ UNCHANGED <<dispatcher, chat, offered, drawing, history, left>>

\* REJECT_ENTITY: the handles are those of the panel, not of the proposal.
Reject(p) ==
    /\ panel[p] = "shown"
    /\ panel' = [panel EXCEPT ![p] = "rejected"]
    /\ Put(IF offered[p] = {} THEN <<>> ELSE <<Delete(offered[p])>>)
    /\ batch' = [batch EXCEPT ![p] = None]
    /\ UNCHANGED <<dispatcher, chat, offered, drawing, history, left>>

------------------------------------------------------------------------------
(* The plugin                                                               *)

\* HandleMessage queues the message as a task.
PluginHears(t) ==
    /\ Receive
    /\ Enqueue(t, Head(down))
    /\ UNCHANGED <<server, browser, drawing, history, left>>

\* Other work for the UI thread: lines for the command line, extractions.
OtherWork(t) ==
    /\ Enqueue(t, Note)
    /\ Spend("extras")
    /\ UNCHANGED <<link, server, browser, drawing, history>>
OtherWorkOnUi ==
    /\ EnqueueOnUi(Note)
    /\ Spend("extras")
    /\ UNCHANGED <<link, server, browser, drawing, history>>

\* HandleCadAction, mode A: the object is drawn, or is not (a bad coordinate
\* or block name), and CREATE_RESULT says which.
Draws(o, ok) ==
    /\ new' = IF ok THEN [new EXCEPT ![o[1]] = @ \cup {o}] ELSE new
    /\ UNCHANGED <<old, changed>>
    /\ Send(Result(o, ok))

\* (mutant) only the first of the handles is looked up
ErasesFirst(hs) ==
    /\ new' = [p \in Pids |-> new[p] \ {CHOOSE h \in hs : TRUE}]
    /\ UNCHANGED <<old, changed, link>>

\* Mode B: what is not found is reported as failed.
Erases(hs) ==
    /\ new' = [p \in Pids |-> new[p] \ hs]
    /\ UNCHANGED <<old, changed, link>>
Carries(task) ==
    \/ task.do = "note" /\ UNCHANGED <<drawing, link>>
    \/ task.do = "create" /\ \E ok \in BOOLEAN : Draws(task.object, ok)
    \/ task.do = "delete" /\ Erases(task.handles)
    \/ task.do = "delete old" /\ old' = [old EXCEPT ![task.of] = FALSE]
                              /\ UNCHANGED <<new, changed, link>>
    \/ task.do = "modify" /\ changed' = [changed EXCEPT ![task.of] = TRUE]
                          /\ UNCHANGED <<new, old, link>>

\* The task runs on the UI thread, which is busy until a message in hand is
\* queued.
PluginRuns ==
    /\ held = None
    /\ RunTask
    /\ Carries(Head(tasks))
    /\ UNCHANGED <<server, browser, history, left>>

Looks ==
    /\ held = None
    /\ DrainBegins \/ FindsCommand \/ FindsNone \/ RunEnds \/ LookThrows
    /\ UNCHANGED <<link, server, browser, drawing, history, left>>
Schedules(t) ==
    /\ Inside(t)
    /\ UNCHANGED <<link, server, browser, drawing, history, left>>
UserBegins ==
    /\ CommandBegins
    /\ Spend("extras")
    /\ UNCHANGED <<link, server, browser, drawing, history>>
UserStops ==
    /\ CommandStops
    /\ UNCHANGED <<link, server, browser, drawing, history, left>>

------------------------------------------------------------------------------
(* The connection, and a server that is started anew: its dict is gone, the *)
(* panels in the browser are not.                                           *)

Moves ==
    /\ QueueHeld \/ Connect \/ Flush \/ FlushEnds \/ Notice
    /\ UNCHANGED <<dispatcher, server, browser, drawing, history, left>>
Breaks ==
    /\ Break
    /\ Spend("faults")
    /\ UNCHANGED <<dispatcher, server, browser, drawing, history>>
Restart ==
    /\ Spend("faults")
    /\ IF Open THEN /\ phase' = "down" /\ up' = <<>> /\ down' = <<>>
                    /\ lost' = lost \cup Among(up) \cup Among(down)
               ELSE UNCHANGED <<phase, up, down, lost>>
    /\ listed' = FALSE
    /\ batch' = [p \in Pids |-> None]
    /\ chat' = NoChat
    /\ UNCHANGED <<pending, held, dispatcher, browser, drawing, history>>

User == (\E p \in Pids : Approve(p) \/ Reject(p) \/ \E k \in Kinds : Propose(p, k)) \/ StopChat
Plugin ==
    \/ \E t \in Threads : PluginHears(t) \/ OtherWork(t) \/ Schedules(t)
    \/ OtherWorkOnUi \/ PluginRuns \/ Looks \/ UserBegins \/ UserStops
Server == SendCreate \/ AllCame \/ TimeIsUp \/ HearResult
Next == User \/ Plugin \/ Server \/ Moves \/ Breaks \/ Restart

Spec == Init /\ [][Next]_vars

\* A thread inside EnqueueSafeTask and the UI thread go on, the user ends a
\* command, a connection is made anew and the loops of both ends run.  Nobody
\* has to ask, answer or begin a command.
FairSpec ==
    /\ Spec
    /\ \A t \in Threads : WF_vars(Schedules(t)) /\ WF_vars(PluginHears(t))
    /\ WF_vars(PluginRuns) /\ WF_vars(Looks) /\ WF_vars(UserStops)
    /\ WF_vars(Moves) /\ WF_vars(Server)

------------------------------------------------------------------------------
(* Properties                                                               *)

Results == [object : UNION {Objects(p) : p \in Pids}, ok : BOOLEAN]
TypeOK ==
    /\ DispatcherTypeOK
    /\ phase \in {"down", "flush", "receive"} /\ listed \in BOOLEAN
    /\ pending \in Seq(Results) /\ Len(pending) <= MaxPending
    /\ up \in Seq(Results) /\ down \in Seq(Work)
    /\ held \in Results \cup {None}
    /\ \A p \in Pids :
         /\ batch[p] # None => /\ batch[p].kind = kind[p]
                               /\ Among(batch[p].handles) \subseteq Objects(p)
         /\ offered[p] \cup new[p] \subseteq Objects(p)
         /\ panel[p] \in {"none", "shown", "approved", "rejected"}
         /\ kind[p] \in Kinds \cup {None}
    /\ chat.at \in {"none", "sends", "waits"} /\ chat.left \in 0..Size

\* A CREATE_RESULT is in one place only: collected, on the way, in the
\* plugin's queue or in a sender's hand (SocketClient.cs 36-65).  Two of them
\* would count as two objects and end the wait for the others early.
Times(q, o) == Cardinality({i \in DOMAIN q : q[i] = o})
Told(q, o) == Cardinality({i \in DOMAIN q : q[i].object = o})
ResultOnce ==
    \A p \in Pids : \A o \in Objects(p) :
        (IF batch[p] = None THEN 0 ELSE Times(batch[p].handles, o))
        + Told(up, o) + Told(pending, o)
        + (IF held # None /\ held.object = o THEN 1 ELSE 0) <= 1

\* A panel that was shown before the five seconds ran out names every object
\* of its proposal, and once it is approved all of them stand (websocket.py
\* 288-301 and 878: a replacement removes the old objects and keeps the new
\* ones).
AnswerIsWhole ==
    \A p \in Pids :
        kind[p] # "modify" /\ panel[p] # "none" /\ ~late[p] =>
            /\ offered[p] = Objects(p)
            /\ panel[p] = "approved" => new[p] = Objects(p)

\* The drawing follows the answer: new objects go only after a rejection, old
\* ones only after the approval of a replacement, and changes are carried out
\* only after theirs (websocket.py 181-183), whatever is lost, late or started
\* anew.
AnswersDecide ==
    [][\A p \in Pids :
          /\ ~(new[p] \subseteq new'[p]) => panel[p] = "rejected"
          /\ old[p] /\ ~old'[p] => panel[p] = "approved" /\ kind[p] = "replace"
          /\ changed'[p] /\ ~changed[p] => panel[p] = "approved" /\ kind[p] = "modify"]_vars

\* Every queued task runs in the end, if the last look at the queue did not
\* throw (SafeTaskDispatcher.cs 81-133).
EveryTaskRuns == (tasks # <<>>) ~> (tasks = <<>> \/ threw)

\* What a rejected panel named leaves the drawing, unless the connection lost
\* the order (websocket.py 893-900).
RejectedGoes ==
    \A p \in Pids :
        (panel[p] = "rejected") ~>
            (offered[p] \cap new[p] = {} \/ threw \/ Delete(offered[p]) \in lost)

==============================================================================
