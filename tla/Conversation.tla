------------------------------ MODULE Conversation -----------------------------
(* The turns of a chat session and what is kept of them (agent_service.py   *)
(* 50-105 and 232-554, agent_api.py 777-896, state_service.py 46-205 and    *)
(* 455-659, memory_summary_node.py 26-139, memory_service.py 18-58;         *)
(* mapping.py 79-175, cad_interop.py 84-148).  A message of the chat and a  *)
(* call of /agent/execute may be under way at the same time.  Each loads    *)
(* the memory and the drawing, has the domain's agent answer, and commits   *)
(* the messages, the memory and the fixes one by one.  Meanwhile the user   *)
(* edits the drawing, saves roles for layers, or stops the chat.            *)
(* A script has its `domain`, its `requests`, those of AgentAnswer with the *)
(* way each comes `by`, `blank` for one of spaces and the `pieces` that the *)
(* memory takes its answer for; the `drawings` one after another, the `rows`*)
(* of an earlier review, the `batch` of roles the user saves, if any, the   *)
(* `library` of chunks, and whether requests may `overlap`.  Compressing    *)
(* the memory is taken to keep every piece of it.                           *)
EXTENDS AgentAnswer

CONSTANTS
    Scripts,
    MaxRecent,      \* turns that are remembered word by word
    MaxAdded,       \* tables that are added to what a query has found
    MaxLapses       \* a bound on what fails

IsList(s) == s \in Seq(ToSet(s))
\* A turn has something to say and comes in one of the two ways; what answers in words
\* is no tool that the model may choose.  An entity has its ends, unless it has no
\* place.  A place of a document holds one chunk, and those of the library have ids.
IsTurn(q) ==
    /\ q.by \in {"chat", "execute"} /\ q.pieces \in Nat \ {0}
    /\ q.domain \in DOMAIN Offered /\ q.reply \in {"text", "tools", "nothing"}
    /\ IsList(q.calls) /\ \A call \in ToSet(q.calls) : call.name # "direct"
    /\ IsList(q.found) /\ IsList(q.report.refs)
IsDrawing(d) == IsList(d.list) /\ \A h \in ToSet(d.list) : d.ent[h].at = <<>> \/ d.ent[h].at \in Int \X Int
IsLibrary(library, requests) ==
    /\ IsList(library) /\ \A c \in ToSet(library) : c.id # <<>>
    /\ \A q \in ToSet(requests) : \A c \in ToSet(library), k \in ToSet(q.found \o library) :
            IsAt(k, c) => k.id = c.id
IsScript(s) ==
    /\ IsList(s.requests) /\ \A q \in ToSet(s.requests) : IsTurn(q)
    /\ IsList(s.drawings) /\ s.drawings # <<>> /\ \A d \in ToSet(s.drawings) : IsDrawing(d)
    /\ IsLibrary(s.library, s.requests)

\* The code remembers five turns, and adds eight tables.
ASSUME BoundsAssumption == MaxRecent \in Nat \ {0} /\ MaxAdded \in Nat \ {0} /\ MaxLapses \in Nat
ASSUME ScriptsAssumption == \A i \in DOMAIN Scripts : IsScript(Scripts[i])

VARIABLE dialog

NoDialog == [at |-> "none"]
DialogInit == dialog = NoDialog

Ways == {"chat", "execute"}
Rest == [at |-> "rest"]
Storing == {"answered", "store"}
NoMemory == [summary |-> <<>>, recent |-> <<>>]
NoRules == [db |-> <<>>, cached |-> <<>>, failed |-> FALSE, saving |-> FALSE]

BeginDialog(script) ==
    dialog' = [at |-> "on", script |-> script, next |-> 1, drawing |-> 1, chat |-> Rest, execute |-> Rest,
                  memory |-> NoMemory, transcript |-> <<>>, rows |-> script.rows, rules |-> NoRules, cache |-> {},
                  saved |-> FALSE, kept |-> <<>>, spoiled |-> FALSE, lapses |-> 0]

Script == dialog.script
Request(i) == Script.requests[i]
Lapse == dialog.lapses < MaxLapses
Torn(t) ==
    /\ t.at = "store" /\ t.new.summary # t.mem.summary
    /\ (dialog.memory.summary = t.new.summary) # (dialog.memory.recent = t.new.recent)

------------------------------------------------------------------------------
(* Roles of layers, and the edits of the drawing                            *)

\* The rules of a batch are stored when every term in it is known; a rule that
\* names no role keeps the one it had.
Upserted(db, batch) ==
    FoldLeft(LAMBDA out, r : IF r.role = <<>> THEN out ELSE (r.key :> r.role[1]) @@ out, db, batch)
SaveRules ==
    /\ Script.batch # <<>> /\ ~dialog.saved
    /\ LET batch == Script.batch IN
       dialog' = [dialog EXCEPT !.saved = TRUE,
                     !.rules.db = IF \A i \in DOMAIN batch : batch[i].known THEN Upserted(@, batch) ELSE @,
                     !.rules.saving = \A i \in DOMAIN batch : batch[i].known]
\* (mutant) A save that leaves what was read before.
NotCleared(rules) == [rules EXCEPT !.saving = FALSE]
Invalidated(rules) == [rules EXCEPT !.cached = <<>>, !.failed = FALSE, !.saving = FALSE]
InvalidateMappingCache ==
    /\ dialog.rules.saving
    /\ dialog' = [dialog EXCEPT !.rules = Invalidated(@)]
\* What was read is kept until the next save, and so is what could not be read.
FetchRules(rules, fails) ==
    IF rules.cached # <<>> THEN rules
    ELSE [rules EXCEPT !.cached = <<IF fails THEN <<>> ELSE rules.db>>, !.failed = fails]

Edit ==
    /\ dialog.drawing < Len(Script.drawings)
    /\ dialog' = [dialog EXCEPT !.drawing = @ + 1]

------------------------------------------------------------------------------
(* A turn                                                                   *)

\* A request begins when the one before is over, or comes another way.
StartTurn ==
    /\ dialog.next <= Len(Script.requests)
    /\ LET way == Request(dialog.next).by IN
       /\ dialog[way] = Rest
       /\ Script.overlap \/ \A other \in Ways : dialog[other] = Rest
       /\ dialog' = [dialog EXCEPT ![way] = [at |-> "load", turn |-> dialog.next], !.next = @ + 1]

\* The memory as it is, or none when it cannot be read; `base` is what it holds,
\* a piece of no turn when that is not all.
Unknown == <<<<0, 0>>>>
Loaded(way, memoryFails, drawingFails) ==
    [at |-> "node", turn |-> dialog[way].turn,
     mem |-> IF memoryFails THEN NoMemory ELSE dialog.memory,
     base |-> IF (memoryFails /\ dialog.memory # NoMemory) \/ \E other \in Ways : Torn(dialog[other])
              THEN Unknown ELSE dialog.kept,
     drawing |-> IF drawingFails THEN 0 ELSE dialog.drawing,
     pending |-> IF way = "chat" THEN <<>> ELSE dialog.rows]
LoadChat ==
    /\ dialog.chat.at = "load"
    /\ \E memoryFails, drawingFails \in BOOLEAN :
        LET failed == (IF memoryFails THEN 1 ELSE 0) + (IF drawingFails THEN 1 ELSE 0) IN
        /\ dialog.lapses + failed <= MaxLapses
        /\ dialog' = [dialog EXCEPT !.chat = Loaded("chat", memoryFails, drawingFails), !.lapses = @ + failed]
\* /agent/execute stores the user's message before it runs the agent.
LoadExecute ==
    /\ dialog.execute.at = "load"
    /\ dialog' = [dialog EXCEPT !.execute = Loaded("execute", FALSE, FALSE),
                                !.transcript = Append(@, <<dialog.execute.turn, "user">>)]

Empty == [list |-> <<>>]
DrawingAt(i) == IF i = 0 THEN Empty ELSE Script.drawings[i]

\* Nothing but the answer to a blank request is not remembered; the oldest piece
\* makes room for a new turn, which counts as one.
Pieces(i) == [k \in 1..Request(i).pieces |-> <<i, k>>]
Remember(mem, i) ==
    LET all == mem.recent \o Pieces(i)
    IN  IF Len(mem.recent) + 1 > MaxRecent
        THEN [summary |-> Append(mem.summary, all[1]), recent |-> Tail(all)]
        ELSE [mem EXCEPT !.recent = all]
MemorySummary(mem, i) == IF Request(i).blank THEN mem ELSE Remember(mem, i)
\* (mutant) A chat that always adds its turn.
AddedByBoth(mem, i, graph) == Remember(graph, i)
\* A graph that has left the memory as it was is taken for one without a memory.
ChatMemory(mem, i, graph) == IF graph # mem THEN graph ELSE Remember(mem, i)

\* The role of an organisation's layer counts for /agent/execute only: a message of
\* the chat has no organisation.
Fetches(way, q, d, intent) == way = "execute" /\ q.domain = "pipe" /\ HasDrawing(d) /\ intent # "answer"
Rules(way, q, d, intent, fails) ==
    IF Fetches(way, q, d, intent) THEN FetchRules(dialog.rules, fails) ELSE dialog.rules
OrgRoles(way, rules) == IF way = "chat" \/ rules.cached = <<>> THEN <<>> ELSE rules.cached[1]

\* The pipe review keeps the names of the blocks under the fingerprint of the
\* drawing; without Redis they are found anew.
Keeps(q, d, intent, down) == q.domain = "pipe" /\ Reviewing(intent) /\ HasDrawing(d) /\ ~down
Key(d) == Fingerprint(d)
Names(q, d, intent, down) ==
    LET hits == {c \in dialog.cache : Keeps(q, d, intent, down) /\ c.key = Key(d)}
    IN  IF hits # {} THEN (CHOOSE c \in hits : TRUE).names ELSE NamesMapped(q, d, intent)
CacheWith(q, d, intent, down, names) ==
    IF Keeps(q, d, intent, down) /\ names # <<>> /\ \A c \in dialog.cache : c.key # Key(d)
    THEN dialog.cache \union {[key |-> Key(d), names |-> names]} ELSE dialog.cache

\* What is committed, in this order: a chat stores the recent turns before the
\* summary, and everything again with its fixes, if it has any.
Saves == <<"summary", "recent", "rows">>
Commits(way, pending) ==
    IF way = "execute" THEN <<"assistant">> \o Saves
    ELSE <<"user", "assistant", "recent", "summary">> \o (IF pending = <<>> THEN <<>> ELSE Saves)

\* The agent takes its part of the drawing; `under` are the rules that were in
\* force when the layers got their roles.
Ground(way, q, d, intent, rules, names) ==
    [intent |-> intent, names |-> names, under |-> rules,
     layout |-> Layout(q, d, OrgRoles(way, rules), intent)]
Grounded(t, ground) ==
    [at |-> "tools", turn |-> t.turn, mem |-> t.mem, base |-> t.base, drawing |-> t.drawing,
     pending |-> t.pending, ground |-> ground]
Prepared(way, q, d, intent, rules, names, slip) ==
    dialog' = [dialog EXCEPT
        ![way] = Grounded(@, Ground(way, q, d, intent, rules, names)),
        !.rules = rules, !.cache = CacheWith(q, d, intent, slip = "redis", names),
        !.lapses = IF slip = "none" THEN @ ELSE @ + 1]
Slips(way, q, d, intent) ==
    {"none"} \union (IF Lapse /\ Fetches(way, q, d, intent) THEN {"rules"} ELSE {})
             \union (IF Lapse /\ Keeps(q, d, intent, FALSE) THEN {"redis"} ELSE {})
Prepares(way) ==
    /\ dialog[way].at = "node"
    /\ \E q \in {Request(dialog[way].turn)}, d \in {DrawingAt(dialog[way].drawing)} :
       \E intent \in {RequestIntent(q, d)} : \E slip \in Slips(way, q, d, intent) :
       \E rules \in {Rules(way, q, d, intent, slip = "rules")}, names \in {Names(q, d, intent, slip = "redis")} :
            Prepared(way, q, d, intent, rules, names, slip)

Stored(way, t, out, graph) ==
    [at |-> "answered", turn |-> t.turn, mem |-> t.mem, base |-> t.base, drawing |-> t.drawing, ground |-> t.ground,
     new |-> IF way = "chat" THEN ChatMemory(t.mem, t.turn, graph) ELSE graph,
     out |-> out, todo |-> Commits(way, out.pending)]
Responds(way) ==
    /\ dialog[way].at = "tools"
    /\ \E t \in {dialog[way]} : \E q \in {Request(t.turn)}, d \in {DrawingAt(t.drawing)} :
       \E calls \in {ToolCalls(q, d, t.ground.intent)} :
       \E out \in {ReviewNode(q, t.pending, calls, t.ground.intent, Script.library, MaxAdded)} :
            dialog' = [dialog EXCEPT ![way] = Stored(way, t, out, MemorySummary(t.mem, t.turn))]

\* The memory of a turn that is given up is in two when it has stored one half.
GiveUp(way) ==
    dialog' = [dialog EXCEPT ![way] = Rest, !.spoiled = @ \/ Torn(dialog[way])]
\* The language model does not compress the oldest turn: the answer is lost.
CompressFails(way) ==
    /\ dialog[way].at = "tools" /\ Lapse
    /\ MemorySummary(dialog[way].mem, dialog[way].turn).summary # dialog[way].mem.summary
    /\ dialog' = [dialog EXCEPT ![way] = Rest, !.lapses = @ + 1]

\* The waiting rows give way to the fixes of this turn.
SyncPendingFixes(rows, pending) ==
    SelectSeq(rows, LAMBDA r : r.status # "PENDING")
        \o [i \in DOMAIN pending |-> [status |-> "PENDING"] @@ pending[i]]
\* A turn writes over what it has not read, or into the half that another has
\* stored.
Clobbers(way, t) ==
    dialog.kept # t.base \/ \E other \in Ways \ {way} : Torn(dialog[other])
\* What is `kept` are the pieces of the turns that have stored their recent ones.
HasPiece(list, i) == \E k \in DOMAIN list : list[k][1] = i
KeptWith(t) ==
    IF t.new # t.mem /\ ~HasPiece(dialog.kept, t.turn) THEN dialog.kept \o Pieces(t.turn) ELSE dialog.kept
Write(way, t) ==
    CASE Head(t.todo) \in {"user", "assistant"} ->
            [dialog EXCEPT !.transcript = Append(@, <<t.turn, Head(t.todo)>>)]
      [] Head(t.todo) = "summary" ->
            [dialog EXCEPT !.memory.summary = t.new.summary, !.spoiled = @ \/ Clobbers(way, t)]
      [] Head(t.todo) = "recent" ->
            [dialog EXCEPT !.memory.recent = t.new.recent, !.spoiled = @ \/ Clobbers(way, t),
                           !.kept = KeptWith(t), ![way].base = KeptWith(t)]
      [] Head(t.todo) = "rows" ->
            [dialog EXCEPT !.rows = SyncPendingFixes(@, t.out.pending)]
Committed(t) == IF Len(t.todo) = 1 THEN Rest ELSE [t EXCEPT !.at = "store", !.todo = Tail(t.todo)]
Commit(way) ==
    /\ dialog[way].at \in Storing
    /\ dialog' = [Write(way, dialog[way]) EXCEPT ![way] = Committed(@)]

\* A commit fails.  The chat goes on with its fixes, and with the memory as it was
\* loaded unless the new one was ready; /agent/execute ends with an error.
AfterFailure(t) == IF t.out.pending = <<>> THEN <<>> ELSE Saves
CommitFails(way) ==
    /\ dialog[way].at \in Storing /\ Lapse
    /\ LET t == dialog[way]
           goesOn == way = "chat" /\ Len(t.todo) > Len(Saves) /\ t.out.pending # <<>>
       IN  dialog' = IF goesOn
                     THEN [dialog EXCEPT ![way].todo = Saves, !.lapses = @ + 1,
                                         ![way].new = IF Head(t.todo) \in {"user", "assistant"} THEN t.mem ELSE @]
                     ELSE [dialog EXCEPT ![way] = Rest, !.lapses = @ + 1, !.spoiled = @ \/ Torn(t)]
\* The user stops the chat, wherever it is.
StopChat == dialog.chat # Rest /\ GiveUp("chat")

DialogNext ==
    \/ dialog = NoDialog /\ \E i \in DOMAIN Scripts : BeginDialog(Scripts[i])
    \/ /\ dialog.at = "on"
       /\ \/ StartTurn \/ SaveRules \/ InvalidateMappingCache \/ Edit \/ StopChat
          \/ LoadChat \/ LoadExecute
          \/ \E way \in Ways : Prepares(way) \/ Responds(way) \/ Commit(way) \/ CompressFails(way) \/ CommitFails(way)

DialogSpec == DialogInit /\ [][DialogNext]_dialog

------------------------------------------------------------------------------
(* Properties                                                               *)

Begun == dialog.at = "on"
Busy(way) == Begun /\ dialog[way] # Rest
DialogTypeOK ==
    Begun => /\ dialog.lapses <= MaxLapses /\ dialog.next <= Len(Script.requests) + 1
             /\ \A way \in Ways : dialog[way].at \in {"rest", "load", "node", "tools"} \union Storing
Quiet == \A way \in Ways : ~Busy(way)

IsTold(transcript, i, role) == \E k \in DOMAIN transcript : transcript[k] = <<i, role>>

\* What a session remembers is its answered turns, in their order and each of
\* them once: nothing falls out between the summary and the recent turns when the
\* oldest moves over, and nothing is added twice, by the graph and by the chat that
\* takes it for one without a memory.  That is so unless a turn could not read the
\* memory, or wrote over what another has stored since, or was given up between
\* the two halves.  What is remembered is also in the transcript, with the
\* question and the answer (agent_service.py 255-265, 353-424;
\* memory_summary_node.py 113-139; state_service.py 140-149).
MemoryIsWhole ==
    Begun =>
        /\ \A k \in DOMAIN dialog.kept : \A role \in {"user", "assistant"} :
                IsTold(dialog.transcript, dialog.kept[k][1], role)
        /\ Quiet /\ ~dialog.spoiled => dialog.memory.summary \o dialog.memory.recent = dialog.kept

\* The roles of a review's layers are those that the organisation has saved, unless
\* they could not be read or are being saved.
RolesAreSaved(way, q, d, g) ==
    way = "execute" /\ q.domain = "pipe" /\ HasDrawing(d) /\ g.intent # "answer" /\ ~g.under.failed /\ ~g.under.saving
        => g.layout.roles = [name \in {d.ent[h].layer : h \in ToSet(d.list)} |-> ClassifyLayer(name, d.layer[name], g.under.db)]
\* An element of the review is shown with the nearest of the architecture.
HintsAreNearest(d, layout) ==
    \A i \in DOMAIN layout.hints : \A h \in ToSet(layout.arch) :
        LET hint == layout.hints[i]
            Gap(a) == Separation(d.ent[hint.mep].at, d.ent[a].at)
        IN  d.ent[h].at # <<>> => Gap(hint.arch[1]) <= Gap(h)
\* The names of the blocks are those of a drawing that the fingerprint cannot tell
\* from the one under review.
NamesAreOfTheDrawing(q, d, g) ==
    q.domain = "pipe" /\ Reviewing(g.intent) /\ HasDrawing(d) =>
        \E e \in ToSet(Script.drawings), r \in ToSet(Script.requests) :
            Fingerprint(e) = Fingerprint(d) /\ g.names = PipeNames(e, r.namer)
\* A text that refers to a table is cited with the tables near it, as far as there
\* is room; in the electrical domain, unless the query was asked for as a review.
TablesAreCited(q, calls, out) ==
    (/\ out.says = "query" /\ q.domain # "pipe" /\ Len(out.laws) < Len(q.found) + MaxAdded
     /\ \E i \in DOMAIN calls : calls[i].name = "call_query_agent")
    => \A c \in ToSet(q.found), table \in ToSet(Script.library) :
            ~c.table /\ c.refers /\ c.doc \notin q.failing /\ TableBeside(table, c) =>
                \E law \in ToSet(out.laws) : law.id = table.id
\* The chunk that a fix refers to is one that was retrieved.
RefsAreRetrieved(q, out) ==
    LET chunks == ToSet(q.report.refs \o q.found \o Script.library) IN
    out.says = "review" /\ (\A c \in chunks : c.id # <<>>) =>
        \A p \in ToSet(out.pending) : p.ref # <<>> => \E c \in chunks : c.id = p.ref
\* A question of rules is not answered without looking it up.
IsLookedUp(q, g, out) ==
    out.says = "direct" => IF q.domain = "pipe" THEN ~IsPipeRagQuestion(q)
                           ELSE g.intent # "answer" \/ Casual(q) \/ Greets(q)
HasGround(way, q, d, g, out) ==
    /\ RolesAreSaved(way, q, d, g) /\ HintsAreNearest(d, g.layout) /\ NamesAreOfTheDrawing(q, d, g)
    /\ \/ q.broken
       \/ /\ TablesAreCited(q, ToolCalls(q, d, g.intent), out)
          /\ RefsAreRetrieved(q, out)
          /\ IsLookedUp(q, g, out)

\* An answer rests on what was saved, drawn and retrieved: the roles of the layers,
\* the nearest walls, the names of the blocks, the tables, the references of the
\* fixes; and a question is looked up (mapping.py 79-175 and cad_interop.py 146-147;
\* pipe_review_node.py 112-145 and 374-425; elec_review_node.py 470-486 and
\* 1737-1871; pipe_review_node.py 2187-2204 and 489-512).
DialogHasGround ==
    Begun => \A way \in Ways :
        dialog[way].at = "answered" =>
            \E t \in {dialog[way]} : HasGround(way, Request(t.turn), DrawingAt(t.drawing), t.ground, t.out)
==============================================================================
