------------------------------ MODULE AgentRouting -----------------------------
(* What one of the four domain agents makes of a request before it calls    *)
(* its tools (pipe_review_node.py 86-585 and 2305-2368, elec 130-545 and    *)
(* 1874-1905, arch 598-836, fire 85-356): the intent, the part of the       *)
(* drawing it looks at, the names of its blocks, and the tools.  A request  *)
(* q has its `domain`, the `hint` of /agent/start, the kinds of `words` in  *)
(* it that some list of keywords has, the intent `routed` by the language   *)
(* model, its `reply` to the choice of a tool and the `calls` in it, `chats`*)
(* when it answers small talk, and the `selected` and the `focus` handles   *)
(* with `keep` for a drawing whose entities must stay whole.  `namer` are   *)
(* the texts whose block the language model corrects.                       *)
EXTENDS ObjectMap

HasDrawing(d) == d.list # <<>>

\* Keywords decide before the language model does, in this order.
Ladder == [pipe |-> <<"action", "review", "answer">>, elec |-> <<"action", "review", "answer">>,
           fire |-> <<"action", "fix_suggestion", "review", "answer">>, arch |-> <<>>]
Intents == {"answer", "review", "fix_suggestion", "action"}
ClassifyIntent(q) ==
    LET said == SelectSeq(Ladder[q.domain], LAMBDA w : w \in q.words)
    IN  CASE said # <<>> -> said[1]
          [] said = <<>> /\ (q.domain = "arch" \/ q.routed \in Intents) -> q.routed
          [] OTHER -> "answer"
RequestIntent(q, d) ==
    IF q.hint = "review" \/ (HasDrawing(d) /\ ClassifyIntent(q) = "answer" /\ "override" \in q.words)
    THEN "review" ELSE ClassifyIntent(q)

\* The part of the drawing that the agent is given; of the electrical one all
\* that is electrical, whatever is selected.
Selection(q, d) ==
    LET some == FilterByHandles(d.list, q.selected) IN
    IF some = <<>> \/ (q.domain = "fire" /\ q.keep) THEN d.list ELSE some
Seen(q, d, intent) ==
    CASE q.domain = "arch" -> d.list
      [] q.domain = "elec" /\ intent \in {"review", "fix_suggestion"} -> FilterByHandles(d.list, d.electric)
      [] OTHER -> IF q.focus # {} THEN FilterByHandles(d.list, q.focus) ELSE Selection(q, d)
NoLayout == [arch |-> <<>>, mep |-> <<>>, as |-> <<>>, roles |-> <<>>, hints |-> <<>>]
Layout(q, d, org, intent) ==
    CASE ~HasDrawing(d) \/ intent = "answer" -> NoLayout
      [] HasDrawing(d) /\ intent # "answer" /\ q.domain = "pipe" ->
            PipeLayout(d, org, Split(d, org), q.focus, q.selected, 32)
      [] OTHER -> [NoLayout EXCEPT !.mep = Seen(q, d, intent)]

\* What the key of the cache tells apart: neither the colours of the layers nor
\* the angles of the entities.
Fingerprint(d) ==
    <<d.titled, ToSet([i \in DOMAIN d.list |->
        LET e == d.ent[d.list[i]] IN <<d.list[i], e.kind, e.layer, e.at, e.words, e.named>>]), Len(d.list)>>

\* The domains that match texts with blocks when a drawing is reviewed.
Reviewing(intent) == intent \in {"review", "fix_suggestion"}
PipeNames(d, namer) == ObjectMapping(d, TRUE, 10000, <<>>, namer)
NamesMapped(q, d, intent) ==
    CASE ~HasDrawing(d) -> <<>>
      [] HasDrawing(d) /\ q.domain = "pipe" /\ Reviewing(intent) -> PipeNames(d, q.namer)
      [] HasDrawing(d) /\ q.domain = "elec" /\ Reviewing(intent) -> ObjectMapping(d, FALSE, 50000, <<>>, q.namer)
      [] HasDrawing(d) /\ q.domain = "arch" /\ intent # "answer" -> ObjectMapping(d, FALSE, 10000, <<>>, q.namer)
      [] OTHER -> <<>>

------------------------------------------------------------------------------
(* The choice of the tools                                                  *)

Tool(name) == [name |-> name, target |-> {}]
Direct == <<Tool("direct")>>
Query == <<Tool("call_query_agent")>>

\* When the model chooses nothing: a review of the one element that is selected,
\* or of all that the agent was given; and a query when nothing else fits.
Fallback(q, d, intent) ==
    CASE HasDrawing(d) /\ (intent = "review" \/ (q.domain = "fire" /\ intent = "fix_suggestion")) ->
            <<[name |-> "call_review_agent",
               target |-> IF q.domain # "arch" /\ Cardinality(q.selected) = 1 THEN q.selected ELSE {}]>>
      [] HasDrawing(d) /\ intent = "action" -> <<Tool("call_action_agent")>>
      [] OTHER -> Query

Casual(q) == "casual" \in q.words
Greets(q) == "greeting" \in q.words
\* A question of rules is never answered from what the model remembers.
IsPipeRagQuestion(q) == "rule" \in q.words /\ ~Casual(q)

\* The model has answered in words: they are the answer, unless they should have
\* been looked up; in the fire domain, unless something should have been done.
OnText(q, d, intent) ==
    CASE q.domain = "pipe" -> IF IsPipeRagQuestion(q) THEN Query ELSE Direct
      [] q.domain = "elec" -> IF intent = "answer" /\ ~Greets(q) THEN Query ELSE Direct
      [] q.domain = "fire" /\ intent = "action" /\ HasDrawing(d) /\ q.selected # {} -> Fallback(q, d, intent)
      [] OTHER -> IF intent = "answer" /\ ~Casual(q) THEN Query ELSE Direct
\* The query that the pipe agent forces is replaced by the fallback.
OnNothing(q, d, intent) ==
    IF q.domain = "pipe" /\ ~IsPipeRagQuestion(q) /\ intent = "answer" /\ Casual(q) /\ q.chats
    THEN Direct ELSE Fallback(q, d, intent)
ToolCalls(q, d, intent) ==
    CASE q.domain = "pipe" /\ q.hint = "review" /\ HasDrawing(d) -> <<Tool("call_review_agent")>>
      [] q.domain = "arch" /\ intent = "answer" /\ Casual(q) /\ q.chats -> Direct
      [] OTHER -> CASE q.reply = "text" -> OnText(q, d, intent)
                    [] q.reply = "tools" -> q.calls
                    [] q.reply = "nothing" -> OnNothing(q, d, intent)
==============================================================================
