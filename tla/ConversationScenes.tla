--------------------------- MODULE ConversationScenes --------------------------
(* Drawings, chunks and scripts of requests for MCAnalysis.                 *)
EXTENDS Integers, Sequences, FiniteSetsExt

\* Two pipes, a text that names one of two blocks, a wall and a room; the layer U
\* says nothing by its name.
E(layer, kind, words, at) == [layer |-> layer, kind |-> kind, words |-> words, at |-> at, named |-> TRUE, turn |-> 0]
L(words, color) == [words |-> words, color |-> color]
Plan ==
    [list |-> <<"p", "q", "t", "b", "c", "r", "p">>, titled |-> FALSE, electric |-> {"p", "b"},
     layer |-> [P |-> L({"mep"}, "vivid"), W |-> L({"arch"}, "grey"), U |-> L({"generic"}, "none")],
     ent |-> [p |-> E("P", "line", {}, <<0, 1000>>), q |-> E("U", "line", {}, <<900, 1200>>),
              t |-> E("U", "text", {"note", "keyword", "context"}, <<1000, 1100>>),
              b |-> E("U", "block", {}, <<1000, 1050>>), c |-> E("P", "block", {}, <<1250, 1350>>),
              r |-> E("W", "text", {"room"}, <<3000, 3100>>)]]
Moved == [Plan EXCEPT !.ent["t"].at = <<1400, 1500>>]
\* The fingerprint does not see that a layer has changed its colour.
Painted == [Plan EXCEPT !.layer["U"].color = "grey"]
Blank == [Plan EXCEPT !.list = <<>>]
Titled ==
    [Plan EXCEPT !.titled = TRUE, !.list = <<"p", "t", "b", "c">>, !.ent["t"].words = {"short"},
                 !.ent["b"] = E("U", "block", {"keyword"}, <<>>), !.ent["c"].at = <<0, 9000>>, !.ent["c"].named = FALSE]

C(id, at, table, refers, section) ==
    [id |-> id, doc |-> "code", at |-> at, table |-> table, refers |-> refers, section |-> section, title |-> {"code"},
     number |-> IF section = {"3"} THEN <<3>> ELSE <<>>]
Text1 == C(<<11>>, 5, FALSE, TRUE, {"slope"})
Plain == C(<<12>>, 9, FALSE, FALSE, {"3"})
Text2 == C(<<13>>, 11, FALSE, TRUE, {})
NoId == C(<<>>, 0, FALSE, FALSE, {})
Session == [C(<<>>, 2, FALSE, TRUE, {"3"}) EXCEPT !.doc = "own"]
Library == <<C(<<20>>, 1, TRUE, FALSE, {"slope"}), C(<<21>>, 2, TRUE, FALSE, {}), C(<<22>>, 8, TRUE, FALSE, {"3"}), Text1>>

------------------------------------------------------------------------------
NoReport == [items |-> <<>>, issues |-> <<>>, low |-> <<>>, fixes |-> <<>>, refs |-> <<>>]
Item(eq, type, rule, group) == [eq |-> eq, type |-> type, rule |-> rule, group |-> group]
FixOf(eq, type, group) == [eq |-> eq, type |-> type, group |-> group]
Report ==
    [items |-> <<Item("p", "slope", {"slope", "2"}, ""), Item("p", "size", {"3"}, ""), Item("b", "gap", {}, "g")>>,
     issues |-> <<Item("p", "slope", {}, ""), Item("q", "gap", {"code"}, "g"), Item("q", "gap", {"code"}, "")>>,
     low |-> <<Item("c", "gap", {}, "")>>,
     fixes |-> <<FixOf("p", "slope", ""), FixOf("q", "gap", "g"), FixOf("p", "other", ""), FixOf("r", "x", "")>>,
     refs |-> <<Plain, Text1>>]
Tools(names) == [i \in DOMAIN names |-> [name |-> names[i], target |-> {}]]
Ask(domain, by, words) ==
    [domain |-> domain, by |-> by, hint |-> "", words |-> words, routed |-> "answer", reply |-> "tools",
     calls |-> Tools(<<"call_query_agent">>), chats |-> TRUE, selected |-> {}, focus |-> {}, keep |-> FALSE, namer |-> {},
     found |-> <<Text1>>, failing |-> {}, report |-> NoReport, fixes |-> <<>>, broken |-> FALSE, blank |-> FALSE, pieces |-> 1]
Review(domain, by) ==
    [Ask(domain, by, {"review"}) EXCEPT !.calls = Tools(<<"call_review_agent">>), !.report = Report, !.routed = "review"]
Says(q) == [q EXCEPT !.reply = "text"]
Silent(q) == [q EXCEPT !.reply = "nothing"]
Calling(q, names) == [q EXCEPT !.calls = Tools(names)]

Script(requests, drawings) ==
    [requests |-> requests, drawings |-> drawings, rows |-> <<>>, batch |-> <<>>, library |-> Library, overlap |-> FALSE]

\* What is remembered: answers that split, blank requests, two ways at once.
MemoryScripts ==
    <<Script(<<[Ask("arch", "chat", {}) EXCEPT !.pieces = 2], Ask("arch", "chat", {}), Ask("arch", "execute", {})>>, <<Blank>>),
      Script(<<Ask("fire", "execute", {}), [Ask("fire", "chat", {}) EXCEPT !.blank = TRUE],
               [Ask("fire", "execute", {}) EXCEPT !.blank = TRUE]>>, <<Blank>>),
      [Script(<<Ask("elec", "chat", {}), Review("elec", "chat"), Ask("elec", "execute", {})>>, <<Blank>>)
          EXCEPT !.overlap = TRUE]>>

\* Reviews of a drawing that changes, with roles that are saved in between.
Roles == <<[key |-> "U", known |-> TRUE, role |-> <<"arch">>], [key |-> "W", known |-> TRUE, role |-> <<>>]>>
Start(q) == [q EXCEPT !.hint = "review", !.namer = {"t"}]
GroundScripts ==
    <<[Script(<<Start(Review("pipe", "execute")), Start(Review("pipe", "execute"))>>, <<Plan, Moved>>) EXCEPT !.batch = Roles],
      [Script(<<Review("pipe", "execute"), Review("pipe", "chat")>>, <<Plan, Painted>>)
          EXCEPT !.batch = <<Roles[1], [Roles[2] EXCEPT !.known = FALSE]>>],
      [Script(<<[Review("pipe", "execute") EXCEPT !.broken = TRUE], [Review("pipe", "execute") EXCEPT !.focus = {"p", "t"}]>>, <<Titled>>)
          EXCEPT !.rows = <<[eq |-> "b", type |-> "gap", ref |-> <<>>, status |-> "CONFIRMED"]>>]>>

\* One request each: how it is routed and what it answers.
Dated(q) == [q EXCEPT !.found = <<Session, NoId, Text1>>, !.selected = {"p"}]
SomeRequests ==
    {Says(Ask(d, "chat", words)) : d \in {"pipe", "elec", "fire", "arch"}, words \in {{"rule"}, {"casual", "greeting"}}}
    \union {Silent(Dated(Ask(d, "chat", words))) : d \in {"pipe", "elec", "fire", "arch"},
               words \in {{"casual"}, {"action"}, {"review"}, {"override"}}}
    \union {Silent([Ask("arch", "chat", {}) EXCEPT !.routed = r]) : r \in {"action", "review", "other"}}
    \union {Silent([Ask("fire", "chat", {"fix_suggestion"}) EXCEPT !.selected = s, !.report = Report, !.keep = k]) :
               s \in {{"p"}, {"p", "q"}}, k \in BOOLEAN}
    \union {Says([Ask(d, "chat", {"action"}) EXCEPT !.selected = {"p"}, !.fixes = <<FixOf("p", "LAYER", "")>>]) :
               d \in {"elec", "fire"}}
    \union {[Review(d, "execute") EXCEPT !.found = <<Session>>, !.report.refs = <<Session, Plain>>] : d \in {"pipe", "elec", "fire", "arch"}}
    \union {Calling([Review(d, "chat") EXCEPT !.fixes = <<FixOf("q", "MOVE", "")>>, !.failing = f, !.selected = {"q"}],
                    <<"call_query_agent", "call_review_agent", "unknown", "call_action_agent", "get_cad_entity_info",
                      "validate_after_fix">>) : d \in {"pipe", "elec", "fire", "arch"}, f \in {{}, {"code"}}}
    \union {Calling(Ask(d, "chat", {"answer"}), <<"call_review_agent">>) : d \in {"elec", "pipe"}}
    \union {[Ask(d, "chat", {"answer"}) EXCEPT !.found = <<c>>] : d \in {"elec", "fire", "arch"}, c \in {Text1, Text2}}
SingleScripts == FoldSet(LAMBDA q, list : Append(list, Script(<<q>>, <<Plan>>)), <<>>, SomeRequests)
MCScripts == MemoryScripts \o GroundScripts \o SingleScripts \o <<Script(<<Review("pipe", "chat")>>, <<Blank>>)>>
==============================================================================
