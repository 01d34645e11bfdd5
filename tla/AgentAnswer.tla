------------------------------ MODULE AgentAnswer ------------------------------
(* What a domain agent answers: the tools are run one after another and     *)
(* their results are put together (base_workflow_handler.py 33-70; the      *)
(* handlers of the domains pipe 1876-2434, elec 308-760, arch 105-233, fire *)
(* 319-766; pipe_review_node.py 1792-2258, elec 1387-1680, arch 997-1165,   *)
(* fire 929-1187, arch_agent.py 289-336).  Beside the fields of             *)
(* AgentRouting a request has what its tools bring: the chunks `found`, the *)
(* documents `failing` to give their tables, a `report` of a review, and    *)
(* the `fixes` of the action agent; `broken` when the agent raises.         *)
EXTENDS AgentRouting, RagContext

\* An electrical request that asks a question has no review: it is looked up.
RunsAs(q, call, intent) ==
    IF q.domain = "elec" /\ intent = "answer" /\ call.name = "call_review_agent" THEN "call_query_agent" ELSE call.name
Offered == [pipe |-> {"call_query_agent", "call_review_agent", "call_action_agent", "get_cad_entity_info"},
            elec |-> {"call_query_agent", "call_review_agent", "call_action_agent", "get_cad_entity_info",
                      "validate_after_fix"},
            fire |-> {"call_query_agent", "call_review_agent", "call_action_agent", "get_cad_entity_info"},
            arch |-> {"call_query_agent", "call_review_agent", "call_action_agent"}]
\* The tools that a domain has not are passed over.
HandleToolCalls(q, calls, intent) ==
    LET Runs(call) == RunsAs(q, call, intent) \in {"direct"} \union Offered[q.domain]
    IN  [i \in DOMAIN calls |-> IF Runs(calls[i]) THEN RunsAs(q, calls[i], intent) ELSE "none"]
\* The chunks of a query, with the tables when the model has named the query.
FoundChunks(q, calls, library, most) ==
    IF q.domain # "pipe" /\ \E i \in DOMAIN calls : calls[i].name = "call_query_agent"
    THEN ExpandTableNeighbors(q.found, library, q.failing, most) ELSE q.found

------------------------------------------------------------------------------
(* A review, as the answer shows it                                         *)

FindFirst(list, Is(_)) == LET some == SelectSeq(list, Is) IN IF some = <<>> THEN <<>> ELSE <<some[1]>>
OrElse(first, second) == IF first # <<>> THEN first ELSE second

ItemIdentity(v) == IF v.group # "" THEN <<"group", v.type, v.group>> ELSE <<"single", v.type, v.eq>>
\* The quality issues that the report has not.
NotReported(issues, items) ==
    FoldLeft(LAMBDA out, v : IF \E w \in ToSet(items \o out) : ItemIdentity(w) = ItemIdentity(v)
                             THEN out ELSE Append(out, v), <<>>, issues)

\* The finding that a fix is for: in the pipe review by group, by element and kind,
\* by element; in the electrical and the fire one the last of the element.
PipeFinding(fix, items) ==
    OrElse(FindFirst(items, LAMBDA v : fix.group # "" /\ v.group = fix.group),
           OrElse(FindFirst(items, LAMBDA v : v.eq = fix.eq /\ v.type = fix.type),
                  FindFirst(items, LAMBDA v : v.eq = fix.eq)))
LastFinding(fix, items) == FindFirst(Reverse(items), LAMBDA v : v.eq = fix.eq)
FindingOfFix(q, fix, items) ==
    CASE q.domain = "pipe" -> PipeFinding(fix, items)
      [] q.domain = "arch" -> <<>>
      [] OTHER -> LastFinding(fix, items)

PendingFix(q, fix, finding, laws) ==
    [eq |-> fix.eq, type |-> IF finding # <<>> THEN finding[1].type ELSE IF q.domain = "elec" THEN "" ELSE fix.type,
     ref |-> IF finding = <<>> THEN <<>> ELSE RefChunkId(finding[1].rule, laws)]
BuildPendingFixes(q, fixes, items, laws) ==
    [i \in DOMAIN fixes |-> PendingFix(q, fixes[i], FindingOfFix(q, fixes[i], items), laws)]
ViolationShown(v) == [eq |-> v.eq, type |-> v.type]
ViolationsFrom(list) == [i \in DOMAIN list |-> ViolationShown(list[i])]

\* Pipe and fire replace the laws by those that the review has found, the others
\* keep what an earlier tool has left.
ReviewLaws(q, laws) == IF q.domain \in {"pipe", "fire"} /\ q.report.refs # <<>> THEN LawReferences(q.report.refs) ELSE laws
ReviewAnswer(q, s, visible) ==
    [s EXCEPT !.says = "review", !.step = "pending_fix_review", !.laws = ReviewLaws(q, s.laws),
              !.violations = ViolationsFrom(visible \o q.report.low),
              !.pending = BuildPendingFixes(q, q.report.fixes, visible, ReviewLaws(q, s.laws))]

\* The action agent's fixes are added to those before in the pipe domain, replace
\* them in two others, and are only a message in the architectural one.
ActionFixes(q) == [i \in DOMAIN q.fixes |-> [eq |-> q.fixes[i].eq, type |-> q.fixes[i].type, ref |-> <<>>]]
ActionAnswer(q, s) ==
    IF q.domain = "arch" THEN [s EXCEPT !.says = "action", !.step = "action_ready"]
    ELSE LET before == IF q.domain = "pipe" THEN s ELSE [s EXCEPT !.violations = <<>>, !.pending = <<>>]
         IN  [before EXCEPT !.says = "action", !.step = "pending_fix_review",
                            !.violations = @ \o ViolationsFrom(q.fixes), !.pending = @ \o ActionFixes(q)]

\* What each tool adds to the answer; what comes last is what it says.
AddBlock(q, s, name, found) ==
    CASE name = "call_query_agent" ->
            [s EXCEPT !.says = "query", !.step = "query_completed", !.laws = LawReferences(found)]
      [] name = "call_review_agent" -> ReviewAnswer(q, s, q.report.items \o NotReported(q.report.issues, q.report.items))
      [] name = "call_action_agent" -> ActionAnswer(q, s)
      [] name = "get_cad_entity_info" -> [s EXCEPT !.says = "cad_info", !.step = "agent_completed"]
      [] name = "direct" -> [s EXCEPT !.says = "direct", !.step = "agent_completed"]
      [] name \in {"validate_after_fix", "none"} -> s
Blank == [says |-> "default", step |-> "agent_completed", laws |-> <<>>, violations |-> <<>>, pending |-> <<>>]
FormatState(q, names, found) ==
    LET s == FoldLeft(LAMBDA acc, name : AddBlock(q, acc, name, found), Blank, names)
    IN  [s EXCEPT !.violations = IF s.violations = <<>> THEN ViolationsFrom(s.pending) ELSE @]

\* An agent that raises answers with the error, and the fixes of the state that it
\* was called with stay in its result.
ErrorAnswer(pending) == [Blank EXCEPT !.says = "error", !.step = "error", !.pending = pending]
ReviewNode(q, pending, calls, intent, library, most) ==
    IF q.broken THEN ErrorAnswer(pending)
    ELSE FormatState(q, HandleToolCalls(q, calls, intent), FoundChunks(q, calls, library, most))
==============================================================================
