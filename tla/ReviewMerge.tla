------------------------------ MODULE ReviewMerge -----------------------------
(* What a pipe review makes of its checks: deterministic_checker.py and     *)
(* drawing_qa_checker.py on a topology, the filter and the merge of         *)
(* workflow_handler.py, the fixes of revision.py, and the items and pending *)
(* fixes of pipe_review_node.py.  A finding keeps its confidence in percent *)
(* and whether its own proposal is more than a manual review; of a plan the *)
(* checks also read                                                         *)
(*   weak      lines that only their style or a note makes pipes            *)
(*   bare      lines that only the name of their layer makes pipes          *)
(*   hidden    lines with a hidden linetype                                 *)
(*   straight  the near misses lie on the axes of their lines               *)
(*   measured  <<line, check>> for the values that exceed a limit           *)
(*   typo      a note is misspelt                                           *)
EXTENDS PipeTopology

CONSTANTS Note, NoGroup

\* A finding; `about` (history) names the elements its text speaks of.
Finding(eq, type, conf, about) ==
    [eq |-> eq, type |-> type, conf |-> conf, group |-> NoGroup, rel |-> {},
     auto |-> FALSE, from |-> "det", about |-> about]

\* An issue of the drawing quality checks about the pair `p`.
Issue(type, conf, p, auto) ==
    [Finding(p[1], type, conf, p) EXCEPT !.group = <<type, p>>, !.rel = {p[1], p[2]},
                                         !.auto = auto, !.from = "qa"]

Continuity == {"isolated", "gap", "mismatch", "qa_gap", "qa_mismatch", "qa_dangling"}

\* Checks 5 to 8 in their order, with the confidence of each.
Measures == <<<<"slope", 90>>, <<"insulation", 60>>, <<"size", 95>>, <<"size", 98>>>>

\* What PipeTopologyBuilder and GeometryPreprocessor return, or the defaults
\* that stand for a topology or a geometry that failed.
Topology(plan, list) ==
    LET s == LinesOf(list)
    IN  [runs |-> Runs(plan, s, SetToSeq(ToSet(s))),
         gaps |-> Gaps(plan, s), misses |-> Misses(plan, s),
         noted |-> UNION {ToSet(p) : p \in ToSet(Noted(plan, s))}]
NoTopology == [runs |-> {}, gaps |-> <<>>, misses |-> <<>>, noted |-> {}]
Geometry(plan, list) == Overlaps(plan, BlocksOf(list))
NoGeometry == <<>>

Each(Make(_), s) == [i \in DOMAIN s |-> Make(s[i])]

\* The first of every key, a set of seen keys; or a dict: at the place of the first,
\* the last.
FirstOf(s, Key(_)) ==
    LET firsts == {i \in DOMAIN s : \A j \in 1..(i - 1) : Key(s[j]) # Key(s[i])}
    IN  Each(LAMBDA i : s[i], SelectSeq([i \in DOMAIN s |-> i], LAMBDA i : i \in firsts))
LastOf(s, Key(_)) ==
    LET lasts == ToSet(FirstOf(Reverse(s), Key))
    IN  Each(LAMBDA f : CHOOSE l \in lasts : Key(l) = Key(f), FirstOf(s, Key))

NearMissed(topo) == UNION {ToSet(p) : p \in ToSet(topo.gaps) \union ToSet(topo.misses)}

\* Runs of one line that no block stands on.
Alone(plan, topo, list) ==
    SetToSeq({h \in Lines : {h} \in topo.runs /\ Standing(plan, {h}, ToSet(BlocksOf(list))) = {}})

\* Both lines are pipes for more than their style.
Strong(plan, p) == {p[1], p[2]} \intersect plan.weak = {}

\* run_deterministic_checks
Deterministic(plan, list, topo, geo) ==
    LET Firm(p) == Strong(plan, p)
        isolated == SelectSeq(Alone(plan, topo, list),
                              LAMBDA h : h \notin NearMissed(topo) \union plan.weak)
        Over(m) == SelectSeq(list, LAMBDA h : <<h, m>> \in plan.measured)
    IN  Each(LAMBDA h : Finding(h, "isolated", IF h \in plan.hidden THEN 65 ELSE 75, <<h>>), isolated)
        \o Each(LAMBDA p : Finding(p[1], "gap", 78, p), SelectSeq(topo.gaps, Firm))
        \o Each(LAMBDA p : Finding(p[1], "mismatch", 76, p), SelectSeq(topo.misses, Firm))
        \o Each(LAMBDA p : Finding(p[1], "collision", 100, p), geo)
        \o Each(LAMBDA p : Finding(p[1], "piled", 100, p),
                FirstOf(Piled(plan, BlocksOf(list)), ToSet))
        \o FlattenSeq(Each(LAMBDA m : Each(LAMBDA h : Finding(h, m[1], m[2], <<h>>), Over(m)), Measures))

------------------------------------------------------------------------------
(* Identities, quality issues and the filter                                *)

Pair(f) == <<f.eq, f.type>>
Identity(f) == IF f.group # NoGroup THEN <<f.group>>
               ELSE IF f.rel # {} THEN <<f.type, f.rel>> ELSE <<f.type, f.eq>>

\* Two lines of which at most one is weak, and that only for a straight repair.
Drawn(plan, p) == {p[1], p[2]} \ plan.weak # {} /\ (plan.straight \/ Strong(plan, p))

\* Single lines that miss nothing and have no note in a gap.
Dangling(plan, list, topo) ==
    Each(LAMBDA h : [Finding(h, "qa_dangling", IF h \in plan.bare THEN 64 ELSE 74, <<h>>)
                        EXCEPT !.rel = {h}, !.from = "qa"],
         SelectSeq(Alone(plan, topo, list),
                   LAMBDA h : h \notin NearMissed(topo) \union topo.noted \union plan.weak))

\* run_drawing_qa_checks; what has one identity has one confidence.
DrawingQa(plan, list, topo) ==
    LET Near(p) == Drawn(plan, p)
        found == Each(LAMBDA p : Issue("qa_gap", 80, p, plan.straight), SelectSeq(topo.gaps, Near))
                 \o Each(LAMBDA p : Issue("qa_mismatch", 78, p, plan.straight), SelectSeq(topo.misses, Near))
                 \o Dangling(plan, list, topo)
    IN  FirstOf(found, Identity)

\* The notes the text check corrects.
TextIssues(plan) ==
    IF plan.typo THEN <<[Finding(Note, "text", 82, <<Note>>) EXCEPT !.rel = {Note}, !.auto = TRUE, !.from = "qa"]>>
    ELSE <<>>

\* _filter_weak_generic_continuity_violations
Evident(plan, s) ==
    LET involved(f) == ({f.eq} \union f.rel) \intersect Lines IN
    SelectSeq(s, LAMBDA f : \/ f.type \notin Continuity
                            \/ involved(f) \intersect plan.weak = {}
                            \/ involved(f) \ plan.weak # {})

\* With a text issue there is one issue for each element and type.
Quality(plan, list, topo, text) ==
    LET qa == DrawingQa(plan, list, topo) IN
    Evident(plan, IF text # <<>> THEN LastOf(text \o qa, Pair) ELSE qa)

------------------------------------------------------------------------------
(* The merge, the report and the fixes                                      *)

\* The claims of the language model come first and shadow the others.
Merged(claims, det, qa) ==
    claims \o SelectSeq(FirstOf(det \o qa, Pair),
                        LAMBDA f : \A c \in ToSet(claims) : Pair(c) # Pair(f))

\* `float(v.get("confidence_score") or 1.0) >= 0.7`
Sure(f) == f.conf = 0 \/ f.conf >= 70

\* Types with an automatic action; a deterministic slope error asks for no
\* number, and one without a number is left to the user.
Mapped == {"insulation", "size", "distance"}

\* (mutant) the confidence is read as the split reads it
ActionAsSplit(f) == IF Sure(f) /\ (f.auto \/ f.type \in Mapped) THEN "automatic" ELSE "manual"

\* RevisionAgent.calculate_fix
Action(f) == IF f.conf >= 70 /\ (f.auto \/ f.type \in Mapped) THEN "automatic" ELSE "manual"

\* (mutant) any violation of the element will do
AnyOfElement(f, seen) ==
    LET ofElement == SelectSeq(seen, LAMBDA v : v.eq = f.eq) IN
    IF ofElement # <<>> THEN Head(ofElement) ELSE f

\* _build_pending_fixes: the violation a fix is labelled with, by group, by
\* element and type, by element; `made` (history) is the type it was made for.
ViolationOf(f, seen) ==
    LET ofGroup == SelectSeq(seen, LAMBDA v : f.group # NoGroup /\ v.group = f.group)
        ofPair == SelectSeq(seen, LAMBDA v : Pair(v) = Pair(f))
        ofElement == SelectSeq(seen, LAMBDA v : v.eq = f.eq)
    IN  Head(ofGroup \o ofPair \o ofElement \o <<f>>)

Pending(fixes, seen) ==
    Each(LAMBDA f : [eq |-> f.eq, type |-> ViolationOf(f, seen).type, made |-> f.type, group |-> f.group,
                     action |-> Action(f)], fixes)

\* (mutant) an issue is listed although the report has it
UnlistedAny(qa, items) == FirstOf(qa, Identity)

\* The issues that are not in the report yet.
Unlisted(qa, items) ==
    SelectSeq(FirstOf(qa, Identity), LAMBDA f : \A i \in ToSet(items) : Identity(i) # Identity(f))

\* The result of a review: what the user is shown, and the fixes offered.
Review(plan, list, claims, topo, geo, detWorks, qaWorks, textWorks) ==
    LET det == IF detWorks THEN Evident(plan, Deterministic(plan, list, topo, geo)) ELSE <<>>
        qa == Quality(plan, IF qaWorks THEN list ELSE <<>>, IF qaWorks THEN topo ELSE NoTopology,
                      IF textWorks THEN TextIssues(plan) ELSE <<>>)
        merged == Merged(Evident(plan, claims), det, qa)
        items == SelectSeq(merged, Sure)
        unsure == SelectSeq(merged, LAMBDA f : ~Sure(f))
        visible == items \o Unlisted(qa, items)
    IN  [det |-> det, qa |-> qa, shown |-> visible \o unsure, pending |-> Pending(items, visible)]
==============================================================================
