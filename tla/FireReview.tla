------------------------------- MODULE FireReview -----------------------------
(* The fire review: nearest distances and coverage of parser.py, the hard    *)
(* candidates of candidate_generator.py, their merge with the claims of the  *)
(* language model in workflow_handler.py, and the fixes of revision.py and   *)
(* fire_review_node.py.  A length counts tenths of a metre, and an element   *)
(* stands at a place on a line.  Of a plan the review reads                  *)
(*   kind, x    what an element is and where it stands                       *)
(*   tagged     elements with a TAG_NAME, which is their `id` from then on    *)
(*   points     the places at which the floor is sampled                     *)
EXTENDS ReviewMerge

\* The limits of the parser are those of the rule slots.
Widest == [sprinkler |-> 23, detector |-> 45, hydrant |-> 250]
Spaced == <<"sprinkler", "detector", "hydrant">>
Radius == 200
Worst == 5

Distance(a, b) == IF a > b THEN a - b ELSE b - a
Far(plan, a, b) == Distance(plan.x[a], plan.x[b])
OfKind(plan, k, list) == SelectSeq(list, LAMBDA h : plan.kind[h] = k)

\* (mutant) every element is a head of its own
HeadsUnmerged(plan, k, list) == OfKind(plan, k, list)

\* _dedupe_heads_by_position: of the elements at one place the first.
Heads(plan, k, list) == FirstOf(OfKind(plan, k, list), LAMBDA h : plan.x[h])

\* Of the elements nearest to a place, the first in the list.
NearestTo(plan, x, s) ==
    SelectSeq(s, LAMBDA g : \A o \in ToSet(s) : Distance(x, plan.x[g]) <= Distance(x, plan.x[o]))[1]

\* nearest_by_id
NearestHead(plan, k, list, h) == NearestTo(plan, plan.x[h], SelectSeq(Heads(plan, k, list), LAMBDA g : g # h))

\* The heads whose nearest head is too far; a head alone is measured by nothing.
Spacing(plan, k, list) ==
    LET heads == Heads(plan, k, list)
        loose == SelectSeq(heads, LAMBDA h : Far(plan, h, NearestHead(plan, k, list, h)) > Widest[k])
    IN  IF Len(heads) < 2 THEN <<>> ELSE Each(LAMBDA h : Finding(h, "spacing", 100, <<h>>), loose)

\* _compute_extinguisher_coverage_gaps: <<place, nearest>>, the worst first.
Uncovered(plan, list) ==
    LET ext == OfKind(plan, "extinguisher", list)
        gaps == SelectSeq(Each(LAMBDA x : <<x, NearestTo(plan, x, ext)>>, plan.points),
                          LAMBDA g : Distance(g[1], plan.x[g[2]]) > Radius)
    IN  IF ext = <<>> THEN <<>>
        ELSE SortSeq(gaps, LAMBDA a, b : Distance(a[1], plan.x[a[2]]) > Distance(b[1], plan.x[b[2]]))

\* The hard candidates: `cov_0` is the worst place.
Coverage(plan, list) ==
    [j \in 1..Min({Worst, Len(Uncovered(plan, list))}) |->
        Finding(<<"cov", j - 1>>, "coverage", 100, <<Uncovered(plan, list)[j][1]>>)]
HardSpacing(plan, list) == FlattenSeq(Each(LAMBDA k : Spacing(plan, k, list), Spaced))

\* _ensure_hard_candidate_violations, then _filter_spacing_violations: a spacing
\* error needs a measured one of its head, or of the kind that it names.
FireMerged(plan, list, claims) ==
    LET spacing == HardSpacing(plan, list)
        hard == SelectSeq(spacing \o Coverage(plan, list),
                          LAMBDA f : \A c \in ToSet(claims) : Pair(c) # Pair(f))
        heads == {f.eq : f \in ToSet(spacing)}
    IN  SelectSeq(claims \o hard,
                  LAMBDA f : f.type = "spacing" =>
                      f.eq \in heads \/ f.rel \intersect {plan.kind[h] : h \in heads} # {})

\* The place and the block of an element are kept under its `id`, where the fix
\* of a finding about a tagged one, which has the handle, does not look.
Known(plan, h) == h \notin plan.tagged

\* Types whose action is more than a manual review, whatever is known.
Ready == {"quantity", "size", "material", "missing", "noise"}

\* RevisionAgent.calculate_fix: half-way from a measured detector to the nearest
\* one; an extinguisher at a place that is not covered, which names the nearest
\* one by its `id`.
FireAction(plan, list, f) ==
    IF \/ f.type \in Ready
       \/ /\ f.type = "spacing" /\ f.eq \in {g.eq : g \in ToSet(Spacing(plan, "detector", list))}
          /\ Known(plan, f.eq) /\ Known(plan, NearestHead(plan, "detector", list, f.eq))
       \/ f.type = "coverage" /\ f.eq \in {g.eq : g \in ToSet(Coverage(plan, list))}
    THEN "automatic" ELSE "manual"

\* Every finding is reported; {equipment_id: item} keeps the last of an element.
FireResult(plan, list, claims) ==
    LET items == FireMerged(plan, list, claims)
        Label(f) == Last(SelectSeq(items, LAMBDA v : v.eq = f.eq)).type
    IN  [det |-> HardSpacing(plan, list) \o Coverage(plan, list), qa |-> <<>>, shown |-> items,
         pending |-> Each(LAMBDA f : [eq |-> f.eq, type |-> Label(f), made |-> f.type, group |-> NoGroup,
                                      action |-> FireAction(plan, list, f)], items)]
==============================================================================
