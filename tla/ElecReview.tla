------------------------------- MODULE ElecReview -----------------------------
(* The electrical review: circuits of topology.py, the checks on them of    *)
(* deterministic_checker.py, and the merge, the fixes and the pending fixes  *)
(* of workflow_handler.py, revision.py and elec_review_node.py.  A wire is a *)
(* place in the list of the extraction, so a doubled handle is two wires; an *)
(* end is <<handle, side>>.  What coordinates decide is again a plan:        *)
(*   meet, gap  pairs of ends that meet, or miss each other by a small gap   *)
(*   tee        <<h, g>>: an end of h meets the middle of g, which has an    *)
(*              end near enough for the grid to find it                      *)
(*   arcs, noted  pairs of wires joined by an arc, or by a note in the gap   *)
(*   feet       <<end, block, distance>> for the blocks an end reaches       *)
(*   close      <<h, block>>: too far to be joined, too near to be meant     *)
(*   lap, twin  pairs of wires that overlap, and that are the same           *)
(*   axial      pairs of wires of one kind and one axis                      *)
(*   short, dashed, outlets, live   wires;  panels, devices   blocks         *)
(*   measured   <<block, check>> for the labels that contradict each other   *)
(*   length, longest, most          limits of a circuit                      *)
EXTENDS ElecSymbols

\* Ends of a wire meet those of its double.
Meets(plan, h, g) == h = g \/ \E m \in plan.meet : {e[1] : e \in m} = {h, g}

\* What joins a wire with a later one, or with any other: ends that meet, T-junctions,
\* arcs, notes in a gap.
PlacesOf(s) == [i \in DOMAIN s |-> i]
Later(s) == {p \in (DOMAIN s) \X (DOMAIN s) : p[1] < p[2]}
EndsMeet(plan, s) == {p \in Later(s) : Meets(plan, s[p[1]], s[p[2]])}
Tees(plan, s) == {p \in (DOMAIN s) \X (DOMAIN s) : <<s[p[1]], s[p[2]]>> \in plan.tee}
Across(s, S) == {p \in Later(s) : {s[p[1]], s[p[2]]} \in S}

\* One pass over the pairs of places, [1], [2], [2-b] and [3].
Pass(p, s, pairs) == JoinAll(p, PlacesOf(s), PlacesOf(s), pairs)
Wired(plan, s) ==
    Pass(Pass(Pass(Pass(PlacesOf(s), s, EndsMeet(plan, s)), s, Tees(plan, s)),
              s, Across(s, plan.arcs)), s, Across(s, plan.noted))

\* uf.groups(): a circuit has the place of its root for a name, from 0; it is met at
\* the first of its places.
Circuit(s, root, r) ==
    [id |-> r - 1, handles |-> Each(LAMBDA i : s[i], Only(PlacesOf(s), {i \in DOMAIN s : root[i] = r}))]
CircuitsOf(s, root) ==
    Each(LAMBDA i : Circuit(s, root, root[i]),
         Only(PlacesOf(s), {i \in DOMAIN s : \A j \in 1..(i - 1) : root[j] # root[i]}))
Circuits(plan, s) == CircuitsOf(s, Find(Wired(plan, s)))

\* How far a block is from the ends of a circuit, for those within reach.
Distances(plan, c, b) == {f[3] : f \in {f \in plan.feet : f[1][1] \in ToSet(c.handles) /\ f[2] = b}}

PanelsOf(plan, c, blocks) ==
    SelectSeq(blocks, LAMBDA b : b \in plan.panels /\ Distances(plan, c, b) # {})

\* `d <= best_dist`: of equally near circuits the last one.
JoinedBy(plan, circuits, b) ==
    LET all == UNION {Distances(plan, c, b) : c \in ToSet(circuits)} IN
    IF all = {} THEN <<>>
    ELSE <<Last(SelectSeq(circuits, LAMBDA c : Min(all) \in Distances(plan, c, b)))>>

DevicesOf(plan, circuits, c, blocks) ==
    SelectSeq(blocks, LAMBDA b : b \in plan.devices /\ JoinedBy(plan, circuits, b) = <<c>>)

\* A short piece of a wire that a gap interrupts.
Fragment(plan, s, h) ==
    \E g \in ToSet(s) : {h, g} \in plan.axial /\ \E m \in plan.gap : {e[1] : e \in m} = {h, g}

\* A short line by itself is no circuit; only a grounding drawing has wires that
\* are short.
Stray(plan, s, c) == Len(c.handles) = 1 /\ c.handles[1] \in plan.short /\ ~Fragment(plan, s, c.handles[1])

------------------------------------------------------------------------------
(* Open ends and what the checks make of them                               *)

EndsOf(s) == FlattenSeq([i \in DOMAIN s |-> <<<<s[i], "start">>, <<s[i], "end">>>>])

\* No block is within reach, and no end of another handle meets it; what a
\* T-junction, an arc or a note joined is open all the same.
OpenEnds(plan, ends, blocks) ==
    SelectSeq(ends, LAMBDA e : /\ ~ \E f \in plan.feet : f[1] = e /\ f[2] \in ToSet(blocks)
                               /\ ~ \E o \in ToSet(ends) : o[1] # e[1] /\ {e, o} \in plan.meet)

\* Two open ends with a small gap, once for a pair of wires, unless both are
\* dashed or an arc bridges them.
BrokenWires(plan, ends, blocks) ==
    LET found == SelectSeq(PairsOf(OpenEnds(plan, ends, blocks)),
                           LAMBDA p : /\ p[1][1] # p[2][1] /\ {p[1], p[2]} \in plan.gap
                                      /\ ~ {p[1][1], p[2][1]} \subseteq plan.dashed
                                      /\ {p[1][1], p[2][1]} \notin plan.arcs)
    IN  FirstOf(Each(LAMBDA p : <<p[1][1], p[2][1]>>, found), ToSet)

\* _run_wire_overlap_checks: a wire overlaps its double exactly.
Laps(plan, s) == FirstOf(SelectSeq(PairsOf(s), LAMBDA p : p[1] = p[2] \/ {p[1], p[2]} \in plan.lap), ToSet)

\* 1-b: devices of no circuit with a wire not far away.
Isolated(plan, circuits, wires, blocks) ==
    SelectSeq(blocks, LAMBDA b : /\ b \in plan.devices /\ JoinedBy(plan, circuits, b) = <<>>
                                 /\ \E h \in ToSet(wires) : <<h, b>> \in plan.close)

\* 1-c: circuits of outlet wires only, without a panel, which no gap breaks.
Lonesome(plan, clean, blocks, broken) ==
    SelectSeq(clean, LAMBDA c : /\ ToSet(c.handles) \subseteq plan.outlets
                                /\ PanelsOf(plan, c, blocks) = <<>>
                                /\ \A p \in ToSet(broken) : ToSet(p) \intersect ToSet(c.handles) = {})

\* Checks 2 to 5 read the labels of a block, kept once for a handle.
Labels == <<"voltage", "cable", "poles", "nominal">>
LabelFindings(plan, blocks) ==
    LET Over(m) == SelectSeq(FirstOf(blocks, LAMBDA b : b), LAMBDA b : <<b, m>> \in plan.measured)
    IN  FlattenSeq(Each(LAMBDA m : Each(LAMBDA b : Finding(b, m, 100, <<b>>), Over(m)), Labels))

\* 6: a circuit with too many devices is its panel's, or goes by its number.
Crowded(plan, circuits, clean, blocks) ==
    LET Named(c) == Head(PanelsOf(plan, c, blocks) \o <<c.id>>) IN
    Each(LAMBDA c : Finding(Named(c), "crowded", 100, <<c.id>>),
         SelectSeq(clean, LAMBDA c : Len(DevicesOf(plan, circuits, c, blocks)) > plan.most))

\* 7: a live circuit that is too long goes by its number.
TooLong(plan, clean) ==
    Each(LAMBDA c : Finding(c.id, "long", 100, <<c.id>>),
         SelectSeq(clean, LAMBDA c : /\ ToSet(c.handles) \intersect plan.live # {}
                                     /\ plan.length * Len(c.handles) > plan.longest))

\* 8: the boxes of two blocks overlap.
BlockOverlaps(plan, blocks) ==
    Each(LAMBDA p : Finding(p[1], "over", 100, p), FirstOf(Overlaps(plan, blocks), ToSet))

\* 1, 1-b and 1-c and the overlaps: what a drawing of a detail does not show.
RoutesOf(plan, topo, blocks, broken) ==
    Each(LAMBDA p : [Finding(p[1], "open", 100, p) EXCEPT !.auto = TRUE], broken)
    \o Each(LAMBDA b : Finding(b, "open", 100, <<b>>), Isolated(plan, topo.circuits, topo.wires, blocks))
    \o Each(LAMBDA c : Finding(c.handles[1], "open", 100, <<c.handles[1]>>),
            Lonesome(plan, topo.clean, blocks, broken))
    \o Each(LAMBDA p : [Finding(p[1], "lap", 100, p)
                            EXCEPT !.auto = p[1] = p[2] \/ {p[1], p[2]} \in plan.twin], topo.laps)
RouteFindings(plan, topo, blocks) ==
    RoutesOf(plan, topo, blocks, BrokenWires(plan, EndsOf(topo.wires), blocks))

\* The result of build: circuits, those that are no stray lines, their wires.
TopologyOf(plan, s, circuits) ==
    LET stray == {c.handles[1] : c \in {c \in ToSet(circuits) : Stray(plan, s, c)}}
    IN  [circuits |-> circuits, clean |-> SelectSeq(circuits, LAMBDA c : ~Stray(plan, s, c)),
         wires |-> SelectSeq(s, LAMBDA h : h \notin stray), laps |-> Laps(plan, s)]

\* run_deterministic_checks; what it finds is certain.
ElecChecks(plan, list, qa, topo, blocks) ==
    LET Shown(found) == IF qa.intent = "detail" THEN <<>> ELSE found
    IN  TerminalFindings(plan, list, qa)
        \o Shown(RouteFindings(plan, topo, blocks))
        \o LabelFindings(plan, blocks)
        \o Shown(Crowded(plan, topo.circuits, topo.clean, blocks) \o TooLong(plan, topo.clean))
        \o BlockOverlaps(plan, blocks) \o SymbolFindings(plan, list, qa)

ElecRules(plan, list, qa) ==
    ElecChecks(plan, list, qa, TopologyOf(plan, qa.wires, Circuits(plan, qa.wires)), SymbolsOf(plan, list))
ElecDeterministic(plan, list) ==
    ElecRules(plan, list, Context(plan, list, Intent(plan, list), Terminals(plan, list)))

------------------------------------------------------------------------------
(* The merge and the fixes                                                  *)

\* Continuity is the checker's: what the language model says of it is dropped.
\* The other claims come first and shadow what is of the same element and type.
ElecMerged(claims, det) ==
    LET kept == SelectSeq(claims, LAMBDA c : c.type # "open") IN
    kept \o SelectSeq(det, LAMBDA f : \A c \in ToSet(kept) : Pair(c) # Pair(f))

\* RevisionAgent.calculate_fix; no label has an action of its own.
ElecAction(f) == IF f.conf >= 70 /\ (f.auto \/ f.type = "size") THEN "automatic" ELSE "manual"

\* {equipment_id: item} keeps the last item of an element; circuit 0 counts as
\* no element, and its fix gets no type.
LabelOf(f, items) == IF f.eq = 0 THEN "" ELSE Last(SelectSeq(items, LAMBDA v : v.eq = f.eq)).type

\* The report has the sure findings; the others are shown to nobody.
ElecReport(det, items) ==
    [det |-> det, qa |-> <<>>, shown |-> items,
     pending |-> Each(LAMBDA f : [eq |-> f.eq, type |-> LabelOf(f, items), made |-> f.type,
                                  group |-> NoGroup, action |-> ElecAction(f)], items)]
ElecSorted(det, claims) == ElecReport(det, SelectSeq(ElecMerged(claims, det), Sure))
ElecResult(plan, list, claims) == ElecSorted(ElecDeterministic(plan, list), claims)
==============================================================================
