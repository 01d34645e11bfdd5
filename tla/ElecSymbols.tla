------------------------------ MODULE ElecSymbols ------------------------------
(* Circles and texts of an electrical drawing: what the drawing is meant to *)
(* show and which of its lines are wires (topology.py), and the checks on    *)
(* terminals, symbols, grounding rods, heights and strands that read them    *)
(* (deterministic_checker.py).  Of a plan they read, in millimetres,         *)
(*   at, radius  how far along the drawing an element is; a line, its start  *)
(*   circles     elements that are circles                                   *)
(*   says        for an element that is a text, its words and its numbers    *)
(*   refs        texts of the architect's drawing, which was not uploaded    *)
(*   layered, valued, labelled   lines with a wire's layer, value, or note   *)
(*   closed, banned, short       lines that are closed, of a layer that      *)
(*                               holds no wires, or from 30 to 100 mm long   *)
(*   boxed       lines within a cluster of terminals                         *)
(*   wired, housed  <<line, circle>>: it ends at the circle, or is its body  *)
(*   astray      the circle beside the grid of its cluster                   *)
(*   marked, faint, core  circles of a grounding layer, of one for notes, or *)
(*                        with an electrical role                            *)
(*   rods        blocks that are named as grounding rods                     *)
(* Circles of one centre are at one place; a drawing has one cluster of      *)
(* terminals at most, and no second one that it would repeat.                *)
EXTENDS ReviewMerge

Of(s, S) == SelectSeq(s, LAMBDA h : h \in S)
CirclesOf(plan, list) == Of(list, plan.circles)
TextsOf(plan, list) == Of(list, DOMAIN plan.says)
Says(plan, t, word) == word \in plan.says[t].words

Span(plan, a, b) == IF plan.at[a] > plan.at[b] THEN plan.at[a] - plan.at[b] ELSE plan.at[b] - plan.at[a]
Within(plan, s, h, reach) == SelectSeq(s, LAMBDA g : Span(plan, g, h) <= reach)

\* sorted(values)[len // 2], and 0 of none
Middle(s) == IF s = <<>> THEN 0 ELSE SortSeq(s, <)[(Len(s) \div 2) + 1]

------------------------------------------------------------------------------
(* The intent of the drawing and its wires                                  *)

\* evaluate_drawing_intent, in tenths; what needs twenty lines or five texts
\* and four circles at once is too large for an instance.
IntentScores(plan, list) ==
    LET Words(w) == Len(SelectSeq(TextsOf(plan, list), LAMBDA t : Says(plan, t, w)))
        If(n, score) == IF n > 0 THEN score ELSE 0
        layered == Len(Of(list, plan.layered))
    IN  <<<<"detail", If(Words("detail"), 17)>>,
          <<"wiring", If(Words("route"), 18) + If(layered - 2, 16)>>,
          <<"equipment", If(Words("substation"), 22)>>,
          <<"grounding", If(Words("earth"), 32) + If(Words("earth") - 2, 14) + If(Words("conductor"), 12)>>,
          <<"line", If(Words("panel"), 20)>>>>

\* max(scores, key=scores.get): the first of the best.
Intent(plan, list) ==
    LET scores == IntentScores(plan, list)
        best == Max({s[2] : s \in ToSet(scores)})
    IN  IF best = 0 THEN "unknown" ELSE Head(SelectSeq(scores, LAMBDA s : s[2] = best))[1]

\* _is_wire_candidate; a note or a value overrules the layer and the terminal
\* only where grounding is shown, and only there may a wire be short.
IsWire(plan, intent, boxed, h) ==
    LET known == h \in plan.valued \union plan.labelled
        grounds == intent = "grounding"
    IN  /\ h \notin plan.closed
        /\ h \in plan.banned \union boxed => grounds /\ known
        /\ h \in plan.short => grounds
        /\ IF intent = "detail" THEN h \in plan.layered /\ known ELSE h \in plan.layered \/ known

SymbolsOf(plan, list) ==
    SelectSeq(BlocksOf(list), LAMBDA h : h \notin plan.circles \union DOMAIN plan.says)

------------------------------------------------------------------------------
(* Terminals                                                                *)

\* _collapse_concentric_circles of topology.py: a terminal is its largest ring.
Units(plan, s) ==
    LET Rings(c) == SelectSeq(s, LAMBDA d : plan.at[d] = plan.at[c])
        Largest(rings) == Max({plan.radius[d] : d \in ToSet(rings)})
        Unit(c) == [rep |-> Head(SelectSeq(Rings(c), LAMBDA d : plan.radius[d] = Largest(Rings(c)))),
                    members |-> FirstOf(Rings(c), LAMBDA d : d)]
    IN  Each(Unit, FirstOf(s, LAMBDA c : plan.at[c]))

\* _cluster_circles: what is near for this drawing, joined in the list's order.
Clusters(plan, s) ==
    LET others(c) == {d \in ToSet(s) : plan.at[d] # plan.at[c]}
        nearest == Each(LAMBDA c : Min({Span(plan, c, d) : d \in others(c)}),
                        SelectSeq(s, LAMBDA c : others(c) # {}))
        wide == Max({18 * Middle(nearest), 80 * Middle(Each(LAMBDA c : plan.radius[c], s)), 10})
        Near(p) ==
            LET c == s[p[1]]
                d == s[p[2]]
            IN  p[1] < p[2] /\ 10 * Span(plan, c, d) <= wide + 10 * (plan.radius[c] + plan.radius[d])
        places == [i \in DOMAIN s |-> i]
    IN  Each(LAMBDA c : Each(LAMBDA i : s[i], Of(places, c)),
             SetToSeq(Groups(JoinAll(places, places, places, {p \in (DOMAIN s) \X (DOMAIN s) : Near(p)}))))

\* Four or more terminals; more than four are one only if they are symmetric
\* or a text is near.
Symmetric(plan, units) ==
    LET xs == {plan.at[u.rep] : u \in ToSet(units)}
        sum == SumSet(xs)
        n == Len(units)
        scale == Max({Max(xs) - Min(xs), 1})
        Mirrored(x) == \E y \in xs : LET off == 2 * sum - n * x - n * y
                                     IN  20 * off <= 3 * n * scale /\ -20 * off <= 3 * n * scale
    IN  2 * Cardinality({x \in xs : Mirrored(x)}) >= n

TextsAround(plan, units, list) ==
    LET xs == {plan.at[u.rep] : u \in ToSet(units)}
        r == Max({plan.radius[u.rep] : u \in ToSet(units)})
        margin == 3 * (Max(xs) - Min(xs) + 2 * r)
    IN  SelectSeq(TextsOf(plan, list), LAMBDA t : /\ 2 * (Min(xs) - r - plan.at[t]) <= margin
                                                  /\ 2 * (plan.at[t] - Max(xs) - r) <= margin)

\* detect_terminal_candidates
Terminals(plan, list) ==
    LET found == Each(LAMBDA s : Units(plan, s), Clusters(plan, CirclesOf(plan, list)))
        IsOne(units) == /\ Len(units) >= 4
                        /\ Len(units) > 4 => Symmetric(plan, units) \/ TextsAround(plan, units, list) # <<>>
    IN  FlattenSeq(SelectSeq(found, IsOne))

WiresAmong(plan, list, intent, units) ==
    LET boxed == IF units = <<>> THEN {} ELSE plan.boxed
    IN  Only(list, {h \in Lines \ (plan.circles \union DOMAIN plan.says) : IsWire(plan, intent, boxed, h)})
WiresOf(plan, list) == WiresAmong(plan, list, Intent(plan, list), Terminals(plan, list))

UnitSpacing(plan, units) == Middle(Each(LAMBDA p : Span(plan, p[1].rep, p[2].rep), PairsOf(units)))

\* _run_terminal_geometry_qa without a reference body, which nothing sets: of
\* four terminals the one beside the grid is to be moved back, of five deleted.
Detached(plan, list, units) ==
    LET alike == LET median == Middle(Each(LAMBDA u : plan.radius[u.rep], units)) IN
                 \A u \in ToSet(units) : /\ 100 * (plan.radius[u.rep] - median) <= 35 * median
                                         /\ 100 * (median - plan.radius[u.rep]) <= 35 * median
        alone == \E t \in ToSet(TextsAround(plan, units, list)) : Says(plan, t, "alone")
        housed == \A u \in ToSet(units) : \E h \in ToSet(list) : <<h, u.rep>> \in plan.housed
        odd == SelectSeq(units, LAMBDA u : u.rep \in plan.astray)
        Accuse(u) == [Finding(Head(u.members), IF Len(units) = 4 THEN "detached" ELSE "orphan", 100, u.members)
                         EXCEPT !.auto = TRUE]
    IN  IF Len(units) \notin {4, 5} \/ alone \/ housed \/ ~alike
        THEN <<>> ELSE Each(Accuse, odd)

------------------------------------------------------------------------------
(* What a circle is                                                         *)

\* _collect_context_reference_texts: a text of the architect's drawing counts
\* when a circle is near; one of a test point, when grounding is near too and
\* two circles are.
SafeRefs(plan, list, intent) ==
    LET circles == CirclesOf(plan, list)
        Near(t, times, least) == SelectSeq(circles, LAMBDA c : Span(plan, c, t) <= Max({times * plan.radius[c], least}))
        Earth(t) == \/ intent = "grounding"
                    \/ \E u \in ToSet(Within(plan, TextsOf(plan, list) \o plan.refs, t, 1800)) : Says(plan, u, "earth")
        Safe(t) == /\ Says(plan, t, "alone") /\ Near(t, 8, 450) # <<>>
                   /\ Says(plan, t, "test") => Earth(t) /\ Len(Near(t, 10, 550)) >= 2
    IN  FirstOf(SelectSeq(plan.refs, Safe), LAMBDA t : t)

\* build_geometry_qa_context, with what the topology knows of the drawing.
Context(plan, list, intent, units) ==
    [intent |-> intent, units |-> units, spacing |-> UnitSpacing(plan, units),
     wires |-> WiresAmong(plan, list, intent, units),
     texts |-> TextsOf(plan, list) \o SafeRefs(plan, list, intent)]

\* classify_circle_context: how far it looks, in tenths.
Reach(plan, qa, c) == Max({80 * plan.radius[c], 8 * qa.spacing, 100})

\* is_standalone_electrical_symbol; the third sign, a repeated circle of a faint
\* layer, decides nothing, for what is faint is left out wherever this is read.
Standalone(plan, qa, c) ==
    \/ \E t \in ToSet(qa.texts) : Says(plan, t, "alone") /\ 10 * Span(plan, c, t) <= Reach(plan, qa, c)
    \/ c \in plan.marked

\* The regular row of 1.8: also a single circle that is in the list twice.
RegularRow(plan, s) ==
    LET xs == SortSeq(Each(LAMBDA c : plan.at[c], s), <)
        gaps == {xs[i + 1] - xs[i] : i \in 1..(Len(xs) - 1)}
    IN  Len(s) >= 2 /\ (10 * Max(gaps) < 18 * Min(gaps) \/ Max(gaps) = 0)

\* _run_orphan_terminal_check: circles like terminals, beside a cluster of them.
Orphans(plan, list, qa) ==
    LET units == qa.units
        known == UNION {ToSet(u.members) : u \in ToSet(units)}
        median == Middle(Each(LAMBDA u : plan.radius[u.rep], units))
        Off(c) == Min({Span(plan, c, u.rep) : u \in ToSet(units)})
        Alike(c) == /\ 100 * (plan.radius[c] - median) <= 35 * median
                    /\ 100 * (median - plan.radius[c]) <= 35 * median
        Spoken(c) == \E t \in ToSet(TextsOf(plan, list)) :
                        /\ Says(plan, t, "alone")
                        /\ 2 * Span(plan, c, t) <= Max({3 * qa.spacing, 24 * plan.radius[c], 2})
        Body(c) == \E h \in Lines \cap ToSet(list) :
                       /\ h \notin plan.circles \union DOMAIN plan.says
                       /\ 10 * Span(plan, c, h) <= Max({Reach(plan, qa, c), 40 * plan.radius[c]})
        Doubtful(c) == Off(c) > Max({4 * qa.spacing, 12 * median, 1}) /\ ~Body(c)
        found == SelectSeq(CirclesOf(plan, list), LAMBDA c :
                     /\ c \notin known /\ Alike(c) /\ Off(c) <= Max({12 * qa.spacing, 30 * median, 1})
                     /\ ~Spoken(c) /\ ~ \E h \in ToSet(list) : <<h, c>> \in plan.wired
                     /\ ~Standalone(plan, qa, c) /\ c \notin plan.faint /\ ~Doubtful(c))
    IN  IF units = <<>> \/ RegularRow(plan, found) THEN <<>>
        ELSE Each(LAMBDA c : [Finding(c, "orphan", 100, <<c>>) EXCEPT !.auto = TRUE], found)

\* _run_electrical_symbol_overlap_checks: circles of symbols that overlap, unless
\* one is a ring of the other.
SymbolOverlaps(plan, list, qa) ==
    LET r(c) == plan.radius[c]
        symbols == SelectSeq(CirclesOf(plan, list), LAMBDA c :
                       c \notin plan.faint /\ (Standalone(plan, qa, c) \/ c \in plan.core))
        Ringed(c) == \E d \in ToSet(symbols) : /\ d # c /\ 100 * r(d) > 115 * r(c)
                                               /\ 20 * Span(plan, c, d) <= Max({20, 3 * r(c)})
        Nested(p) == LET small == Min({r(p[1]), r(p[2])})
                         large == Max({r(p[1]), r(p[2])})
                     IN  /\ 100 * small <= 85 * large
                         /\ 100 * (Span(plan, p[1], p[2]) + small - large) <= Max({100, 3 * large})
        Clash(p) == r(p[1]) + r(p[2]) - Span(plan, p[1], p[2]) > 1 /\ ~Nested(p)
        found == FirstOf(SelectSeq(PairsOf(SelectSeq(symbols, LAMBDA c : ~Ringed(c))), Clash), ToSet)
    IN  Each(LAMBDA p : Finding(p[1], "clash", 100, p), found)

------------------------------------------------------------------------------
(* Grounding rods, heights and strands; the architect's texts count too     *)

AllTexts(plan, list) == TextsOf(plan, list) \o plan.refs

\* _collapse_concentric_circles of deterministic_checker.py: from the largest
\* on, a circle that is not within a kept one.
Outer(plan, s) ==
    LET sizes == SetToSortSeq({plan.radius[c] : c \in ToSet(s)}, >)
        bySize == FlattenSeq(Each(LAMBDA n : SelectSeq(s, LAMBDA c : plan.radius[c] = n), sizes))
        Inside(c, k) == /\ 100 * plan.radius[k] > 115 * plan.radius[c]
                        /\ 100 * Span(plan, c, k) <= Max({15 * plan.radius[k], 100})
    IN  FoldLeft(LAMBDA kept, c : IF \E k \in ToSet(kept) : Inside(c, k) THEN kept ELSE Append(kept, c), <<>>, bySize)

\* The first note of a group of rods decides for it, whatever the others say.
Noting(notes, Rods(_)) == FirstOf(notes, LAMBDA t : ToSet(Rods(t)))

\* _run_grounding_rod_spacing_check: rods are twice their length apart.
RodSpacing(plan, list) ==
    LET Long(t) == plan.says[t].length
        Rods(t) == LET near == Within(plan, CirclesOf(plan, list), t, Max({4 * Long(t), 6000})) IN
                   IF Len(near) < 2 THEN <<>> ELSE Outer(plan, near)
        notes == SelectSeq(AllTexts(plan, list), LAMBDA t : Says(plan, t, "rod") /\ Long(t) > 0 /\ Len(Rods(t)) >= 2)
        Close(t) == \E p \in ToSet(PairsOf(Rods(t))) : 10 * Span(plan, p[1], p[2]) < 18 * Long(t)
    IN  Each(LAMBDA t : Finding(Rods(t)[1], "spaced", 100, Rods(t)), SelectSeq(Noting(notes, Rods), Close))

\* _run_grounding_rod_count_check: the rods, the tag and the quantity differ; of
\* tags and quantities the first that is near, and the tag to be changed is the
\* nearest.
RodCount(plan, list) ==
    LET Near(s, t) == Within(plan, s, t, 5000)
        Rods(t) == LET blocks == Near(Of(BlocksOf(list), plan.rods), t)
                       circles == Near(CirclesOf(plan, list), t)
                   IN  IF blocks # <<>> THEN blocks ELSE IF Len(circles) < 2 THEN <<>> ELSE Outer(plan, circles)
        First(t, Number(_)) == Head(SelectSeq(Each(Number, Near(AllTexts(plan, list), t)), LAMBDA n : n > 0) \o <<0>>)
        Tag(t) == First(t, LAMBDA u : plan.says[u].tag)
        Many(t) == First(t, LAMBDA u : plan.says[u].many)
        notes == SelectSeq(AllTexts(plan, list), LAMBDA t : Says(plan, t, "rod") /\ Rods(t) # <<>>)
        Differs(t) == \E n, m \in {Tag(t), Many(t), Len(Rods(t))} \ {0} : n # m
    IN  Each(LAMBDA t : [Finding(Rods(t)[1], "counted", 100, Rods(t)) EXCEPT !.auto = Tag(t) > 0],
             SelectSeq(Noting(notes, Rods), Differs))

\* _run_outlet_height_check: 300 mm, and 500 mm where a danger is written near.
Heights(plan, list) ==
    LET Least(t) == IF \E u \in ToSet(Within(plan, AllTexts(plan, list), t, 3000)) : Says(plan, u, "danger")
                    THEN 500 ELSE 300
        low == SelectSeq(AllTexts(plan, list), LAMBDA t : plan.says[t].height \in 1..(Least(t) - 1))
    IN  Each(LAMBDA t : Finding(t, "height", 100, <<t>>), FirstOf(low, LAMBDA t : t))

\* _run_wire_count_check: one strand is too few, and the first circuit that is
\* written near asks for its number.
Strands(plan, list) ==
    LET Wants(t) == Head(SelectSeq(Each(LAMBDA u : plan.says[u].wants, Within(plan, AllTexts(plan, list), t, 5000)),
                                   LAMBDA n : n > 0) \o <<plan.says[t].strands>>)
        Wrong(t) == LET n == plan.says[t].strands IN n > 0 /\ (n = 1 \/ n # Wants(t))
    IN  Each(LAMBDA t : Finding(t, "strands", 100, <<t>>),
             FirstOf(SelectSeq(AllTexts(plan, list), Wrong), LAMBDA t : t))

\* What build_geometry_qa_context and the two terminal checks find comes first,
\* the rest last.
TerminalFindings(plan, list, qa) == FirstOf(Detached(plan, list, qa.units), Pair) \o Orphans(plan, list, qa)
SymbolFindings(plan, list, qa) ==
    SymbolOverlaps(plan, list, qa) \o RodCount(plan, list) \o RodSpacing(plan, list)
    \o Heights(plan, list) \o Strands(plan, list)
==============================================================================
