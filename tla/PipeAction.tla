------------------------------ MODULE PipeAction -------------------------------
(* agents/pipe/sub/action.py: the piping agent's answer to a request for a  *)
(* change.  Patterns of the trade are drawn from a keyword alone, other     *)
(* commands go to the parser of DrawCommand, then to two prompts.  Beside   *)
(* the fields of DrawCommand a request has `length` (0: none in the text),  *)
(* `small` (the answer of the short prompt, as `answer`) and `fixes`, those *)
(* of the long prompt.                                                      *)
EXTENDS DrawCommand
LOCAL INSTANCE Integers
LOCAL INSTANCE Sequences
LOCAL INSTANCE FiniteSets
LOCAL INSTANCE SequencesExt
LOCAL INSTANCE FiniteSetsExt
LOCAL INSTANCE TLC

\* What an agent offers: a fix for an element (`handle`, if it is for one) with
\* the type of finding it will be shown under and the list of its commands.
Offer(type, auto) == [type |-> type, auto |-> auto]
For(h, type, auto) == [handle |-> h] @@ Offer(type, auto)

------------------------------------------------------------------------------
(* Patterns around the point c                                              *)

PatternLayer == "AI_PIPE_PATTERN"
At(c, p) == <<c[1] + p[1], c[2] + p[2]>>
Stroke(c, a, b) == [type |-> "CREATE_ENTITY", start |-> At(c, a), end |-> At(c, b), layer |-> PatternLayer]
Ring(c, a, r) == [type |-> "CREATE_ENTITY", center |-> At(c, a), radius |-> r, layer |-> PatternLayer]
Box(c, wide, high) == [type |-> "CREATE_ENTITY", vertices |-> Rectangle(c, wide, high), layer |-> PatternLayer]
Says(c, a, text) == [type |-> "CREATE_TEXT", text |-> text, base |-> At(c, a), layer |-> PatternLayer]

\* A length of the text, never shorter than the least.
Long(req, default, least) == Max({least, IF req.length = 0 THEN default ELSE req.length})
Part(a, hundredths) == (a * hundredths) \div 100

MeterSet(c, wide, high) ==
    <<Box(c, wide, high), Ring(c, <<-Part(wide, 18), 0>>, Part(high, 22)), Ring(c, <<Part(wide, 18), 0>>, Part(high, 22)),
      Stroke(c, <<Half(wide), 0>>, <<Half(wide) + 600, 0>>),
      Says(c, <<-Half(wide), Half(high) + 180>>, "GAS METER"), Says(c, <<Half(wide) + 180, 160>>, "G 20A")>>
TeeBranch(c, half) ==
    <<Stroke(c, <<-half, 0>>, <<half, 0>>), Stroke(c, <<0, 0>>, <<0, half>>), Says(c, <<90, half + 120>>, "T")>>
ValveSymbol(c, half, k) ==
    <<Stroke(c, <<-half, 0>>, <<half, 0>>), Stroke(c, <<-k, -k>>, <<k, k>>), Stroke(c, <<-k, k>>, <<k, -k>>),
      Says(c, <<-60, half + 120>>, "V")>>
FlowArrow(c, half, head) ==
    <<Stroke(c, <<-half, 0>>, <<half, 0>>), Stroke(c, <<half, 0>>, <<half - head, Part(head, 45)>>),
      Stroke(c, <<half, 0>>, <<half - head, -Part(head, 45)>>), Says(c, <<-half, 120>>, "FLOW")>>
Reducer(c, half) ==
    <<Stroke(c, <<-half, 0>>, <<-80, 0>>), Stroke(c, <<80, 0>>, <<half, 0>>),
      Stroke(c, <<-80, 90>>, <<80, 45>>), Stroke(c, <<-80, -90>>, <<80, -45>>), Says(c, <<-180, 160>>, "REDUCER")>>
CapEnd(c, half) ==
    <<Stroke(c, <<-half, 0>>, <<half, 0>>), Stroke(c, <<half, -120>>, <<half, 120>>), Says(c, <<half + 80, 100>>, "CAP")>>
RiserMark(c) ==
    <<Ring(c, <<0, 0>>, 150), Stroke(c, <<-110, -110>>, <<110, 110>>), Says(c, <<190, 80>>, "RISE")>>
SleeveMark(c, r) ==
    <<Ring(c, <<0, 0>>, r), Ring(c, <<0, 0>>, Part(r, 68)), Says(c, <<r + 80, Part(r, 35)>>, "SLEEVE")>>
GasAlarm(c) == <<Box(c, 420, 260), Says(c, <<-160, 40>>, "GAS"), Says(c, <<-170, -90>>, "ALARM")>>
FireSeal(c) ==
    <<Ring(c, <<0, 0>>, 180), Stroke(c, <<-220, 0>>, <<220, 0>>), Stroke(c, <<0, -220>>, <<0, 220>>),
      Says(c, <<240, 120>>, "FIRE SEAL")>>
HangerMark(c) ==
    <<Stroke(c, <<0, -220>>, <<0, 220>>), Stroke(c, <<-160, 220>>, <<160, 220>>), Says(c, <<180, 150>>, "HANGER")>>
RunOf(c, long) == <<Stroke(c, <<0, 0>>, <<long, 0>>), Says(c, <<Half(long), 180>>, "G 20A")>>
LeaderNote(c) ==
    <<Stroke(c, <<0, 0>>, <<550, 380>>), Stroke(c, <<470, 345>>, <<550, 380>>), Stroke(c, <<470, 415>>, <<550, 380>>),
      Says(c, <<630, 420>>, "note")>>

\* The first keyword of this order that the text has decides.
Keywords == <<"connect", "meter", "tee", "valve", "arrow", "reducer", "cap", "riser", "sleeve", "alarm",
              "seal", "hanger", "label", "run">>
Pattern(word, c, req) ==
    CASE word = "meter" -> MeterSet(c, Long(req, 900, 600), Max({Part(Long(req, 900, 600), 45), 360}))
      [] word = "tee" -> TeeBranch(c, Half(Long(req, 700, 300)))
      [] word = "valve" -> ValveSymbol(c, Half(Long(req, 300, 240)), Part(Half(Long(req, 300, 240)), 55))
      [] word = "arrow" -> FlowArrow(c, Half(Long(req, 500, 240)), Min({Part(Long(req, 500, 240), 22), 140}))
      [] word = "reducer" -> Reducer(c, Half(Long(req, 520, 320)))
      [] word = "cap" -> CapEnd(c, Half(Long(req, 260, 160)))
      [] word = "riser" -> RiserMark(c)
      [] word = "sleeve" -> SleeveMark(c, Max({Half(Long(req, 220, 0)), 120}))
      [] word = "alarm" -> GasAlarm(c)
      [] word = "seal" -> FireSeal(c)
      [] word = "hanger" -> HangerMark(c)
      [] word = "run" -> RunOf(c, Long(req, 1000, 0))

\* A line between the nearest ends of the first two lines that are selected.
Apart(p, q) == (p[1] - q[1]) * (p[1] - q[1]) + (p[2] - q[2]) * (p[2] - q[2])
Ends == <<<<1, 1>>, <<1, 2>>, <<2, 1>>, <<2, 2>>>>
Gap(a, b, k) == Apart(a.pts[Ends[k][1]], b.pts[Ends[k][2]])
Between(a, b, k) ==
    [type |-> "CREATE_ENTITY", start |-> a.pts[Ends[k][1]], end |-> b.pts[Ends[k][2]], layer |-> a.layer]
ClosestEndpointConnection(lines) ==
    IF Len(lines) < 2 THEN Nothing
    ELSE LET a == lines[1] b == lines[2] IN
         Several(<<Between(a, b, Min({i \in 1..4 : \A j \in 1..4 : Gap(a, b, i) <= Gap(a, b, j)}))>>)

\* Beside what is selected first, or at the origin; a recommendation is a note.
Drawn(word, c, sel, req) ==
    IF word = "connect" THEN ClosestEndpointConnection(SelectSeq(sel, LAMBDA e : e.kind = "line"))
    ELSE IF word = "label" THEN One(Says(c, <<0, 250>>, "G 20A"))
    ELSE Several(Pattern(word, c, req))
FirstWord(req, words) == FirstOf(1, SelectSeq(words, LAMBDA k : k \in req.words))
Beside(req, base) == At(base, <<IF req.length = 0 THEN 500 ELSE req.length, 0>>)
PatternOf(req, named, sel, base) ==
    IF "recommend" \in req.words
    THEN IF sel = <<>> /\ "draw" \notin req.words THEN Nothing ELSE Several(LeaderNote(base))
    ELSE IF named = <<>> THEN Nothing
    ELSE Drawn(named[1], IF sel = <<>> THEN base ELSE Beside(req, base), sel, req)
\* Without a word of drawing or recommending only a connection is one.
ParsePipePattern(req, sel) ==
    PatternOf(req, FirstWord(req, IF "draw" \in req.words THEN Keywords ELSE <<"connect">>), sel,
              IF sel = <<>> THEN <<0, 0>> ELSE EntityCenter(sel[1]))

Entities(handles, ents) == [i \in DOMAIN handles |-> ents[handles[i]]]
OrElse(cmd, req, list, ents) == IF cmd = Nothing THEN Parsed(req, list, ents) ELSE cmd
PipeParsed(req, list, ents) ==
    OrElse(ParsePipePattern(req, Entities(Known(req.selected, list), ents)), req, list, ents)

------------------------------------------------------------------------------
(* From a command to what is offered                                        *)

\* The middle of all that is selected and known.
Reach(e) == IF e.kind \in {"circle", "arc"} THEN e.size ELSE 0
Edges(e, k) == {p[k] - Reach(e) : p \in ToSet(e.pts)} \union {p[k] + Reach(e) : p \in ToSet(e.pts)}
Middle(places) == Half(Min(places) + Max(places))
SelectionBasePoint(known, ents) ==
    IF known = <<>> THEN {}
    ELSE {<<Middle(UNION {Edges(ents[h], 1) : h \in ToSet(known)}), Middle(UNION {Edges(ents[h], 2) : h \in ToSet(known)})>>}

\* The short prompt knows only changes; it turns and scales what is selected about
\* its middle.
Based(fix, bases, handles, list) ==
    IF fix.type \notin {"ROTATE", "SCALE"} THEN ForEach(fix, handles, list)
    ELSE IF bases = {} THEN Nothing ELSE ForEach([fix EXCEPT !.base = CHOOSE b \in bases : TRUE], handles, list)
SmallFix(fixes, handles, list, ents) ==
    IF fixes = {} THEN Nothing
    ELSE IF handles = <<>> THEN NoSelection
    ELSE Based(CHOOSE f \in fixes : TRUE, SelectionBasePoint(Known(handles, list), ents), handles, list)
LlmModify(req, handles, list, ents) ==
    SmallFix(UNION {BuildModifyAutoFix(said) : said \in req.small}, handles, list, ents)

Without(fix, field) == [f \in DOMAIN fix \ {field} |-> fix[f]]
Singly(fix) ==
    IF Has(fix, "handle") THEN For(fix.handle, "SELECTED_OBJECT", <<Without(fix, "handle")>>)
    ELSE Offer("SELECTED_OBJECT", <<fix>>)
\* The same change of several elements is one fix for all of them.
Same(fixes) ==
    \A i \in DOMAIN fixes : Has(fixes[i], "handle") /\ Without(fixes[i], "handle") = Without(fixes[1], "handle")
Whole(fixes) == Without(fixes[1], "handle") @@ [targets |-> [i \in DOMAIN fixes |-> fixes[i].handle]]
Plural(fix) == For(fix.targets[1], "MULTI_" \o fix.type, <<fix>>)
CommandResult(cmd) ==
    CASE cmd.is = "no selection" -> {<<>>}
      [] cmd.is = "nothing" -> {}
      [] cmd.is = "one" ->
            {<<IF Get(cmd.fix, "targets", <<>>) = <<>> THEN Offer(cmd.fix.type, <<cmd.fix>>) ELSE Plural(cmd.fix)>>}
      [] cmd.is = "list" ->
            IF Same(cmd.fixes) THEN {<<Plural(Whole(cmd.fixes))>>} ELSE {[i \in DOMAIN cmd.fixes |-> Singly(cmd.fixes[i])]}

Otherwise(parsed, req, handles, list, ents) ==
    IF parsed # {} THEN parsed
    ELSE IF "modify" \notin req.words THEN {} ELSE CommandResult(LlmModify(req, handles, list, ents))
CommandFix(req, handles, list, ents) ==
    Otherwise(CommandResult(PipeParsed([req EXCEPT !.selected = handles], list, ents)), req, handles, list, ents)
SelectedCommandFix(req, list, ents) == CommandFix(req, Distinct(req.selected), list, ents)

------------------------------------------------------------------------------
(* A fragment of a symbol is deleted with the whole symbol                  *)

ClusterPad == 45
MemberMax == 1200
ClusterMax == 1600
Linework == {"line", "arc", "polyline"}
Bounds(e) == <<Min(Edges(e, 1)), Min(Edges(e, 2)), Max(Edges(e, 1)), Max(Edges(e, 2))>>
Span(b) == Max({b[3] - b[1], b[4] - b[2]})
Merged(a, b) == IF a = <<>> THEN b ELSE <<Min({a[1], b[1]}), Min({a[2], b[2]}), Max({a[3], b[3]}), Max({a[4], b[4]})>>
NearBoxes(a, b) ==
    /\ b[1] <= a[3] + ClusterPad /\ a[1] <= b[3] + ClusterPad
    /\ b[2] <= a[4] + ClusterPad /\ a[2] <= b[4] + ClusterPad
HasPipeEvidence(e) == e.layer = "PIPE" \/ "SIZE" \in DOMAIN e.tags
GenericLayer(e) == e.layer = "0"

IsSymbolCandidate(e) ==
    /\ e.kind \in Linework \union {"circle", "ellipse"}
    /\ ~(HasPipeEvidence(e) /\ Span(Bounds(e)) >= MemberMax)
    /\ Span(Bounds(e)) <= MemberMax
ClassifyPipeEntity(e, clustered) ==
    IF e.kind \in TextKinds THEN "annotation"
    ELSE IF e.kind = "block" THEN "equipment_or_block"
    ELSE IF e.kind \notin Linework THEN "symbol_fragment"
    ELSE IF HasPipeEvidence(e) /\ ~(GenericLayer(e) /\ Span(Bounds(e)) < 1500) THEN "pipe_centerline"
    ELSE IF clustered \/ IsSymbolCandidate(e) THEN "symbol_fragment" ELSE "line_geometry"

\* The candidates are visited last in, first out, from those that are selected; one
\* is taken in when it is near to the one in hand and what was visited stays small
\* with it.
Taking(s, joins, all) == [seen |-> s.seen \union ToSet(joins), stack |-> Front(s.stack) \o joins, bounds |-> all]
Joining(boxes, s, i, all) ==
    SelectSeq([j \in DOMAIN boxes |-> j], LAMBDA j :
        j \notin s.seen /\ NearBoxes(boxes[i], boxes[j]) /\ Span(Merged(all, boxes[j])) <= ClusterMax)
Grown(boxes, s, all) == Taking(s, Joining(boxes, s, Last(s.stack), all), all)
Visit(boxes, s) ==
    IF s.stack = <<>> THEN s ELSE Grown(boxes, s, Merged(s.bounds, boxes[Last(s.stack)]))
Reached(boxes, seeds) ==
    FoldLeft(LAMBDA s, i : Visit(boxes, s), [seen |-> ToSet(seeds), stack |-> seeds, bounds |-> <<>>], boxes).seen
InOrder(n, set) == SelectSeq([i \in 1..n |-> i], LAMBDA i : i \in set)
ClusterOf(cands, indices) == IF Len(indices) <= 1 THEN <<>> ELSE [i \in DOMAIN indices |-> cands[indices[i]]]
ClusterFrom(cands, boxes, seeds) ==
    IF seeds = <<>> THEN <<>> ELSE ClusterOf(cands, InOrder(Len(cands), Reached(boxes, seeds)))
ClusterAmong(cands, selected, ents) ==
    ClusterFrom(cands, [i \in DOMAIN cands |-> Bounds(ents[cands[i]])],
                InOrder(Len(cands), {i \in DOMAIN cands : cands[i] \in ToSet(selected)}))
SymbolCluster(selected, around, ents) ==
    ClusterAmong(SelectSeq(selected \o around, LAMBDA h : IsSymbolCandidate(ents[h])), selected, ents)

\* The role that most of the selected elements have; of two the one met first.
MostOften(roles) ==
    roles[Min({i \in DOMAIN roles : \A j \in DOMAIN roles :
                Cardinality({k \in DOMAIN roles : roles[k] = roles[j]}) <= Cardinality({k \in DOMAIN roles : roles[k] = roles[i]})})]
DominantRole(selected, cluster, ents) ==
    MostOften([i \in DOMAIN selected |-> ClassifyPipeEntity(ents[selected[i]], selected[i] \in ToSet(cluster))])

SymbolDelete(selected, cluster, ents) ==
    IF Len(cluster) <= 1 \/ DominantRole(selected, cluster, ents) # "symbol_fragment" THEN {}
    ELSE {[i \in DOMAIN cluster |-> For(cluster[i], "SYMBOL_FRAGMENT", <<[type |-> "DELETE"]>>)]}
SymbolDeletePreflight(req, selected, around, ents) ==
    IF "delete" \notin req.words THEN {} ELSE SymbolDelete(selected, SymbolCluster(selected, around, ents), ents)

------------------------------------------------------------------------------
\* A fix of the prompt for an element that it was not shown is dropped, unless it
\* only draws.
OfSelected(fix, selected) ==
    \/ ~Has(fix, "handle") \/ fix.handle \in ToSet(selected)
    \/ \A i \in DOMAIN fix.auto : Creates(fix.auto[i])

\* Without a selection the whole drawing is the subject.
Subject(req, list) == IF req.selected = <<>> THEN list ELSE SelectSeq(list, LAMBDA h : h \in ToSet(req.selected))
Around(req, list) == IF req.selected = <<>> THEN <<>> ELSE SelectSeq(list, LAMBDA h : h \notin ToSet(req.selected))
FirstAnswer(command, selected, symbol, prompted) ==
    IF command # {} THEN CHOOSE c \in command : TRUE
    ELSE IF selected = <<>> THEN <<>>
    ELSE IF symbol # {} THEN CHOOSE s \in symbol : TRUE ELSE prompted
PipeAnalyzeAndFix(req, list, ents) ==
    FirstAnswer(SelectedCommandFix(req, list, ents), Subject(req, list),
                SymbolDeletePreflight(req, Subject(req, list), Around(req, list), ents),
                SelectSeq(req.fixes, LAMBDA f : OfSelected(f, Subject(req, list))))
==============================================================================
