------------------------------ MODULE ElecAction -------------------------------
(* agents/elec/sub/action.py: what the electrical domain makes of a request *)
(* for a change.  Its parser is a copy of DrawCommand that answers requests *)
(* for outlets and earth rods itself.  Beside the fields of DrawCommand a   *)
(* request has `count` ({} or the number in its text), `named` ({} or the   *)
(* layer), `batch` (what the prompt for several objects draws) and `fixes`. *)
EXTENDS PipeAction
LOCAL INSTANCE Integers
LOCAL INSTANCE Sequences
LOCAL INSTANCE FiniteSets
LOCAL INSTANCE SequencesExt
LOCAL INSTANCE FiniteSetsExt
LOCAL INSTANCE TLC

\* The names by which the drawings tell earth rods, and the texts that count them.
RodLayers == {"E-GRND", "GRND", "E3"}
RodBlocks == {"GRND_ROD"}
RodTexts == {"rod 18x2400"}
Quantity(n) == "x" \o ToString(n) \o "EA"
Label(n) == "E" \o ToString(n)

Nowhere == <<5000, 5000>>
MiddleOf(points) == IF points = <<>> THEN Nowhere ELSE MeanOf(points)
DrawingCenter(list, ents) == MiddleOf(Centers(Distinct(list), ents))

\* Here the view comes before the selection.
BatchBase(req, known, list, ents) ==
    IF req.view # <<>> THEN req.view
    ELSE IF known # <<>> THEN EntityCenter(ents[known[1]]) ELSE DrawingCenter(list, ents)

\* A colour of the text for everything that has none.
Tinted(req, fixes) ==
    [i \in DOMAIN fixes |-> IF req.colors = {} THEN fixes[i] ELSE fixes[i] @@ [color |-> Min(req.colors)]]

\* Four objects for each outlet: the body, two holes and the stem.
OutletPart(shape) == [type |-> "CREATE_ENTITY", layer |-> "E-OUTLET"] @@ shape
Outlet(c) ==
    <<OutletPart([center |-> c, radius |-> 200]), OutletPart([center |-> At(c, <<-60, -30>>), radius |-> 25]),
      OutletPart([center |-> At(c, <<60, -30>>), radius |-> 25]),
      OutletPart([start |-> At(c, <<0, -200>>), end |-> At(c, <<0, -600>>)])>>
BuildOutletCmds(n, base) ==
    FlattenSeq([i \in 1..n |-> Outlet(At(base, <<(i - 1) * 2000, 0>>))])

------------------------------------------------------------------------------
(* Earth rods                                                               *)

\* By its layer, its block or its text.
FindGrndHandles(list, ents) ==
    SelectSeq(Distinct(list), LAMBDA h :
        ents[h].layer \in RodLayers \/ ents[h].block \in RodBlocks \/ ents[h].text \in RodTexts)

IsGrndRodSymbol(e) ==
    IF e.kind = "block" THEN e.block \in RodBlocks
    ELSE e.kind = "circle" /\ e.layer \in RodLayers
RodRadius(e) == Max({50, Half(Span(Bounds(e)))})
Within(a, b, reach) == Apart(a, b) <= reach * reach
OneRod(a, b) == Within(a.at, b.at, Part(Max({a.size, b.size}), 35))

\* A circle joins the first group whose middle is near, and moves it.
Joined(g, c) ==
    [handles |-> g.handles \o c.handles, size |-> Max({g.size, c.size}),
     at |-> <<Half(g.at[1] + c.at[1]), Half(g.at[2] + c.at[2])>>]
InGroup(groups, near, c) ==
    IF near = {} THEN Append(groups, c) ELSE [groups EXCEPT ![Min(near)] = Joined(@, c)]
Grouped(groups, c) == InGroup(groups, {i \in DOMAIN groups : OneRod(groups[i], c)}, c)
\* Each block is a rod; only without blocks are the circles looked at.
RodItems(rods, ents) ==
    [i \in DOMAIN rods |-> [handles |-> <<rods[i]>>, at |-> EntityCenter(ents[rods[i]]), size |-> RodRadius(ents[rods[i]])]]
BlocksOrCircles(items, ents) ==
    IF \E i \in DOMAIN items : ents[items[i].handles[1]].kind = "block"
    THEN SelectSeq(items, LAMBDA g : ents[g.handles[1]].kind = "block") ELSE FoldLeft(Grouped, <<>>, items)
FindGrndRodGroups(list, ents, among) ==
    BlocksOrCircles(RodItems(SelectSeq(Distinct(list), LAMBDA h :
                        (among = <<>> \/ h \in ToSet(among)) /\ IsGrndRodSymbol(ents[h])), ents), ents)

\* The upper rods stay, of two at one height the left one.
Higher(a, b) == a[2] > b[2] \/ (a[2] = b[2] /\ a[1] < b[1])
Above(groups, i, j) ==
    Higher(groups[i].at, groups[j].at) \/ (groups[i].at = groups[j].at /\ i < j)
\* (mutant) one rod too many is kept
KeptOneMore(groups, target) ==
    {i \in DOMAIN groups : Cardinality({j \in DOMAIN groups : Above(groups, j, i)}) <= target}
Kept(groups, target) ==
    {i \in DOMAIN groups : Cardinality({j \in DOMAIN groups : Above(groups, j, i)}) < target}

TouchPoints(e) == ToSet(e.pts) \union {EntityCenter(e)}
\* With the rods that go, the selected lines that end at one of them.
HandlesOf(groups) == FlattenSeq([k \in DOMAIN groups |-> groups[k].handles])
Limit(g) == Max({6 * g.size, 500})
EndsAt(e, g) == \E p \in TouchPoints(e) : Within(p, g.at, Limit(g))
WithWires(goes, groups, selected, ents) ==
    Distinct(HandlesOf(goes) \o SelectSeq(selected, LAMBDA h :
        /\ h \notin ToSet(HandlesOf(groups)) /\ ents[h].kind \in Linework
        /\ \E k \in DOMAIN goes : EndsAt(ents[h], goes[k])))
Picked(groups, chosen) == [k \in DOMAIN chosen |-> groups[chosen[k]]]
HandlesForGrndCountReduction(groups, target, selected, list, ents) ==
    WithWires(Picked(groups, InOrder(Len(groups), DOMAIN groups \ Kept(groups, target))),
              groups, Known(selected, list), ents)

\* The texts around the middle of all rods that count them.
CountText(text, target) ==
    IF \E n \in 0..50 : text = Quantity(n) THEN Quantity(target)
    ELSE IF \E n \in 0..50 : text = Label(n) THEN Label(target) ELSE text
CountTexts(middle, target, list, ents) ==
    SelectSeq(Distinct(list), LAMBDA h :
        /\ ents[h].kind \in {"text", "mtext"} /\ Within(EntityCenter(ents[h]), middle, 5000)
        /\ CountText(ents[h].text, target) # ents[h].text)
Recounted(texts, target, ents) ==
    [i \in DOMAIN texts |-> [type |-> "TEXT_CONTENT", targets |-> <<texts[i]>>, direct |-> TRUE,
                             text |-> CountText(ents[texts[i]].text, target)]]
BuildGrndCountTextUpdates(groups, target, list, ents) ==
    Recounted(CountTexts(MiddleOf([i \in DOMAIN groups |-> groups[i].at]), target, list, ents), target, ents)

\* "Make it two rods": nothing is offered, what is too much is deleted at once.
GroupsNear(near, list, ents) == IF near = <<>> THEN FindGrndRodGroups(list, ents, <<>>) ELSE near
ErasedAndRecounted(goes, texts) ==
    IF goes = <<>> THEN Nothing
    ELSE IF texts = <<>> THEN One([type |-> "DELETE", direct |-> TRUE, targets |-> goes])
    ELSE Several(<<[type |-> "DELETE", direct |-> TRUE, targets |-> goes]>> \o texts)
Fewer(req, target, groups, list, ents) ==
    IF Len(groups) <= target THEN Nothing
    ELSE ErasedAndRecounted(HandlesForGrndCountReduction(groups, target, req.selected, list, ents),
                            BuildGrndCountTextUpdates(groups, target, list, ents))
FewerRods(req, target, handles, list, ents) ==
    Fewer(req, target, GroupsNear(FindGrndRodGroups(list, ents, handles), list, ents), list, ents)

------------------------------------------------------------------------------
\* A number of the text, cut off.
Upto(most, count) == Min({most, Max(count)})

\* What is selected is what the new rods replace, whatever it is.
Batched(req, drawn, handles) ==
    IF drawn = <<>> THEN Nothing
    ELSE IF handles # <<>> THEN Several(<<[type |-> "DELETE", targets |-> handles]>> \o drawn)
    ELSE Several(drawn)
Batch(req, handles) ==
    Batched(req, Tinted(req, SelectSeq(req.batch, LAMBDA f : f.type = "CREATE_ENTITY")), handles)

OrBatch(fewer, req, handles) ==
    IF fewer # Nothing THEN fewer ELSE IF handles = <<>> THEN NoSelection ELSE Batch(req, handles)
RodCommand(req, handles, list, ents) ==
    IF "remove" \in req.words
    THEN IF handles = <<>> THEN NoSelection ELSE One([type |-> "DELETE", targets |-> handles])
    ELSE IF "replace" \notin req.words THEN Batch(req, <<>>)
    ELSE OrBatch(IF req.count = {} THEN Nothing ELSE FewerRods(req, Upto(50, req.count), handles, list, ents),
                 req, handles)
RodHandles(req, list, ents) == IF req.selected # <<>> THEN req.selected ELSE FindGrndHandles(list, ents)
ParseBatch(req, list, ents) ==
    IF "outlet" \in req.words /\ req.count # {} /\ "double" \notin req.words
    THEN Several(Tinted(req, BuildOutletCmds(Upto(20, req.count),
                                             BatchBase(req, Known(req.selected, list), list, ents))))
    ELSE IF "rod" \in req.words THEN RodCommand(req, RodHandles(req, list, ents), list, ents) ELSE Batch(req, <<>>)

\* A text that names a device goes to the batch parser, all others to the copy of
\* the common one.
ElecBuildModify(said) == BuildModifyAutoFix(said)
ElecDrawn(req, list, ents) == Parsed(req, list, ents)
ElecParsed(req, list, ents) ==
    IF req.words \intersect {"rod", "outlet", "device"} # {} THEN ParseBatch(req, list, ents)
    ELSE ElecDrawn(req, list, ents)

------------------------------------------------------------------------------
\* A layer that the text names is set for all that is selected; a text that only
\* speaks of a layer or a selection needs one as well.
SelectedLayerFix(req) ==
    IF req.words \intersect {"layer", "selection"} = {} /\ req.named = {} THEN {}
    ELSE IF req.selected = <<>> THEN {<<>>}
    ELSE {<<For(req.selected[1], "MULTI_LAYER", <<[type |-> "LAYER", layer |-> l, targets |-> req.selected]>>)>> : l \in req.named}

\* The fixes of the prompt are taken as they are.
OrPrompt(layered, req, list) ==
    IF layered # {} THEN CHOOSE l \in layered : TRUE
    ELSE IF req.selected # <<>> /\ Known(req.selected, list) = <<>> THEN <<>>
    ELSE IF list = <<>> THEN <<>> ELSE req.fixes
ElecAnalyzeAndFix(req, list) == OrPrompt(SelectedLayerFix(req), req, list)
==============================================================================
