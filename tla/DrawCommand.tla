----------------------------- MODULE DrawCommand ------------------------------
(* agents/common/draw_command.py: what a chat message becomes when it asks  *)
(* to draw or to change something.  A request has the words that were       *)
(* recognised in its text (`words`, `colors`), the selected handles, the    *)
(* middle of the view if the browser sent it, and the language model's      *)
(* `answer`: {} when the call fails, else its fields.  `list` is the server's *)
(* copy of the drawing, `ents` what it knows of the entities.               *)
EXTENDS Patcher
LOCAL INSTANCE Integers
LOCAL INSTANCE Sequences
LOCAL INSTANCE FiniteSets
LOCAL INSTANCE SequencesExt
LOCAL INSTANCE FiniteSetsExt
LOCAL INSTANCE TLC

\* What a parser returns: nothing, a hint to select something first, one fix, or
\* a list of fixes; a fix of a list may carry the handle it is for.
Nothing == [is |-> "nothing"]
NoSelection == [is |-> "no selection"]
One(fix) == [is |-> "one", fix |-> fix]
Several(fixes) == [is |-> "list", fixes |-> fixes]

Keep(record, fields) == [f \in DOMAIN record \intersect fields |-> record[f]]

\* The types a change may have, with the fields that are handed on, those it
\* cannot do without, and what stands for a missing one.
Taken == [LAYER |-> {"layer"}, LINEWEIGHT |-> {"weight"}, COLOR |-> {"color"}, LINETYPE |-> {"linetype"},
          DELETE |-> {}, MOVE |-> {"delta"}, ROTATE |-> {"angle"}, SCALE |-> {"scale"},
          RECTANGLE_RESIZE |-> {"side", "width", "height", "delta"}, TEXT_CONTENT |-> {"text"},
          TEXT_HEIGHT |-> {"height"}, ATTRIBUTE |-> {"tag", "value"}, CREATE_WIRE |-> {},
          CONNECT_DEVICE |-> {}, REPLACE_WIRE_SIZE |-> {"layer"}, CLEANUP_DUPLICATE |-> {}]
Required == [t \in DOMAIN Taken |->
    CASE t \in {"LAYER", "LINEWEIGHT", "COLOR", "TEXT_CONTENT", "TEXT_HEIGHT", "REPLACE_WIRE_SIZE"} -> Taken[t]
      [] t = "ATTRIBUTE" -> {"tag"}
      [] OTHER -> {}]
Default == [t \in DOMAIN Taken |->
    CASE t = "LINETYPE" -> [linetype |-> "CONTINUOUS"]
      [] t = "MOVE" -> [delta |-> <<0, 0>>]
      [] t = "ROTATE" -> [angle |-> 0, base |-> <<0, 0>>]
      [] t = "SCALE" -> [scale |-> 1, base |-> <<0, 0>>]
      [] t = "RECTANGLE_RESIZE" -> [side |-> "right"]
      [] t = "ATTRIBUTE" -> [value |-> ""]
      [] OTHER -> <<>>]

\* A turn and a scaling are about the origin of the drawing, whatever is selected.
BuildModifyAutoFix(said) ==
    IF "action" \notin DOMAIN said \/ said.action \notin DOMAIN Taken THEN {}
    ELSE IF ~(Required[said.action] \subseteq DOMAIN said) THEN {}
    ELSE {[type |-> said.action] @@ Keep(said, Taken[said.action]) @@ Default[said.action]}

\* The same change for every selected handle.
ForEach(fix, handles, list) ==
    IF handles = <<>> THEN NoSelection
    ELSE Several([i \in DOMAIN handles |-> fix @@ [handle |-> handles[i]]])

------------------------------------------------------------------------------
(* New objects                                                              *)

Half(a) == a \div 2
EntityCenter(e) ==
    LET on(k) == {p[k] : p \in ToSet(e.pts)} IN
    <<Half(Min(on(1)) + Max(on(1))), Half(Min(on(2)) + Max(on(2)))>>

Total(points, k) == FoldLeft(LAMBDA t, p : t + p[k], 0, points)
MeanOf(points) ==
    IF points = <<>> THEN <<0, 0>> ELSE <<Total(points, 1) \div Len(points), Total(points, 2) \div Len(points)>>
FirstOf(n, s) == SubSeq(s, 1, Min({n, Len(s)}))
Centers(handles, ents) == [i \in DOMAIN handles |-> EntityCenter(ents[handles[i]])]
\* The middle of the first fifty entities, without those at the origin.
Centroid(list, ents) ==
    MeanOf(SelectSeq(Centers(FirstOf(50, Distinct(list)), ents), LAMBDA p : p # <<0, 0>>))

\* The first selected entity that the server knows, else the view, else the
\* middle of the drawing.
Known(handles, list) == SelectSeq(handles, LAMBDA h : h \in ToSet(list))
BasePoint(req, known, list, ents) ==
    IF known # <<>> THEN EntityCenter(ents[known[1]])
    ELSE IF req.view # <<>> THEN req.view ELSE Centroid(list, ents)

\* The first forty block names of the drawing; a name that is not among them
\* becomes one that contains it or is contained in it.
BlockNames(refs, ents) == [i \in DOMAIN refs |-> ents[refs[i]].block]
AvailableBlocks(list, ents) ==
    FirstOf(40, Distinct(BlockNames(SelectSeq(Distinct(list), LAMBDA h : ents[h].kind = "block"), ents)))
MatchBlockName(wanted, available) ==
    IF wanted.name \in ToSet(available) THEN {wanted.name}
    ELSE ToSet(FirstOf(1, SelectSeq(available, LAMBDA n : n \in wanted.like)))

Direction == [right |-> <<1, 0>>, left |-> <<-1, 0>>, up |-> <<0, 1>>, down |-> <<0, -1>>, none |-> <<0, 0>>]
Shift(p, by, k) == <<p[1] + k * by[1], p[2] + k * by[2]>>
Rectangle(c, a, b) ==
    <<<<c[1] - Half(a), c[2] - Half(b)>>, <<c[1] + Half(a), c[2] - Half(b)>>,
      <<c[1] + Half(a), c[2] + Half(b)>>, <<c[1] - Half(a), c[2] + Half(b)>>>>

\* Every shape that is not known, and every block that is not in the drawing, is
\* drawn as a circle; only a text has no colour.
ShapeFix(said, c, size, matched) ==
    LET shape == Get(said, "shape", "circle") IN
    CASE shape = "line" -> [start |-> c, end |-> Shift(c, Direction[Get(said, "direction", "right")], size)]
      [] shape \in {"rectangle", "polyline"} ->
            [vertices |-> Rectangle(c, Get(said, "width", size), Get(said, "height", size))]
      [] shape = "arc" -> [center |-> c, radius |-> size, arc |-> Get(said, "arc", <<0, 270>>)]
      [] shape = "ellipse" -> [center |-> c, major |-> size]
      [] shape = "text" -> [text |-> Get(said, "content", "TEXT"), base |-> c, height |-> Get(said, "high", 150)]
      [] shape = "block" /\ matched # {} -> [block |-> CHOOSE n \in matched : TRUE, base |-> c]
      [] OTHER -> [center |-> c, radius |-> size]

\* The colour the model says, else the first that the text names.
ColorOf(fix, color) == IF Has(fix, "text") \/ color = {} THEN fix ELSE fix @@ [color |-> Min(color)]
Draws(req, said, list, ents) ==
    One([type |-> "CREATE_ENTITY", layer |-> Get(said, "layer", ProposalLayerName)]
        @@ ColorOf(ShapeFix(said,
                            Shift(BasePoint(req, Known(req.selected, list), list, ents),
                                  Direction[Get(said, "direction", "right")], Get(said, "distance", 500)),
                            Get(said, "size", 200),
                            IF Has(said, "block") THEN MatchBlockName(said.block, AvailableBlocks(list, ents)) ELSE {}),
                   IF Has(said, "color") THEN {said.color} ELSE req.colors))

\* A message without a word of drawing or changing is none of its business, nor is
\* one that the model does not answer.
Changes(fix, req, list) == IF fix = {} THEN Nothing ELSE ForEach(CHOOSE f \in fix : TRUE, req.selected, list)
Parsed(req, list, ents) ==
    IF req.words \intersect {"draw", "modify"} = {} \/ req.answer = {} THEN Nothing
    ELSE LET said == CHOOSE a \in req.answer : TRUE IN
         IF said.command = "modify" THEN Changes(BuildModifyAutoFix(said), req, list)
         ELSE IF said.command = "draw" THEN Draws(req, said, list, ents) ELSE Nothing
==============================================================================
