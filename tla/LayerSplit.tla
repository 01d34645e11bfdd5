------------------------------- MODULE LayerSplit ------------------------------
(* What a pipe review looks at: the entities of a drawing parted into       *)
(* architecture, piping and the rest (arch_pipe_layer_split.py 86-939).     *)
(* A drawing has its `list` of handles, `ent` for what each of them is,     *)
(* `layer` for what the name and the colour of a layer say, and `titled`    *)
(* when its own name speaks of piping.  The words of a text are those the   *)
(* regular expressions look for; places are on a line, <<>> for none.       *)
(* `org` is the role that an organisation's rules give to some layers.      *)
EXTENDS Integers, Sequences, FiniteSets, SequencesExt, FiniteSetsExt

Texts == {"text", "leader"}
Strokes == {"line", "spline"}

\* The rules of the organisation first, then the name.
ClassifyLayer(name, layer, org) ==
    CASE name \in DOMAIN org -> org[name]
      [] "title" \in layer.words -> "aux"
      [] "arch-" \in layer.words -> "arch"
      [] layer.words \intersect {"mep-", "mep"} # {} -> "mep"
      [] "arch" \in layer.words -> "arch"
      [] "ignored" \in layer.words -> "aux"
      [] OTHER -> "unknown"

\* The score of an entity is enough when a keyword is in its name or text.
Scored(e) == e.kind \in Texts \union {"block"} /\ "keyword" \in e.words
HasPipeContext(d) ==
    d.titled \/ \E h \in ToSet(d.list) : d.ent[h].kind \in Texts /\ "context" \in d.ent[h].words

IsTitleText(e) == e.kind \in Texts /\ "title" \in e.words
\* A size or the letter of a fixture says something only in a drawing of pipes.
IsAnnotation(e, context) ==
    e.kind \in Texts /\ ~IsTitleText(e) /\ ("note" \in e.words \/ (context /\ "short" \in e.words))
IsRoomLabel(e) == e.kind = "text" /\ "room" \in e.words /\ ~IsAnnotation(e, FALSE) /\ ~IsTitleText(e)

NearTitle == 120
NearAnnotation == 260
LargestSymbol == 5000

Near(a, b, tol) == a # <<>> /\ b # <<>> /\ a[2] + tol >= b[1] /\ b[2] + tol >= a[1]
IsLarge(d, e) ==
    /\ e.kind = "block" /\ e.at # <<>> /\ e.at[2] - e.at[1] > LargestSymbol
    /\ ~Scored(e) /\ ("generic" \in d.layer[e.layer].words \/ e.named)
Places(d, Holds(_)) == {d.ent[h].at : h \in {g \in ToSet(d.list) : Holds(d.ent[g])}} \ {<<>>}
IsTitleGraphic(e, titles) == e.kind \in Strokes /\ \E p \in titles : Near(e.at, p, NearTitle)
IsNearAnnotation(d, e, notes) ==
    e.kind \in Strokes \union {"block"} /\ ~IsLarge(d, e) /\ \E p \in notes : Near(e.at, p, NearAnnotation)

\* Piping somewhere: in the name of a layer, or in a text.
Evidence(d) ==
    \E h \in ToSet(d.list) : \/ "mep" \in d.layer[d.ent[h].layer].words
                             \/ d.ent[h].kind \in Texts /\ "keyword" \in d.ent[h].words

\* A layer whose name says nothing: a grey one is architecture, and so is one
\* of lines without a colour of its own, unless it has a block or a keyword.
Resolved(d, name, org, evidence) ==
    LET layer == d.layer[name]
        role == ClassifyLayer(name, layer, org)
        on == SelectSeq(d.list, LAMBDA h : d.ent[h].layer = name)
        lines == Len(SelectSeq(on, LAMBDA h : d.ent[h].kind = "line"))
        vivid == layer.color = "vivid"
    IN  CASE role # "unknown" -> role
          [] layer.color = "grey" -> "arch"
          [] "keyword" \in layer.words \/ (evidence /\ vivid) -> "unknown"
          [] /\ ~vivid /\ 10 * lines > 6 * Len(on)
             /\ \A h \in ToSet(on) : d.ent[h].kind # "block" -> "arch"
          [] OTHER -> "unknown"
Resolution(d, org, evidence) == [name \in {d.ent[h].layer : h \in ToSet(d.list)} |-> Resolved(d, name, org, evidence)]

\* Where an entity goes, and as what: texts by what they say, then blocks and
\* strokes by what is near, the rest with its layer.
Side(d, e, role, titles, notes, context) ==
    LET promoted == role \in {"arch", "unknown"} /\ (Scored(e) \/ IsNearAnnotation(d, e, notes))
    IN  CASE IsTitleText(e) \/ IsTitleGraphic(e, titles) -> <<"aux", "aux">>
          [] IsRoomLabel(e) -> <<"arch", "space">>
          [] e.kind \in Texts /\ ~IsAnnotation(e, context) -> <<"aux", "aux">>
          [] e.kind \in Texts \union {"block"} /\ promoted -> <<"review", "mep">>
          [] e.kind \in Strokes /\ role # "arch" /\ promoted -> <<"review", role>>
          [] role \in {"mep", "unknown"} -> <<"review", role>>
          [] OTHER -> <<role, role>>

Sides(d, roles, titles, notes, context) ==
    [h \in ToSet(d.list) |-> Side(d, d.ent[h], roles[d.ent[h].layer], titles, notes, context)]
Split(d, org) ==
    Sides(d, Resolution(d, org, Evidence(d)), Places(d, IsTitleText),
          Places(d, LAMBDA e : IsAnnotation(e, HasPipeContext(d))), HasPipeContext(d))

------------------------------------------------------------------------------
(* The layout of a review                                                   *)

\* What the user has selected of the piping, and every annotation beside it.
FilterByHandles(list, handles) == FoldLeft(LAMBDA out, h : IF h \in handles THEN Append(out, h) ELSE out, <<>>, list)
PartOf(d, split, part) == FilterByHandles(d.list, {h \in ToSet(d.list) : split[h][1] = part})
AppendAnnotations(d, target, candidates) ==
    FoldLeft(LAMBDA out, h :
                 IF h \in ToSet(out) \/ ~IsAnnotation(d.ent[h], HasPipeContext(d)) THEN out ELSE Append(out, h),
             target, candidates)
Targets(d, mep, focus, active) ==
    IF focus # {} THEN AppendAnnotations(d, FilterByHandles(mep, focus), mep)
    ELSE IF active # {} THEN AppendAnnotations(d, FilterByHandles(mep, active), mep)
    ELSE mep

Separation(a, b) == Max({0, b[1] - a[2], a[1] - b[2]})
MiddleGap(a, b) == LET g == a[1] + a[2] - b[1] - b[2] IN IF g < 0 THEN -g ELSE g
First(list, Less(_, _)) ==
    FoldLeft(LAMBDA best, h : IF best = <<>> \/ Less(h, best[1]) THEN <<h>> ELSE best, <<>>, list)

\* For each element of the review the nearest of the architecture and the nearest
\* name of a room, for as many as the prompt has room for.
SpatialHints(d, arch, mep, split, most) ==
    LET Placed(list) == FilterByHandles(list, {h \in ToSet(list) : d.ent[h].at # <<>>})
        solid == Placed(arch)
        rooms == FilterByHandles(solid, {h \in ToSet(solid) : split[h][2] = "space"})
        placed == Placed(mep)
        Closest(h, list, Gap(_, _)) ==
            First(list, LAMBDA a, b : Gap(d.ent[h].at, d.ent[a].at) < Gap(d.ent[h].at, d.ent[b].at))
        Hint(h) == [mep |-> h, arch |-> Closest(h, solid, Separation), room |-> Closest(h, rooms, MiddleGap)]
    IN  IF solid = <<>> THEN <<>>
        ELSE [i \in 1..(IF Len(placed) < most THEN Len(placed) ELSE most) |-> Hint(placed[i])]

\* The roles of the layers are told by their names alone, those of the entities
\* by where the split has put them.
LayoutOf(d, org, split, arch, mep, most) ==
    [arch |-> arch, mep |-> mep,
     as |-> [h \in ToSet(mep) |-> split[h][2]],
     roles |-> [name \in {d.ent[h].layer : h \in ToSet(d.list)} |-> ClassifyLayer(name, d.layer[name], org)],
     hints |-> SpatialHints(d, arch, mep, split, most)]
PipeLayout(d, org, split, focus, active, most) ==
    LayoutOf(d, org, split, PartOf(d, split, "arch"), Targets(d, PartOf(d, split, "review"), focus, active), most)
==============================================================================
