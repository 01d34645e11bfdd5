-------------------------------- MODULE Patcher -------------------------------
(* DrawingPatcher.cs and HandleCadAction of SocketMessageHandler.cs: what a *)
(* command of the server makes of the drawing.  A fix is a record with only *)
(* the fields that its JSON has.  A drawing is the function `ents` from     *)
(* handles to entities, the handles that were erased (`gone`), the number   *)
(* of entities `made`, the names in its block table and, for a handle that  *)
(* is not in it, the one its digits are when they are read as a decimal     *)
(* number.  A turn is a multiple of 90 degrees.                             *)
LOCAL INSTANCE Integers
LOCAL INSTANCE Sequences
LOCAL INSTANCE FiniteSets
LOCAL INSTANCE TLC
LOCAL INSTANCE SequencesExt
LOCAL INSTANCE FiniteSetsExt

Has(fix, field) == field \in DOMAIN fix
Get(fix, field, default) == IF Has(fix, field) THEN fix[field] ELSE default
Creates(fix) == fix.type \in {"CREATE_ENTITY", "CREATE_TEXT", "CREATE_WIRE"}

ProposalLayerName == "AI_PROPOSAL"
TextKinds == {"text", "mtext", "leader"}

Sketched ==
    [kind |-> "line", pts |-> <<<<0, 0>>>>, size |-> 0, turn |-> 0, layer |-> ProposalLayerName,
     color |-> 256, text |-> "", linetype |-> "ByLayer", weight |-> 25, block |-> "",
     tags |-> <<>>, params |-> <<>>]

------------------------------------------------------------------------------
(* The drawing                                                              *)

\* A handle that the drawing does not know in hexadecimal is tried again as a
\* decimal number, which may be another entity; one that was erased is known.
ObjectOf(d, h) ==
    IF h \in DOMAIN d.ents \union d.gone THEN {h}
    ELSE IF h \in DOMAIN d.decimal THEN {d.decimal[h]} \intersect (DOMAIN d.ents \union d.gone)
    ELSE {}
\* Opening an erased object throws.
Opened(d, h) == ObjectOf(d, h) \intersect DOMAIN d.ents

Fails(d) == [ok |-> FALSE, d |-> d]
With(d, h, e) == [ok |-> TRUE, d |-> [d EXCEPT !.ents = (h :> e) @@ @]]
Erased(d, h) ==
    [d EXCEPT !.ents = [g \in DOMAIN @ \ {h} |-> @[g]], !.gone = @ \union {h}]
NextHandle(d) == <<"new", d.made + 1>>
Appended(d, e) == With([d EXCEPT !.made = @ + 1], NextHandle(d), e)

------------------------------------------------------------------------------
(* New entities                                                             *)

\* AutoCAD knows the colours 0 to 257.
Coloured(e, fix) == IF fix.color \in 0..257 THEN {[e EXCEPT !.color = fix.color]} ELSE {}

\* The first of its shapes for which a fix has the data; a block must be in the
\* table.  Nothing else is asked of the fields, the type is not looked at.
ShapeOf(d, fix, base) ==
    IF Get(fix, "vertices", <<>>) # <<>> THEN {[Sketched EXCEPT !.kind = "polyline", !.pts = fix.vertices]}
    ELSE IF Has(fix, "center") /\ Has(fix, "radius")
    THEN {[Sketched EXCEPT !.kind = IF Has(fix, "arc") THEN "arc" ELSE "circle",
                           !.pts = <<fix.center>>, !.size = fix.radius]}
    ELSE IF Has(fix, "start") /\ Has(fix, "end") THEN {[Sketched EXCEPT !.pts = <<fix.start, fix.end>>]}
    ELSE IF Has(fix, "center") /\ Has(fix, "major")
    THEN {[Sketched EXCEPT !.kind = "ellipse", !.pts = <<fix.center>>, !.size = fix.major]}
    ELSE IF Get(fix, "text", "") # ""
    THEN {[Sketched EXCEPT !.kind = "text", !.pts = <<base>>, !.text = fix.text, !.size = Get(fix, "height", 150)]}
    ELSE IF Get(fix, "block", "") \in d.blocks
    THEN {[Sketched EXCEPT !.kind = "block", !.pts = <<base>>, !.block = fix.block, !.size = 1]}
    ELSE {}

Painted(e, coloured) == IF coloured = {} THEN e ELSE CHOOSE f \in coloured : TRUE
Created(d, fix, shapes) ==
    IF shapes = {} THEN Fails(d)
    ELSE LET e == [(CHOOSE s \in shapes : TRUE) EXCEPT !.layer = Get(fix, "layer", ProposalLayerName)] IN
         Appended(d, IF Has(fix, "color") THEN Painted(e, Coloured(e, fix)) ELSE e)
ApplyCreateEntity(d, fix) == Created(d, fix, ShapeOf(d, fix, Get(fix, "base", <<0, 0>>)))

------------------------------------------------------------------------------
(* Changes: the set holds the changed entity, or nothing when the type of   *)
(* the entity or the fields of the fix do not allow it                      *)

When(condition, e) == IF condition THEN {e} ELSE {}

ApplyAttribute(e, fix) ==
    IF e.kind = "block" /\ Has(fix, "tag") /\ fix.tag \in DOMAIN e.tags
    THEN {[e EXCEPT !.tags[fix.tag] = Get(fix, "value", "")]} ELSE {}

Weights == {0, 5, 9, 13, 15, 18, 20, 25, 30, 35, 40, 50, 53, 60, 70, 80, 90, 100, 106, 120,
            140, 158, 200, 211}
Off(a, b) == IF a < b THEN b - a ELSE a - b
\* The nearest line weight of AutoCAD, the thinner of two (a weight of the fix
\* is given in hundredths of a millimetre).
NearestWeight(w0) ==
    Min({a \in Weights : \A b \in Weights : Off(a, w0) <= Off(b, w0)})

Moved(e, by) == [e EXCEPT !.pts = [i \in DOMAIN @ |-> <<@[i][1] + by[1], @[i][2] + by[2]>>]]

Turned(p, b, quarters) ==
    CASE quarters = 0 -> p
      [] quarters = 1 -> <<b[1] - (p[2] - b[2]), b[2] + (p[1] - b[1])>>
      [] quarters = 2 -> <<b[1] - (p[1] - b[1]), b[2] - (p[2] - b[2])>>
      [] quarters = 3 -> <<b[1] + (p[2] - b[2]), b[2] - (p[1] - b[1])>>
\* Without a base point the drawing's origin is the centre.
ApplyRotate(e, fix) ==
    When(Has(fix, "angle"),
         [e EXCEPT !.turn = (@ + fix.angle) % 360,
                   !.pts = [i \in DOMAIN @ |-> Turned(@[i], Get(fix, "base", <<0, 0>>), (fix.angle \div 90) % 4)]])

\* A block takes the factor for its own; everything else grows from the base.
ApplyScale(e, fix) ==
    LET b == Get(fix, "base", <<0, 0>>) k == fix.scale IN
    IF ~Has(fix, "scale") THEN {}
    ELSE IF e.kind = "block" THEN {[e EXCEPT !.size = k]}
    ELSE {[e EXCEPT !.size = @ * k,
                    !.pts = [i \in DOMAIN @ |-> <<b[1] + k * (@[i][1] - b[1]), b[2] + k * (@[i][2] - b[2])>>]]}

\* One axis of a rectangle from lo to hi: its new size from the fixed edge, or its
\* shift; a vertex on neither edge stays.
Stretched(a, lo, hi, low, size, delta) ==
    IF a = hi THEN IF low THEN a ELSE IF size > 0 THEN lo + size ELSE hi + delta
    ELSE IF a = lo /\ low THEN IF size > 0 THEN hi - size ELSE lo + delta ELSE a
Lowest(e, k) == Min({p[k] : p \in ToSet(e.pts)})
Highest(e, k) == Max({p[k] : p \in ToSet(e.pts)})
Resized(e, fix, by) ==
    [e EXCEPT !.pts = [i \in DOMAIN @ |->
        <<Stretched(@[i][1], Lowest(e, 1), Highest(e, 1), fix.side = "left", Get(fix, "width", 0), by[1]),
          Stretched(@[i][2], Lowest(e, 2), Highest(e, 2), fix.side = "bottom", Get(fix, "height", 0), by[2])>>]]
Differs(f, e) == When(f # e, f)
ApplyRectangleResize(e, fix) ==
    IF \/ e.kind # "polyline" \/ Len(e.pts) < 4
       \/ \E k \in 1..2 : Lowest(e, k) = Highest(e, k) THEN {}
    ELSE Differs(Resized(e, fix, Get(fix, "delta", <<0, 0>>)), e)

ApplyGeometry(e, fix) ==
    CASE e.kind = "line" ->
            When(Has(fix, "start") \/ Has(fix, "end"),
                 [e EXCEPT !.pts = <<Get(fix, "start", @[1]), Get(fix, "end", @[2])>>])
      [] e.kind \in {"circle", "arc"} ->
            When(Has(fix, "center") \/ Has(fix, "radius") \/ e.kind = "arc",
                 [e EXCEPT !.pts = <<Get(fix, "center", @[1])>>, !.size = Get(fix, "radius", @)])
      [] e.kind = "polyline" ->
            When(Get(fix, "vertices", <<>>) # <<>> /\ e.pts # <<>>,
                 [e EXCEPT !.pts = [i \in DOMAIN @ |-> IF i \in DOMAIN fix.vertices THEN fix.vertices[i] ELSE @[i]]])
      [] OTHER -> {}

\* The first parameter with the wanted name must be writable and be able to read
\* the value; a later one of that name is not tried.
ApplyDynamicBlockParam(e, fix) ==
    IF ~Has(fix, "param") \/ e.kind # "block" THEN {}
    ELSE {[e EXCEPT !.params[i].value = fix.value] :
            i \in {i \in DOMAIN e.params :
                    /\ fix.param \in e.params[i].names /\ \A j \in 1..(i - 1) : fix.param \notin e.params[j].names
                    /\ ~e.params[i].readonly /\ Get(fix, "value", "") \in e.params[i].takes}}

\* What a fix that changes an entity in place makes of it.
Edited(e, fix) ==
    CASE fix.type = "ATTRIBUTE" -> ApplyAttribute(e, fix)
      [] fix.type = "LAYER" -> IF Has(fix, "layer") THEN {[e EXCEPT !.layer = fix.layer]} ELSE {}
      [] fix.type = "TEXT_CONTENT" ->
            IF Has(fix, "text") /\ e.kind \in TextKinds THEN {[e EXCEPT !.text = fix.text]} ELSE {}
      [] fix.type = "TEXT_HEIGHT" ->
            IF Has(fix, "height") /\ e.kind \in TextKinds THEN {[e EXCEPT !.size = fix.height]} ELSE {}
      [] fix.type = "COLOR" -> IF Has(fix, "color") THEN Coloured(e, fix) ELSE {}
      [] fix.type = "LINETYPE" -> IF Has(fix, "linetype") THEN {[e EXCEPT !.linetype = fix.linetype]} ELSE {}
      [] fix.type = "LINEWEIGHT" ->
            IF Has(fix, "weight") THEN {[e EXCEPT !.weight = NearestWeight(fix.weight)]} ELSE {}
      [] fix.type = "MOVE" -> {Moved(e, Get(fix, "delta", <<0, 0>>))}
      [] fix.type = "ROTATE" -> ApplyRotate(e, fix)
      [] fix.type = "SCALE" -> ApplyScale(e, fix)
      [] fix.type = "GEOMETRY" -> ApplyGeometry(e, fix)
      [] fix.type \in {"RECTANGLE_RESIZE", "STRETCH_RECT"} -> ApplyRectangleResize(e, fix)
      [] fix.type = "DYNAMIC_BLOCK_PARAM" -> ApplyDynamicBlockParam(e, fix)
      [] OTHER -> {}

\* The new reference takes the place of the old one, under a handle of its own
\* and without its colour and attributes.
ApplyBlockReplace(d, h, fix) ==
    LET e == d.ents[h] IN
    IF e.kind = "block" /\ Get(fix, "block", "") \in d.blocks
    THEN Appended(Erased(d, h), [e EXCEPT !.block = fix.block, !.color = 256, !.tags = <<>>, !.params = <<>>])
    ELSE Fails(d)

Written(d, h, edited) == IF edited = {} THEN Fails(d) ELSE With(d, h, CHOOSE e \in edited : TRUE)
\* h is the handle of an entity that could be opened.
ApplyByType(d, h, fix) ==
    IF Creates(fix) THEN ApplyCreateEntity(d, fix)
    ELSE IF fix.type = "BLOCK_REPLACE" THEN ApplyBlockReplace(d, h, fix)
    ELSE Written(d, h, Edited(d.ents[h], fix))

------------------------------------------------------------------------------
(* Fixes                                                                    *)

\* (mutant) a dangerous deletion is carried out
FixedAnyTier(d, h, fix) ==
    IF fix.type = "DELETE" THEN [ok |-> TRUE, d |-> Erased(d, h)] ELSE ApplyByType(d, h, fix)

\* A dangerous fix leaves the original as it is: a note says what is to be
\* deleted, or a red copy on a layer of its own shows the change.
AddProposalDeleteNote(d, h) ==
    Appended(d, [Sketched EXCEPT !.kind = "mtext", !.pts = <<d.ents[h].pts[1]>>, !.text = "delete", !.size = 150, !.color = 1])
OrNothing(d, result) == IF result.ok THEN result ELSE Fails(d)
ApplyDangerZoneAsProposal(d, h, fix) ==
    IF fix.type = "DELETE" THEN AddProposalDeleteNote(d, h)
    ELSE OrNothing(d, ApplyByType(Appended(d, [d.ents[h] EXCEPT !.layer = ProposalLayerName, !.color = 1]).d,
                                  NextHandle(d), fix))

\* One fix with the tier it has; an unknown or an erased handle only serves a
\* creation that nothing has to be opened for.
FixOpened(d, opened, fix) ==
    IF opened = {} THEN Fails(d)
    ELSE LET h == CHOOSE g \in opened : TRUE IN
         IF Get(fix, "tier", 1) >= 4 /\ ~Creates(fix) THEN ApplyDangerZoneAsProposal(d, h, fix)
         ELSE IF fix.type = "DELETE" THEN [ok |-> TRUE, d |-> Erased(d, h)]
         ELSE ApplyByType(d, h, fix)
ApplyFix(d, handle, fix) ==
    IF ObjectOf(d, handle) = {} THEN IF Creates(fix) THEN ApplyCreateEntity(d, fix) ELSE Fails(d)
    ELSE FixOpened(d, Opened(d, handle), fix)

\* Several handles in one transaction, each once.  Only the deletion looks at the
\* tier; what cannot be opened or changed stays as it is.
InBulk(d, handle, fix) ==
    IF Opened(d, handle) = {} THEN Fails(d)
    ELSE LET h == CHOOSE g \in Opened(d, handle) : TRUE IN
         IF fix.type # "DELETE" THEN ApplyByType(d, h, fix)
         ELSE IF Get(fix, "tier", 1) >= 4 THEN AddProposalDeleteNote(d, h)
         ELSE [ok |-> TRUE, d |-> Erased(d, h)]
Distinct(handles) ==
    FoldLeft(LAMBDA seen, h : IF h \in ToSet(seen) THEN seen ELSE Append(seen, h), <<>>, handles)
ApplyBulkFix(d, fix) == FoldLeft(LAMBDA acc, h : InBulk(acc, h, fix).d, d, Distinct(fix.targets))

\* CAD_ACTION: without a handle and without targets the fix draws, whatever its
\* type is.  The result names the entity that was drawn.
Drew(d, result) == result @@ [handles |-> IF result.ok THEN {NextHandle(d)} ELSE {}]
HandleCadAction(d, command) ==
    LET fix == command.fix bulk == Get(fix, "targets", <<>>) # <<>> IN
    IF Creates(fix) \/ (~bulk /\ ~Has(command, "handle")) THEN Drew(d, ApplyCreateEntity(d, fix))
    ELSE IF bulk THEN [d |-> ApplyBulkFix(d, fix), handles |-> {}]
    ELSE [d |-> ApplyFix(d, command.handle, fix).d, handles |-> {}]
==============================================================================
