------------------------------ MODULE ChatScenes -------------------------------
(* Drawings and chat messages for MCAnalysis, over the handles of its       *)
(* drawing.  A number that is no handle in hexadecimal may be one in        *)
(* decimal: `note` is l3, if that is in the drawing.                        *)
EXTENDS TLC

CONSTANTS l1, l2, l3, v, w, note

Entity == [kind |-> "line", pts |-> <<<<0, 0>>, <<100, 0>>>>, size |-> 0, turn |-> 0, layer |-> "0", color |-> 256,
           text |-> "", linetype |-> "ByLayer", weight |-> 25, block |-> "", tags |-> <<>>, params |-> <<>>]
Wire(a, b) == [Entity EXCEPT !.pts = <<a, b>>, !.layer = "E-WIRE"]
Circle(p, r) == [Entity EXCEPT !.kind = "circle", !.pts = <<p>>, !.size = r]
Text(p, text) == [Entity EXCEPT !.kind = "text", !.pts = <<p>>, !.text = text, !.size = 100]
Block(p, name) == [Entity EXCEPT !.kind = "block", !.pts = <<p>>, !.block = name, !.size = 1]
Rods(p, r) == [Circle(p, r) EXCEPT !.layer = "E-GRND"]
Drawing(a, b, c, d, e) ==
    [ents |-> (l1 :> a @@ l2 :> b @@ l3 :> c @@ v :> d @@ w :> e), gone |-> {}, made |-> 0,
     blocks |-> {"VALVE", "GRND_ROD"}, decimal |-> note :> l3]

\* Two rods of blocks, with a wire to each and a text that counts them.
RodBlocksScene ==
    Drawing(Wire(<<0, 0>>, <<500, 600>>), Wire(<<3000, 0>>, <<3000, 900>>), Text(<<1000, 500>>, "x2EA"),
            Block(<<0, 0>>, "GRND_ROD"), Block(<<3000, 0>>, "GRND_ROD"))
\* Three rods of circles, one of two circles, and a text of another count.
RodCirclesScene ==
    Drawing(Rods(<<0, 0>>, 100), Rods(<<0, 0>>, 60), Text(<<900, 200>>, "E3"), Rods(<<2000, 0>>, 80), Rods(<<4000, 50>>, 80))
\* A symbol of three strokes between a block and a wall.
SymbolScene ==
    Drawing(Wire(<<0, 0>>, <<100, 0>>), [Wire(<<100, 0>>, <<100, 100>>) EXCEPT !.kind = "arc", !.size = 50],
            Circle(<<100, 100>>, 40), [Block(<<400, 100>>, "VALVE") EXCEPT !.tags = [SIZE |-> "20A"]],
            [Wire(<<0, 5000>>, <<8000, 5000>>) EXCEPT !.layer = "A-WALL"])
\* A rectangle, a pipe, a note, a block with a parameter and a text on a wall.
MixedScene ==
    Drawing([Entity EXCEPT !.kind = "polyline", !.pts = <<<<0, 0>>, <<400, 0>>, <<400, 200>>, <<0, 200>>>>],
            [Wire(<<400, 0>>, <<900, 0>>) EXCEPT !.layer = "PIPE"], Text(<<500, 300>>, "note"),
            [Block(<<700, 200>>, "VALVE") EXCEPT !.tags = [SIZE |-> "20A"],
                !.params = <<[names |-> {"width"}, readonly |-> TRUE, takes |-> {"9"}, value |-> "5"],
                             [names |-> {"height"}, readonly |-> FALSE, takes |-> {"9"}, value |-> "5"]>>],
            [Text(<<0, 900>>, "wall") EXCEPT !.layer = "A-WALL", !.kind = "mtext"])

------------------------------------------------------------------------------
Request(domain, scene, words, selected) ==
    [domain |-> domain, by |-> "chat", scene |-> scene, words |-> words, selected |-> selected, colors |-> {}, view |-> <<>>,
     answer |-> {}, again |-> {}, length |-> 0, small |-> {}, fixes |-> <<>>, count |-> {}, named |-> {},
     batch |-> <<>>, move |-> {}]
Started(requests) == {[r EXCEPT !.by = "start"] : r \in requests}
Modify(fields) == [command |-> "modify"] @@ fields
Draw(fields) == [command |-> "draw"] @@ fields
Fix(h, auto) == [handle |-> h, type |-> auto.type, auto |-> <<auto>>]
New(fields) == [type |-> "CREATE_ENTITY"] @@ fields

\* The fast path: deletions and colours, with and without a selection.
FastRequests ==
    {Request(d, MixedScene, words, sel) : d \in {"pipe", "elec"}, words \in {{"delete"}}, sel \in {<<>>, <<l1, v>>, <<note>>}}
    \union {[Request("fire", MixedScene, {"draw", "paint"}, sel) EXCEPT !.colors = {1, 5},
                !.answer = {Draw([shape |-> "line"])}] : sel \in {<<>>, <<l2>>}}

\* The general parser: shapes, and changes that a panel shows.
Shapes == {[shape |-> "line", direction |-> "left", size |-> 300], [shape |-> "rectangle", width |-> 200],
           [shape |-> "arc"], [shape |-> "ellipse"], [shape |-> "text", content |-> "hi"],
           [shape |-> "block", block |-> [name |-> "valve", like |-> {"VALVE"}]],
           [shape |-> "block", block |-> [name |-> "PUMP", like |-> {}], color |-> 3]}
Changes == {[action |-> "LAYER", layer |-> "NEW"], [action |-> "MOVE", delta |-> <<10, 20>>], [action |-> "ROTATE", angle |-> 90],
            [action |-> "SCALE", scale |-> 2], [action |-> "DELETE"], [action |-> "TEXT_CONTENT", text |-> "new"],
            [action |-> "RECTANGLE_RESIZE", side |-> "left", width |-> 300], [action |-> "COLOR", color |-> 900],
            [action |-> "LINEWEIGHT", weight |-> 31], [action |-> "ATTRIBUTE", tag |-> "SIZE", value |-> "25A"],
            [action |-> "TEXT_HEIGHT", height |-> 200], [action |-> "LINETYPE"], [action |-> "CREATE_WIRE"],
            [action |-> "STRETCH"]}
ParserRequests ==
    {[Request("arch", MixedScene, {"draw"}, <<>>) EXCEPT !.answer = {Draw(s)}] : s \in Shapes}
    \union {[Request("fire", MixedScene, {"draw"}, <<v>>) EXCEPT !.answer = {Draw(s)}, !.view = <<50, 50>>] : s \in Shapes}
    \union {[Request("elec", MixedScene, {"modify"}, sel) EXCEPT !.answer = {Modify(c)}] : c \in Changes, sel \in {<<l1, l3, v>>}}
    \union {[Request("fire", MixedScene, {"modify"}, <<l2>>) EXCEPT !.again = {Modify(c)}, !.fixes = <<Fix(l2, [type |-> "DELETE"])>>] :
                c \in {[action |-> "DELETE"], [action |-> "LAYER", layer |-> "NEW"]}}

\* Earth rods and outlets.
RodRequest(scene, words, sel, count) == [Request("elec", scene, words \union {"rod"}, sel) EXCEPT !.count = count]
ElecRequests ==
    {RodRequest(RodBlocksScene, {"replace"}, sel, {1}) : sel \in {<<>>, <<l1, v>>, <<l1, l2, v, w>>}}
    \union {RodRequest(RodCirclesScene, {"replace"}, sel, {n}) : n \in {1, 2}, sel \in {<<>>, <<l1, l2, v>>}}
    \union {RodRequest(RodBlocksScene, {"remove"}, <<>>, {}), RodRequest(MixedScene, {"remove"}, <<>>, {}),
            [RodRequest(RodBlocksScene, {"replace"}, <<>>, {}) EXCEPT !.batch = <<New([center |-> <<0, 0>>, radius |-> 9]), New([base |-> <<5, 5>>])>>],
            [RodRequest(MixedScene, {}, <<>>, {}) EXCEPT !.batch = <<New([start |-> <<0, 0>>, end |-> <<9, 9>>])>>, !.colors = {3}],
            [Request("elec", MixedScene, {"outlet"}, <<l1>>) EXCEPT !.count = {1}]}
    \union {[Request("elec", MixedScene, {"layer"}, sel) EXCEPT !.named = {"E-NEW"}] : sel \in {<<>>, <<l1, l2, note>>}}

\* Fixes that an agent offers: some for the same element, one for two of them, one
\* for an element under the name of its block, one for none.
Offers ==
    <<Fix(l1, [type |-> "LAYER", layer |-> "NEW"]), Fix(l1, [type |-> "LAYER", layer |-> "OTHER"]),
      Fix("VALVE", [type |-> "MOVE", delta |-> <<10, 0>>])>>
MoreOffers ==
    <<Fix(v, [type |-> "MOVE", delta |-> <<10, 0>>, targets |-> <<v, w>>]), Fix(l2, [type |-> "COLOR", color |-> 2, targets |-> <<l2>>]),
      Fix(note, [type |-> "GEOMETRY", start |-> <<1, 1>>])>>
BlockOffers ==
    <<Fix(v, [type |-> "BLOCK_REPLACE", block |-> "GRND_ROD"]), Fix(v, [type |-> "DYNAMIC_BLOCK_PARAM", param |-> "height", value |-> "9"]),
      Fix(w, [type |-> "GEOMETRY", tier |-> 1, center |-> <<1, 1>>])>>
AgentRequests ==
    {[Request(d, MixedScene, {}, <<l1, v>>) EXCEPT !.fixes = f] :
        d \in {"elec", "pipe"}, f \in {Offers, MoreOffers, BlockOffers}}
    \union {[Request("fire", MixedScene, {}, <<l2, v>>) EXCEPT !.move = {<<0, 50>>}]}

\* The piping agent: patterns, connections, symbols.
PipeRequests ==
    {[Request("pipe", MixedScene, {"draw", k}, <<l2>>) EXCEPT !.length = 800] :
        k \in {"meter", "tee", "valve", "arrow", "reducer", "cap"}}
    \union Started({Request("pipe", MixedScene, {"draw", k}, <<>>) :
        k \in {"riser", "sleeve", "alarm", "seal", "hanger", "label", "run", "connect"}})
    \union {Request("pipe", SymbolScene, {"recommend"}, <<l1>>), Request("pipe", SymbolScene, {"connect"}, <<l1, w>>)}
    \union Started({Request("pipe", SymbolScene, {"delete", "modify"}, sel) : sel \in {<<l1>>, <<v>>, <<l1, v>>}})
    \union {[Request("pipe", MixedScene, {"modify"}, <<l1, l2>>) EXCEPT !.small = {Modify(c)}] :
        c \in {[action |-> "ROTATE", angle |-> 180], [action |-> "SCALE", scale |-> 3], [action |-> "MOVE", delta |-> <<1, 1>>]}}

MCRequests == FastRequests \union ParserRequests \union ElecRequests \union AgentRequests \union PipeRequests
==============================================================================
