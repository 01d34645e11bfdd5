------------------------------ MODULE MCAnalysis ------------------------------
EXTENDS Analysis

CONSTANTS l1, l2, l3, v, w, note

\* A drawing in two chunks, and a smaller one that needs none.
MCParts == <<<<<<l1, v, w>>, <<l2, l3>>>>, <<<<l1, l2>>>>>>

------------------------------------------------------------------------------
\* What is found of rules: nothing at all; a little; a table of contents alone.
Nothing == [finds |-> [q \in {} |-> <<>>], uploads |-> {}, listing |-> {}, hint |-> <<>>, titled |-> <<>>, shown |-> {},
            words |-> 0, own |-> <<"own", 1>>, asks |-> <<>>, extra |-> <<>>, judged |-> [d \in {} |-> 0], missing |-> <<>>,
            standard |-> "", ranks |-> <<>>, glossary |-> FALSE]
Little == [Nothing EXCEPT !.finds = <<"own", 1>> :> <<<<"kcs", 1>>, <<"kcs", 2>>>>]
Contents == [Nothing EXCEPT !.titled = <<"GAS">>, !.listing = {<<"kgs", 1>>}, !.finds = <<"system", "GAS">> :> <<<<"kgs", 1>>>>]
Generally == [Contents EXCEPT !.finds = <<"general", 1>> :> <<<<"kgs", 1>>, <<"kcs", 3>>, <<"spec", 1>>, <<"kcs", 3>>>>,
                              !.uploads = {"spec"}]

Chunks(doc, from, to) == [i \in 1..(to - from + 1) |-> <<doc, from + i - 1>>]
\* All the systems, and more equipment and more rules than there is room for.
Plenty == [Nothing EXCEPT !.titled = <<"HVAC", "FIRE">>, !.shown = {"GAS", "DRAIN", "FIRE", "WATER", "HVAC"}, !.words = 8,
              !.uploads = {"spec"}, !.listing = {<<"kgs", 1>>}, !.judged = ("kgs" :> 90 @@ "spec" :> 10 @@ "kds" :> 0),
              !.finds = (<<"system", "GAS">> :> Chunks("kgs", 1, 9) @@ <<"system", "DRAIN">> :> Chunks("kcs", 1, 6)
                         @@ <<"system", "HVAC">> :> Chunks("kds", 1, 5) @@ <<"words", 6>> :> Chunks("spec", 1, 3) \o Chunks("kds", 1, 3)
                         @@ <<"core", 1>> :> Chunks("kcs", 20, 25))]
\* A hint, documents that the language model judges, and queries that it misses.
Judging == [Nothing EXCEPT !.hint = <<"WATER">>, !.titled = <<"GAS">>, !.shown = {"DRAIN"}, !.words = 4, !.uploads = {"spec"},
              !.listing = {<<"kcs", 9>>}, !.judged = ("kcs" :> 0 @@ "kds" :> 30 @@ "spec" :> 20),
              !.missing = <<<<"more", 1>>, <<"core", 1>>, <<"more", 2>>, <<"more", 3>>>>,
              !.finds = (<<"system", "WATER">> :> Chunks("kcs", 1, 3) @@ <<"system", "DRAIN">> :> Chunks("kds", 1, 2) \o Chunks("kcs", 3, 3)
                         @@ <<"words", 2>> :> Chunks("kcs", 9, 9) \o Chunks("spec", 1, 1) @@ <<"core", 2>> :> Chunks("ks", 1, 1)
                         @@ <<"more", 1>> :> Chunks("ks", 1, 2) \o Chunks("kcs", 3, 3) @@ <<"more", 2>> :> Chunks("kds", 7, 7))]

\* A standard that does not answer every query, and more than is handed on.
Standard == [Nothing EXCEPT !.standard = "kec", !.uploads = {"spec"}, !.asks = <<<<"ask", 1>>, <<"own", 1>>, <<"ask", 2>>>>,
               !.finds = (<<"own", 1>> :> Chunks("kcs", 1, 1) \o Chunks("kec", 1, 7) @@ <<"ask", 1>> :> Chunks("kcs", 2, 3)
                          @@ <<"ask", 2>> :> Chunks("spec", 1, 2) \o Chunks("kec", 7, 9))]
\* More than there is room for, by the reranker's order or without one.
Candidates == [Nothing EXCEPT !.asks = <<<<"ask", 1>>, <<"ask", 2>>, <<"ask", 1>>>>, !.uploads = {"spec"},
                 !.finds = (<<"ask", 1>> :> Chunks("nfsc", 1, 6) @@ <<"ask", 2>> :> Chunks("spec", 1, 2) \o Chunks("nfsc", 5, 7)
                            @@ <<"fire", 3>> :> Chunks("nfsc", 8, 8) @@ <<"arch", 10>> :> Chunks("law", 2, 2)),
                 !.extra = <<<<"extra", 1>>, <<"extra", 2>>>>]
Ranks == [c \in {<<"nfsc", n>> : n \in 1..8} \union {<<"spec", n>> : n \in 1..2} |-> IF c[1] = "spec" THEN 9 ELSE c[2]]

------------------------------------------------------------------------------
\* Nothing in it is remarkable: three runs.
Plain == [touch |-> {}, near |-> {}, noted |-> {}, miss |-> {}, feet |-> {}, over |-> {}, piled |-> {},
          weak |-> {}, bare |-> {}, hidden |-> {}, straight |-> TRUE, measured |-> {}, typo |-> FALSE,
          traces |-> {}, figure |-> FALSE, search |-> Little]

\* A gas meter, a note, a pipe with a hanger in one picture; and what shows little.
Figure == [Plain EXCEPT !.figure = TRUE, !.search = Plenty, !.touch = {{l1, l2}},
              !.traces = {<<l1, "mep">>, <<l1, "support">>, <<l1, "gas">>, <<v, "gas">>, <<v, "meter">>, <<w, "note">>}]
Scheme == [Plain EXCEPT !.search = Judging, !.near = {{l1, l3}},
              !.traces = {<<l1, "pipe">>, <<l1, "material">>, <<l1, "slope">>, <<l2, "symbol">>, <<l2, "mep">>,
                          <<v, "tank">>, <<v, "spacing">>, <<v, "value">>, <<v, "water">>}]

MCPlans == {Figure, Scheme,
    [Plain EXCEPT !.touch = {{l1, l2}, {l2, l3}}, !.over = {{v, w}}, !.search = Generally],
    [Plain EXCEPT !.touch = {{l1, l2}, {l1, l3}}, !.piled = {{v, w}}, !.over = {{v, w}}],
    [Plain EXCEPT !.near = {{l1, l2}, {l1, l3}}, !.hidden = {l2}, !.search = Contents],
    [Plain EXCEPT !.near = {{l1, l2}, {l1, l3}}, !.straight = FALSE, !.typo = TRUE],
    [Plain EXCEPT !.near = {{l1, l2}}, !.noted = {{l1, l2}}, !.feet = {<<l3, v>>}],
    [Plain EXCEPT !.touch = {{l2, l3}}, !.miss = {<<l2, l1>>}, !.weak = {l1}],
    [Plain EXCEPT !.weak = {l1, l2}, !.near = {{l1, l2}}, !.hidden = {l3}],
    [Plain EXCEPT !.touch = {{l1, l3}}, !.miss = {<<l1, l2>>, <<l2, l3>>},
                  !.measured = {<<l1, <<"size", 95>>>>, <<l1, <<"size", 98>>>>, <<l2, <<"insulation", 60>>>>}],
    [Plain EXCEPT !.measured = {<<l1, <<"slope", 90>>>>, <<l2, <<"size", 98>>>>}, !.hidden = {l1, l3},
                  !.bare = {l1}] }

Claim(eq, type, conf) ==
    [Finding(eq, type, conf, <<eq>>) EXCEPT !.from = "llm"]
    @@ [cites |-> {}, says |-> {}, values |-> {}, odd |-> FALSE, reason |-> 0]

Once(claims) == [of |-> "ALL", long |-> FALSE, parts |-> <<claims>>]
InParts(parts) == [of |-> "ALL", long |-> TRUE, parts |-> parts]
Silence == [of |-> "ALL", long |-> FALSE, parts |-> <<>>]

\* Claims with what they speak of, the values they give and the length of a reason.
Of4(eq, type, cites, says, values, reason) ==
    [Claim(eq, type, Unrated) EXCEPT !.cites = cites, !.says = says, !.values = values, !.reason = reason]
Both == {"current", "required"}

FigureAnswers == {
    \* the reason that does not fit is the longer one, and the other way round
    InParts(<<<<[Of4(l1, "hanger", {"gas"}, {}, Both, 5) EXCEPT !.rel = {l1}]>>, <<Of4(l1, "hanger", {"gas"}, {}, {}, 9)>>>>),
    InParts(<<<<[Of4(l1, "hanger", {"gas"}, {}, Both, 9) EXCEPT !.rel = {l1}], Of4(l1, "size", {"rule"}, {}, {}, 3)>>,
              <<Of4(l1, "hanger", {"gas"}, {}, {}, 5)>>, <<>>>>),
    Once(<<Of4(v, "distance", {"gas"}, {"meter"}, Both, 1), Of4(l2, "distance", {"gas"}, {"meter"}, Both, 1),
           Of4(w, "size", {"rule"}, {}, Both, 1), Of4(note, "distance", {"fire"}, {}, {}, 1)>>),
    \* one call that says it twice
    Once(<<Of4(l1, "size", {"rule"}, {}, Both, 1), Of4(l1, "size", {"rule"}, {}, {}, 2)>>),
    [Once(<<Of4(l1, "size", {"gas"}, {}, {"current"}, 1), Of4(v, "distance", {"gas"}, {"meter"}, Both, 1)>>) EXCEPT !.of = l1] }

SchemeAnswers == {
    Once(<<Of4(l1, "hanger", {"rule"}, {"support"}, Both \union {"length"}, 1), Of4(l2, "hanger", {"rule"}, {"support"}, Both \union {"length"}, 1),
           Of4(v, "hanger", {"water"}, {}, {}, 1)>>),
    Once(<<Of4(l1, "slope", {"rule"}, {}, Both, 1), Of4(l2, "slope", {"rule"}, {}, {}, 1), Of4(v, "distance", {"water"}, {"tank"}, Both, 1),
           [Of4(l1, "size", {"rule"}, {}, Both, 1) EXCEPT !.odd = TRUE], Of4(l1, "distance", {"rule"}, {"height"}, Both, 1)>>),
    InParts(<<<<Of4(l1, "gap", {"rule"}, {}, Both, 4), Of4(v, "distance", {"fire"}, {}, Both, 7)>>,
              <<Of4(v, "distance", {"water"}, {}, Both, 4), Of4(l1, "gap", {"rule"}, {}, Both, 4)>>>>) }

PipeAnswers(plan) ==
    {Silence} \union
    CASE plan = Figure -> FigureAnswers
      [] plan = Scheme -> SchemeAnswers
      [] plan.near # {} -> {Once(<<Claim(l2, "distance", 0), Claim(l1, "gap", 85)>>)}
      [] plan.measured # {} -> {Once(<<Claim(l1, "size", 85)>>), Once(<<Claim(l1, "size", 40)>>)}
      [] OTHER -> {}

------------------------------------------------------------------------------
\* An electrical drawing: three circuits of one wire, and no circles or texts.
Ordinary == [meet |-> {}, gap |-> {}, tee |-> {}, arcs |-> {}, noted |-> {}, feet |-> {}, close |-> {},
             lap |-> {}, twin |-> {}, axial |-> {}, dashed |-> {}, outlets |-> {}, live |-> {},
          panels |-> {}, devices |-> {}, measured |-> {}, over |-> {}, length |-> 10, longest |-> 35, most |-> 1,
          layered |-> Lines, valued |-> {}, labelled |-> {}, closed |-> {}, banned |-> {}, short |-> {}, boxed |-> {}, traces |-> {},
          circles |-> {}, says |-> <<>>, refs |-> <<>>, at |-> [h \in Lines \union Blocks |-> 0],
          radius |-> [h \in Lines \union Blocks |-> 10], wired |-> {}, housed |-> {}, astray |-> {},
          marked |-> {}, faint |-> {}, core |-> {}, rods |-> {}, search |-> Little]
S(h) == <<h, "start">>
E(h) == <<h, "end">>
Word(words) == [words |-> words, length |-> 0, tag |-> 0, many |-> 0, height |-> 0, strands |-> 0, wants |-> 0]
Rod(length, tag, many) == [Word({"rod"}) EXCEPT !.length = length, !.tag = tag, !.many = many]
PlacedAt(a, b, c, d, e) == l1 :> a @@ l2 :> b @@ l3 :> c @@ v :> d @@ w :> e
Far4 == PlacedAt(0, 100, 200, 300, 400)
Arch(text, place) == [Ordinary EXCEPT !.refs = <<note>>, !.says = note :> text, !.at = note :> place @@ Far4]

WirePlans == {
    \* one circuit, of a panel and two devices, which is too long
    [Ordinary EXCEPT !.search = Standard, !.meet = {{E(l1), S(l2)}}, !.tee = {<<l3, l1>>}, !.panels = {v}, !.devices = {w},
                  !.feet = {<<S(l1), v, 1>>, <<E(l2), w, 2>>, <<S(l3), w, 2>>},
                  !.live = {l1}, !.longest = 25, !.most = 0],
    \* two wires with gaps to a third, one of them bridged by a note
    [Ordinary EXCEPT !.gap = {{E(l1), S(l2)}, {E(l2), S(l3)}}, !.noted = {{l2, l3}}, !.outlets = {l1, l2, l3}],
    \* dashed wires, an arc, and a device beside them
    [Ordinary EXCEPT !.gap = {{E(l1), S(l2)}, {E(l1), S(l3)}}, !.dashed = {l1, l2}, !.arcs = {{l1, l3}},
                  !.search = Nothing, !.devices = {v, w}, !.close = {<<l1, v>>}, !.feet = {<<E(l3), w, 1>>}, !.over = {{v, w}}],
    \* grounding wires over each other, two of them short, in a drawing with a text
    [Ordinary EXCEPT !.lap = {{l1, l2}, {l1, l3}}, !.twin = {{l1, l2}}, !.short = {l2, l3}, !.outlets = {l2},
                  !.gap = {{E(l1), S(l2)}}, !.axial = {{l1, l2}}, !.banned = {l1}, !.labelled = {l1},
                  !.measured = {<<v, "voltage">>, <<v, "poles">>}, !.says = w :> Word({"earth"})],
    \* two devices on a circuit without a panel, as near to another one
    [Ordinary EXCEPT !.meet = {{E(l2), S(l3)}}, !.devices = {v, w}, !.live = {l2}, !.longest = 15,
                  !.feet = {<<S(l1), v, 1>>, <<S(l2), v, 1>>, <<E(l3), w, 2>>}],
    \* a detail
    [Ordinary EXCEPT !.gap = {{E(l1), S(l2)}}, !.valued = {l1, l2}, !.measured = {<<v, "nominal">>, <<w, "cable">>},
                  !.over = {{v, w}}, !.says = l3 :> Word({"detail"})] }

SymbolPlans == {
    \* four terminals, one of them beside the grid; the fifth circle is an orphan
    [Ordinary EXCEPT !.circles = {l1, l2, l3, v, w}, !.at = PlacedAt(0, 60, 120, 180, 900), !.astray = {v},
                  !.radius = [h \in Lines \union Blocks |-> 10]],
    \* five terminals in a row, and the one at the end is too many
    [Ordinary EXCEPT !.circles = {l1, l2, l3, v, w}, !.at = PlacedAt(0, 60, 120, 180, 240), !.astray = {w}],
    \* four circles with the word of a test point: two rings, and one over another
    [Ordinary EXCEPT !.circles = {l1, l2, l3, v}, !.at = PlacedAt(0, 15, 100, 0, 30), !.core = {l3},
                  !.radius = PlacedAt(10, 10, 10, 4, 1), !.says = w :> Word({"alone", "test"})],
    \* three rods that are too near, by a note for four and a tag for two
    [Ordinary EXCEPT !.circles = {l1, l2, l3}, !.at = PlacedAt(0, 2000, 4400, 2000, 2500),
                  !.says = v :> Rod(1200, 2, 0) @@ w :> Rod(1500, 0, 4)],
    \* a named rod, a socket too low in a dangerous place, a single strand
    [Ordinary EXCEPT !.rods = {v}, !.at = PlacedAt(0, 1000, 2500, 0, 5600),
                  !.says = l1 :> [Rod(0, 3, 0) EXCEPT !.height = 400] @@ l2 :> [Word({"danger"}) EXCEPT !.wants = 3]
                           @@ l3 :> [Word({"danger", "detail"}) EXCEPT !.strands = 2] @@ w :> [Word({}) EXCEPT !.strands = 1, !.height = 310]],
    \* a test point that only a text of the architect explains
    [Arch(Word({"alone", "test", "earth"}), 130) EXCEPT !.circles = {l1, l2, l3, v}, !.core = {v},
                  !.radius = PlacedAt(40, 60, 30, 75, 10)] }

ElecPlans == WirePlans \union SymbolPlans

------------------------------------------------------------------------------
Scenes == INSTANCE ChatScenes
MCRequests == Scenes!MCRequests

DialogScenes == INSTANCE ConversationScenes
MCScripts == DialogScenes!MCScripts

------------------------------------------------------------------------------
\* A floor with heads: where and what the five elements are.
Floor(a, b, c, d, e) ==
    [x |-> (l1 :> a[2] @@ l2 :> b[2] @@ l3 :> c[2] @@ v :> d[2] @@ w :> e[2]),
     kind |-> (l1 :> a[1] @@ l2 :> b[1] @@ l3 :> c[1] @@ v :> d[1] @@ w :> e[1]),
     tagged |-> {}, points |-> <<0, 150, 300>>, search |-> [Candidates EXCEPT !.ranks = Ranks]]
Sp(x) == <<"sprinkler", x>>
De(x) == <<"detector", x>>
Ex(x) == <<"extinguisher", x>>
Hy(x) == <<"hydrant", x>>

FirePlans == {
    \* two of the sprinklers stand at one place, too far from the third
    Floor(Sp(0), Sp(0), Sp(40), Ex(60), De(10)),
    \* two detectors are nearest to each other
    [Floor(De(0), De(60), Hy(0), Ex(150), Hy(400)) EXCEPT !.search = [Candidates EXCEPT !.asks = <<>>]],
    \* the nearest detector has a tag
    [Floor(De(0), De(50), De(120), Sp(0), Ex(500)) EXCEPT !.tagged = {l2, w}, !.search = Nothing],
    [Floor(Sp(0), Sp(20), Sp(40), Ex(0), Ex(600)) EXCEPT !.points = <<210, 300, 390, 250, 230, 260, 240>>] }

ArchSearches == {Little, Nothing, [Nothing EXCEPT !.glossary = TRUE], Candidates, [Candidates EXCEPT !.asks = <<>>]}
MCOtherPlans == [elec |-> ElecPlans, fire |-> FirePlans, arch |-> {[Ordinary EXCEPT !.search = s] : s \in ArchSearches}]
ElecAnswers(plan) ==
    {Silence, Once(<<Claim(v, "size", 85), Claim(l1, "open", 90)>>)} \union
    IF plan.lap # {} THEN {Once(<<Claim(l1, "lap", 40)>>), InParts(<<<<Claim(l1, "lap", 90)>>>>)}
    ELSE IF plan.panels # {}
    THEN {Once(<<Claim(l2, "size", 0), Of4(v, "size", {"rule"}, {}, Both \union {"numbers"}, 1), Of4(v, "size", {}, {}, {"weak"}, 2),
                 Of4(note, "voltage", {}, {}, {"weak"}, 1)>>)}
    ELSE IF DOMAIN plan.says # {}
    THEN {InParts(<<<<[Of4(w, "size", {"rule"}, {}, Both, 1) EXCEPT !.auto = TRUE]>>, <<[Claim(v, "cable", 90) EXCEPT !.odd = TRUE]>>>>)}
    ELSE {}

MCAnswers(d, plan) ==
    CASE d = "pipe" -> PipeAnswers(plan)
      [] d = "elec" -> ElecAnswers(plan)
      [] d = "fire" -> {Silence, Once(<<Claim(l1, "spacing", 50)>>),
                        InParts(<<<<[Claim(l3, "spacing", 85) EXCEPT !.rel = {"sprinkler", "detector"}]>>,
                                  <<Claim(l1, "quantity", 60), Claim(l1, "quantity", 60)>>>>)}
      [] d = "arch" -> {Silence, Once(<<Claim(l1, "distance", 30), Claim(v, "open", 90)>>),
                        InParts(<<<<Of4(l1, "distance", {"rule"}, {}, Both, 1)>>, <<Of4(l1, "distance", {"rule"}, {}, Both, 2)>>>>)}
==============================================================================
