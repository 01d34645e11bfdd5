-------------------------------- MODULE ObjectMap ------------------------------
(* Which text names which block (object_mapping_utils.py 262-384,           *)
(* multi_object_mapper.py 59-431): a score for every pair, the best pairs   *)
(* first, and the language model asked where two blocks are about as good.  *)
(* `llm` is the set of texts for which it takes the second.  Beside what    *)
(* LayerSplit says of an entity it has its angle `turn`.                    *)
EXTENDS LayerSplit

\* An entity without a place is taken to be at the origin.
Position(e) == IF e.at = <<>> THEN 0 ELSE e.at[1]
MapDistance(a, b) == LET g == Position(a) - Position(b) IN IF g < 0 THEN -g ELSE g

\* 400 exp(-3t) at each tenth of the way from one metre to the limit.
Decay == <<400, 296, 220, 163, 120, 89, 66, 49, 36, 27, 20>>
ByDistance(dist, most) ==
    CASE dist < 100 -> 1500
      [] dist \in 100..299 -> 800
      [] dist \in 300..999 -> 400
      [] dist \in 1000..(most - 1) -> Decay[1 + (10 * (dist - 1000)) \div (most - 1000)]
      [] OTHER -> 0
ByAngle(a, b) ==
    LET diff == (IF a > b THEN a - b ELSE b - a) % 180
    IN  CASE diff < 5 \/ diff > 175 -> 50
          [] diff \in 86..94 -> -30
          [] OTHER -> 0
\* `bonus` names the layers of a block and of a text that belong together.
Score(t, b, most, bonus) ==
    ByDistance(MapDistance(t, b), most) + (IF Near(t.at, b.at, 50) THEN 200 ELSE 0) + ByAngle(t.turn, b.turn)
    + (IF bonus = <<b.layer, t.layer>> THEN 15 ELSE 0)

MapReach(most) == IF most > 50000 THEN most ELSE 50000

\* The two best blocks for a text, of those within reach; blocks of one score
\* stay in their order.
Best(list, score) ==
    LET order == SortSeq([i \in DOMAIN list |-> i], LAMBDA i, j : score[i] > score[j] \/ (score[i] = score[j] /\ i < j))
    IN  [i \in 1..(IF Len(list) < 2 THEN Len(list) ELSE 2) |-> [block |-> list[order[i]], score |-> score[order[i]]]]
BestOf(d, t, near, most, bonus) == Best(near, [i \in DOMAIN near |-> Score(d.ent[t], d.ent[near[i]], most, bonus)])
FindBest(d, t, blocks, most, bonus) ==
    BestOf(d, t, SelectSeq(blocks, LAMBDA b : MapDistance(d.ent[t], d.ent[b]) <= MapReach(most)), most, bonus)

\* Nearby a lead of 100 decides, farther off one of 20.
Ambiguous(best) ==
    Len(best) = 2 /\ best[1].score - best[2].score <= (IF best[1].score < 400 THEN 20 ELSE 100)

\* The pairs in the order of their scores; a text that was stored twice is
\* named once, and what the language model has decided comes last.
InOrder(pairs) ==
    SortSeq([i \in DOMAIN pairs |-> [at |-> i, pair |-> pairs[i]]],
            LAMBDA p, q : \/ p.pair.best[1].score > q.pair.best[1].score
                          \/ p.pair.best[1].score = q.pair.best[1].score /\ p.at < q.at)
OncePerText(ordered) ==
    FoldLeft(LAMBDA out, p : IF \E q \in ToSet(out) : q.text = p.pair.text THEN out ELSE Append(out, p.pair), <<>>, ordered)
Pairing(p, isAmbiguous, llm) ==
    [text |-> p.text, score |-> p.best[1].score, llm |-> isAmbiguous,
     block |-> p.best[IF isAmbiguous /\ p.text \in llm THEN 2 ELSE 1].block]
Pairings(once, llm) == [i \in DOMAIN once |-> Pairing(once[i], Ambiguous(once[i].best), llm)]
LlmLast(pairings) == SelectSeq(pairings, LAMBDA p : ~p.llm) \o SelectSeq(pairings, LAMBDA p : p.llm)
AutoMap(d, texts, blocks, most, bonus, llm) ==
    LET found == [i \in DOMAIN texts |-> [text |-> texts[i], best |-> FindBest(d, texts[i], blocks, most, bonus)]]
    IN  LlmLast(Pairings(OncePerText(InOrder(SelectSeq(found, LAMBDA p : p.best # <<>>))), llm))

\* The names of a drawing's blocks.  In the pipe review the architecture is left
\* out, as it is told without the organisation's roles.
Kept(d, isPipe, split) ==
    SelectSeq(d.list, LAMBDA h : "ignored" \notin d.layer[d.ent[h].layer].words /\ (isPipe => split[h][1] # "arch"))
MapBetween(d, texts, blocks, most, bonus, llm) ==
    IF texts = <<>> \/ blocks = <<>> THEN <<>> ELSE AutoMap(d, texts, blocks, most, bonus, llm)
EntitiesOfKind(d, list, kind) == SelectSeq(list, LAMBDA h : d.ent[h].kind = kind)
MappingOf(d, kept, most, bonus, llm) ==
    MapBetween(d, EntitiesOfKind(d, kept, "text"), EntitiesOfKind(d, kept, "block"), most, bonus, llm)
ObjectMapping(d, isPipe, most, bonus, llm) == MappingOf(d, Kept(d, isPipe, Split(d, <<>>)), most, bonus, llm)
==============================================================================
