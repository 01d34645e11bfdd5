----------------------------- MODULE PipeTopology -----------------------------
(* topology.py and geometry.py of the pipe agent: which lines of an         *)
(* extraction make one run of pipe, which pairs of lines nearly meet, which *)
(* blocks stand on a run and which overlap.  An extraction is a sequence of *)
(* handles; one that an upload sent twice holds a handle twice, and nothing *)
(* on the way removes it.  What coordinates decide is a plan:               *)
(*   touch  pairs of lines that meet        near   pairs with a small gap   *)
(*   noted  gaps with a pipe's note in them miss   <<end, line>> that miss  *)
(*   feet   <<line, block>> that meet       over   blocks that overlap      *)
(*   piled  overlapping blocks at one place                                 *)
EXTENDS Integers, Sequences, FiniteSets, SequencesExt

CONSTANTS Lines, Blocks

\* What of a list is in a set, in the order of the list.
Only(list, handles) == FoldLeft(LAMBDA out, h : IF h \in handles THEN Append(out, h) ELSE out, <<>>, list)
LinesOf(list) == Only(list, Lines)
BlocksOf(list) == SelectSeq(list, LAMBDA h : h \in Blocks)

\* (mutant) an element is compared with itself too
PairsFromItself(s) ==
    FlattenSeq([i \in DOMAIN s |-> [j \in 1..(Len(s) - i + 1) |-> <<s[i], s[i + j - 1]>>]])

\* `for idx, ha in enumerate(hs): for hb in hs[idx + 1:]`
PairsOf(s) ==
    FlattenSeq([i \in DOMAIN s |-> [j \in 1..(Len(s) - i) |-> <<s[i], s[i + j]>>]])

\* The ends of a line touch the ends of the same line.
Touches(plan, a, b) == a = b \/ {a, b} \in plan.touch

\* `adj`, in both directions: two places of the list, with one line perhaps.
Adjacent(plan, s) ==
    {p \in ToSet(s) \X ToSet(s) :
        /\ Touches(plan, p[1], p[2])
        /\ \E i, j \in DOMAIN s : i # j /\ s[i] = p[1] /\ s[j] = p[2]}

Apart(plan, s) == SelectSeq(PairsOf(s), LAMBDA p : p \notin Adjacent(plan, s))

\* A small gap between two lines of one axis; with a note in it, it is drawn
\* on purpose.
Broken(plan, p) == {p[1], p[2]} \in plan.near
Bridged(plan, p) == Broken(plan, p) /\ {p[1], p[2]} \in plan.noted

Noted(plan, s) == SelectSeq(Apart(plan, s), LAMBDA p : Bridged(plan, p))
Gaps(plan, s) ==
    LET noted == {{p[1], p[2]} : p \in ToSet(Noted(plan, s))} IN
    SelectSeq(Apart(plan, s), LAMBDA p : Broken(plan, p) /\ {p[1], p[2]} \notin noted)

\* The end of one line misses the other: the end first, whatever the order.
Missed(plan, p) == IF p \in plan.miss THEN p ELSE <<p[2], p[1]>>
Misses(plan, s) ==
    LET found == SelectSeq(Apart(plan, s), LAMBDA p : Missed(plan, p) \in plan.miss)
    IN  [i \in DOMAIN found |-> Missed(plan, found[i])]

------------------------------------------------------------------------------
(* _UF: p maps a line to its parent                                         *)

Find(p) == LET root[x \in DOMAIN p] == IF p[x] = x THEN x ELSE root[p[x]] IN root
Joined(p, pair) == [p EXCEPT ![Find(p)[pair[1]]] = Find(p)[pair[2]]]

\* (mutant) the parent is taken for the root
GroupsByParent(p) == {{x \in DOMAIN p : p[x] = r} : r \in ToSet([x \in DOMAIN p |-> p[x]])}

Groups(p) == {{x \in DOMAIN p : Find(p)[x] = Find(p)[y]} : y \in DOMAIN p}

\* Of the pairs in a set, those with x, and all of them, in the order of the lists.
JoinTo(p, x, inner, pairs) ==
    FoldLeft(LAMBDA q, y : IF <<x, y>> \in pairs THEN Joined(q, <<x, y>>) ELSE q, p, inner)
JoinAll(p, outer, inner, pairs) == FoldLeft(LAMBDA q, x : JoinTo(q, x, inner, pairs), p, outer)

\* The neighbours of a line are a Python set: `order` is the order in which this
\* process happens to visit them.  `adj` has a line once; to join its neighbours
\* again changes nothing.
Runs(plan, s, order) == Groups(JoinAll([x \in ToSet(s) |-> x], s, order, Adjacent(plan, s)))

\* The blocks that stand on a run.
Standing(plan, run, blocks) == {b \in blocks : \E h \in run : <<h, b>> \in plan.feet}

\* GeometryPreprocessor: a block overlaps its double as it overlaps another.
Overlap(plan, a, b) == a = b \/ {a, b} \in plan.over
Overlaps(plan, s) == SelectSeq(PairsOf(s), LAMBDA p : Overlap(plan, p[1], p[2]))
Piled(plan, s) == SelectSeq(PairsOf(s), LAMBDA p : p[1] = p[2] \/ {p[1], p[2]} \in plan.piled)
==============================================================================
