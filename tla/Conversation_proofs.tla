-------------------------- MODULE Conversation_proofs --------------------------
(* A conversation keeps its memory whole, for any script: the invariant     *)
(* says, of each of the two turns that may be under way, what it has read   *)
(* and where its commits are, and that at most one of them is between the   *)
(* two halves.                                                              *)
EXTENDS Conversation, SequenceTheorems, WellFoundedInduction, TLAPS

------------------------------------------------------------------------------
(* The memory of a conversation.  `t` and `o` are the two turns that may be *)
(* under way, `m` the memory, `kept` the pieces that it should hold, and    *)
(* `pieces` those of each turn.                                             *)

Piece == (Nat \ {0}) \X Nat
Memories == [summary : Seq(Piece), recent : Seq(Piece)]
BothHalves(m) == m.summary \o m.recent
Same(m, n) == m.summary = n.summary /\ m.recent = n.recent

\* What is still to be committed: before the first half of the memory, after both
\* halves or the later one, before and between the two when it is stored again, and
\* at last the rows.
Early == {<<"user", "assistant", "recent", "summary">>, <<"assistant", "recent", "summary">>, <<"recent", "summary">>,
          <<"user", "assistant", "recent", "summary", "summary", "recent", "rows">>,
          <<"assistant", "recent", "summary", "summary", "recent", "rows">>,
          <<"recent", "summary", "summary", "recent", "rows">>,
          <<"assistant", "summary", "recent", "rows">>}
Closing == {<<"summary">>, <<"summary", "summary", "recent", "rows">>}
Saving == {<<"summary", "recent", "rows">>}
Between == {<<"recent", "rows">>}
Ending == {<<"rows">>}
Todos == Early \union Closing \union Saving \union Between \union Ending

Working == {"node", "tools", "answered", "store"}
Stores(t) == t.at \in {"answered", "store"}
Written(t, kept) == HasPiece(kept, t.turn)
IsCurrent(t, kept) == t.at \in Working /\ t.base = kept
Moves(t) == t.new.summary # t.mem.summary

\* One half is stored, the later or the earlier one.
Late(t, m) == Moves(t) /\ m.summary = t.mem.summary /\ m.recent = t.new.recent
Half(t, m) == Moves(t) /\ m.summary = t.new.summary /\ m.recent = t.mem.recent
IsLate(t, m, kept) ==
    t.at = "store" /\ t.base = kept /\ t.todo \in Closing \union Saving /\ Written(t, kept) /\ Late(t, m)
IsHalf(t, m, kept) ==
    t.at = "store" /\ t.base = kept /\ t.todo \in Between /\ ~Written(t, kept) /\ Half(t, m)
Midway(t, m, kept) == IsLate(t, m, kept) \/ IsHalf(t, m, kept)

IsTorn(t, m) == t.at = "store" /\ Moves(t) /\ (m.summary = t.new.summary) # (m.recent = t.new.recent)

\* Where the commits of a turn are, unless the other one is midway.
Unstored(t, m, kept) == ~Written(t, kept) /\ Same(m, t.mem)
AllStored(t, m, kept) == Written(t, kept) /\ Same(m, t.new)
Progress(t, m, kept) ==
    IF ~Stores(t) THEN Unstored(t, m, kept)
    ELSE /\ t.todo \in Early => Unstored(t, m, kept)
         /\ t.todo \in Closing => \/ Written(t, kept) /\ Late(t, m)
                                  \/ AllStored(t, m, kept)
                                  \/ Unstored(t, m, kept) /\ Same(t.new, t.mem)
         /\ t.todo \in Saving => \/ Unstored(t, m, kept)
                                 \/ Written(t, kept) /\ Late(t, m)
                                 \/ AllStored(t, m, kept)
         /\ t.todo \in Between => \/ Unstored(t, m, kept) /\ ~Moves(t)
                                  \/ ~Written(t, kept) /\ Half(t, m)
                                  \/ AllStored(t, m, kept)
         /\ t.todo \in Ending => \/ Unstored(t, m, kept) /\ Same(t.new, t.mem)
                                 \/ AllStored(t, m, kept)
\* What a turn adds is itself, and both halves of the memory change, or one.
Adds(t, pieces) ==
    \/ Same(t.new, t.mem)
    \/ /\ ~Same(t.new, t.mem)
       /\ BothHalves(t.new) = BothHalves(t.mem) \o pieces[t.turn]
       /\ Moves(t) => Len(t.new.summary) > Len(t.mem.summary) /\ t.new.recent # t.mem.recent

\* The parts of the invariant that hold as long as nothing was written over.
CurrentIsWhole(t, kept, pieces) ==
    IsCurrent(t, kept) =>
        /\ ~Written(t, kept) => BothHalves(t.mem) = kept
        /\ Written(t, kept) => Stores(t) /\ BothHalves(t.new) = kept
        /\ Stores(t) => Adds(t, pieces)
InTurn(t, o, m, kept) ==
    /\ IsCurrent(t, kept) /\ ~Midway(o, m, kept) => Progress(t, m, kept)
    /\ IsLate(o, m, kept) => ~IsCurrent(t, kept)
    /\ ~(Midway(t, m, kept) /\ Midway(o, m, kept))
Sound(t, o, m, kept, pieces) ==
    /\ CurrentIsWhole(t, kept, pieces) /\ CurrentIsWhole(o, kept, pieces)
    /\ InTurn(t, o, m, kept) /\ InTurn(o, t, m, kept)
    /\ ~Midway(t, m, kept) /\ ~Midway(o, m, kept) => BothHalves(m) = kept

\* The parts that always hold.
TurnFits(t, kept) ==
    /\ t.at \in {"rest", "load"} \union Working
    /\ t.at # "rest" => t.turn \in Nat \ {0}
    /\ t.at \in {"load", "node", "tools", "answered"} => ~Written(t, kept)
    /\ t.at \in Working =>
        /\ t.mem \in Memories
        /\ t.base = Unknown \/ (t.base \in Seq(Piece) /\ Len(t.base) <= Len(kept))
    /\ Stores(t) =>
        /\ t.new \in Memories /\ t.todo \in Todos
        /\ t.at = "answered" => t.todo \in Early \union Saving
        /\ t.todo \in Early => ~Written(t, kept)
Parted(pieces, n) ==
    \A i \in 1..n : /\ pieces[i] \in Seq(Piece) /\ Len(pieces[i]) > 0
                    /\ \A k \in DOMAIN pieces[i] : pieces[i][k][1] = i

------------------------------------------------------------------------------
(* Sequences, and what a turn adds                                          *)

LEMMA PieceOfSeq == \A seq \in Seq(Piece) : \A k \in 1..Len(seq) : seq[k] \in Piece /\ seq[k][1] \in Nat
BY DEF Piece

LEMMA HasPieceAt ==
    ASSUME NEW seq \in Seq(Piece), NEW i
    PROVE  HasPiece(seq, i) <=> \E k \in 1..Len(seq) : seq[k][1] = i
BY DEF HasPiece

LEMMA ConcatThree ==
    ASSUME NEW s \in Seq(Piece), NEW r \in Seq(Piece), NEW a \in Seq(Piece)
    PROVE  s \o (r \o a) = (s \o r) \o a
BY ConcatAssociative

LEMMA MoveOver ==
    ASSUME NEW s \in Seq(Piece), NEW a \in Seq(Piece), Len(a) > 0
    PROVE  /\ Append(s, a[1]) \in Seq(Piece) /\ Tail(a) \in Seq(Piece)
           /\ Len(Append(s, a[1])) = Len(s) + 1
           /\ Append(s, a[1]) \o Tail(a) = s \o a
<1>1. a[1] \in Piece
  BY PieceOfSeq
<1>2. /\ Append(s, a[1]) \in Seq(Piece) /\ Tail(a) \in Seq(Piece)
      /\ Len(Append(s, a[1])) = Len(s) + 1 /\ Len(Tail(a)) = Len(a) - 1
      /\ \A k \in 1..Len(s) : Append(s, a[1])[k] = s[k]
      /\ Append(s, a[1])[Len(s) + 1] = a[1]
      /\ \A k \in 1..(Len(a) - 1) : Tail(a)[k] = a[k + 1]
  BY <1>1
<1> DEFINE left == Append(s, a[1]) \o Tail(a)
<1>3. /\ left \in Seq(Piece) /\ Len(left) = Len(s) + Len(a)
      /\ \A k \in 1..(Len(s) + Len(a)) : left[k] = IF k <= Len(s) + 1 THEN Append(s, a[1])[k] ELSE Tail(a)[k - (Len(s) + 1)]
  BY <1>2, ConcatProperties
<1>4. /\ s \o a \in Seq(Piece) /\ Len(s \o a) = Len(s) + Len(a)
      /\ \A k \in 1..(Len(s) + Len(a)) : (s \o a)[k] = IF k <= Len(s) THEN s[k] ELSE a[k - Len(s)]
  BY ConcatProperties
<1> HIDE DEF left
<1>5. ASSUME NEW k \in 1..Len(left) PROVE left[k] = (s \o a)[k]
  <2>1. CASE k <= Len(s)
    BY <1>2, <1>3, <1>4, <2>1
  <2>2. CASE k = Len(s) + 1
    BY <1>2, <1>3, <1>4, <2>2
  <2>3. CASE k > Len(s) + 1
    <3>1. k - (Len(s) + 1) \in 1..(Len(a) - 1)
      BY <1>3, <2>3
    <3>2. left[k] = a[k - (Len(s) + 1) + 1]
      BY <1>2, <1>3, <2>3, <3>1
    <3> QED BY <1>3, <1>4, <2>3, <3>2
  <2> QED BY <2>1, <2>2, <2>3, <1>3
<1>6. left = s \o a
  BY <1>3, <1>4, <1>5, SeqEqual
<1> QED BY <1>2, <1>6 DEF left

\* A turn that is new to the memory ends in a piece that the recent turns have not.
LEMMA RecentChanges ==
    ASSUME NEW r \in Seq(Piece), NEW a \in Seq(Piece), NEW i, Len(r) > 0, Len(a) > 0,
           \A k \in 1..Len(r) : r[k][1] # i, \A k \in 1..Len(a) : a[k][1] = i
    PROVE  Tail(r \o a) # r
<1> SUFFICES ASSUME Tail(r \o a) = r PROVE FALSE
  OBVIOUS
<1>1. /\ r \o a \in Seq(Piece) /\ Len(r \o a) = Len(r) + Len(a)
      /\ \A k \in 1..(Len(r) + Len(a)) : (r \o a)[k] = IF k <= Len(r) THEN r[k] ELSE a[k - Len(r)]
  BY ConcatProperties
<1>2. Len(Tail(r \o a)) = Len(r) + Len(a) - 1 /\ \A k \in 1..(Len(r) + Len(a) - 1) : Tail(r \o a)[k] = (r \o a)[k + 1]
  BY <1>1
<1>3. Len(a) = 1
  BY <1>2
<1>4. Tail(r \o a)[Len(r)] = a[1]
  BY <1>1, <1>2, <1>3
<1> QED BY <1>3, <1>4

LEMMA MemoryExcept ==
    ASSUME NEW mem \in Memories, NEW x
    PROVE  /\ [mem EXCEPT !.summary = x] = [summary |-> x, recent |-> mem.recent]
           /\ [mem EXCEPT !.recent = x] = [summary |-> mem.summary, recent |-> x]
BY DEF Memories

LEMMA RememberAdds ==
    ASSUME NEW i \in Nat \ {0}, NEW mem \in Memories, NEW kept,
           Pieces(i) \in Seq(Piece), Len(Pieces(i)) > 0,
           \A k \in DOMAIN Pieces(i) : Pieces(i)[k][1] = i,
           BothHalves(mem) = kept, ~HasPiece(kept, i)
    PROVE  LET new == Remember(mem, i) IN
           /\ new \in Memories /\ ~Same(new, mem)
           /\ BothHalves(new) = BothHalves(mem) \o Pieces(i)
           /\ new.summary # mem.summary => Len(new.summary) > Len(mem.summary) /\ new.recent # mem.recent
<1> DEFINE s == mem.summary
           r == mem.recent
           a == Pieces(i)
           all == r \o a
           new == Remember(mem, i)
<1>1. /\ s \in Seq(Piece) /\ r \in Seq(Piece) /\ a \in Seq(Piece) /\ Len(a) > 0 /\ s \o r = kept
      /\ \A k \in 1..Len(a) : a[k][1] = i
      /\ BothHalves(mem) = s \o r
  BY DEF Memories, BothHalves
<1>2. new = IF Len(r) + 1 > MaxRecent THEN [summary |-> Append(s, all[1]), recent |-> Tail(all)]
            ELSE [summary |-> s, recent |-> all]
  BY MemoryExcept DEF Remember
<1> SUFFICES /\ new \in Memories /\ ~Same(new, mem)
             /\ BothHalves(new) = (s \o r) \o a
             /\ new.summary # s => Len(new.summary) > Len(s) /\ new.recent # r
  BY <1>1
<1>3. ~(s = new.summary /\ r = new.recent) => ~Same(new, mem)
  BY DEF Same
<1>4. BothHalves(new) = new.summary \o new.recent
  BY DEF BothHalves
<1> HIDE DEF s, r, a, new
<1>5. /\ s \o r \in Seq(Piece) /\ Len(s \o r) = Len(s) + Len(r)
      /\ \A k \in 1..(Len(s) + Len(r)) : (s \o r)[k] = IF k <= Len(s) THEN s[k] ELSE r[k - Len(s)]
  BY <1>1, ConcatProperties
<1>6. \A k \in 1..Len(s \o r) : (s \o r)[k][1] # i
  BY <1>1, <1>5, HasPieceAt
<1>7. ASSUME NEW k \in 1..Len(r) PROVE r[k][1] # i
  <2>1. Len(s) \in Nat /\ Len(r) \in Nat
    BY <1>1
  <2>2. Len(s) + k \in 1..Len(s \o r) /\ ~(Len(s) + k <= Len(s)) /\ Len(s) + k - Len(s) = k
    BY <1>5, <2>1
  <2>3. (s \o r)[Len(s) + k] = r[k]
    BY <1>5, <2>1, <2>2
  <2> QED BY <1>6, <2>2, <2>3
<1>8. r \o a \in Seq(Piece) /\ Len(r \o a) = Len(r) + Len(a)
  BY <1>1, ConcatProperties
<1>9. s \o (r \o a) = (s \o r) \o a
  BY <1>1, ConcatThree
<1>10. all \in Seq(Piece) /\ Len(all) > 0 /\ Len(all) > Len(r)
  BY <1>1, <1>8
<1>11. CASE Len(r) + 1 > MaxRecent
  <2>1. new = [summary |-> Append(s, all[1]), recent |-> Tail(all)]
    BY <1>2, <1>11
  <2>2. Len(r) > 0
    BY <1>1, <1>11, BoundsAssumption
  <2>3. Tail(all) # r
    BY <1>1, <1>7, <2>2, RecentChanges
  <2> HIDE DEF all
  <2>4. /\ Append(s, all[1]) \in Seq(Piece) /\ Tail(all) \in Seq(Piece)
        /\ Len(Append(s, all[1])) = Len(s) + 1
        /\ Append(s, all[1]) \o Tail(all) = s \o all
    BY <1>1, <1>10, MoveOver
  <2>5. new.summary = Append(s, all[1]) /\ new.recent = Tail(all) /\ new \in Memories
    BY <2>1, <2>4 DEF Memories
  <2>6. s \o all = (s \o r) \o a
    BY <1>9 DEF all
  <2>7. BothHalves(new) = (s \o r) \o a
    BY <1>4, <2>4, <2>5, <2>6
  <2>8. Len(new.summary) > Len(s) /\ new.recent # r
    BY <1>1, <2>3, <2>4, <2>5
  <2> QED BY <1>3, <2>5, <2>7, <2>8
<1>12. CASE ~(Len(r) + 1 > MaxRecent)
  <2>1. new = [summary |-> s, recent |-> all]
    BY <1>2, <1>12
  <2>2. all # r
    BY <1>1, <1>10
  <2>3. s \o all = (s \o r) \o a
    BY <1>9
  <2> HIDE DEF all
  <2>4. new \in Memories /\ new.summary = s /\ new.recent = all
    BY <1>1, <1>10, <2>1 DEF Memories
  <2> QED BY <1>3, <1>4, <2>2, <2>3, <2>4
<1> QED BY <1>11, <1>12

------------------------------------------------------------------------------
(* The order of the commits                                                 *)

LEMMA EarlyOnes ==
    ASSUME NEW todo \in Early
    PROVE  /\ Len(todo) > 1 /\ Len(todo) # 1 /\ Head(todo) \in {"user", "assistant", "recent"}
           /\ Head(todo) \in {"user", "assistant"} => Tail(todo) \in Early \union Saving
           /\ Head(todo) = "user" => Head(Tail(todo)) = "assistant"
           /\ Head(todo) = "recent" => Tail(todo) \in Closing
<1>1. CASE todo = <<"user", "assistant", "recent", "summary">>
  <2>1. Tail(todo) = <<"assistant", "recent", "summary">>
    BY <1>1
  <2> QED BY <1>1, <2>1 DEF Early
<1>2. CASE todo = <<"assistant", "recent", "summary">>
  <2>1. Tail(todo) = <<"recent", "summary">>
    BY <1>2
  <2> QED BY <1>2, <2>1 DEF Early
<1>3. CASE todo = <<"recent", "summary">>
  <2>1. Tail(todo) = <<"summary">>
    BY <1>3
  <2> QED BY <1>3, <2>1 DEF Closing
<1>4. CASE todo = <<"user", "assistant", "recent", "summary", "summary", "recent", "rows">>
  <2>1. Tail(todo) = <<"assistant", "recent", "summary", "summary", "recent", "rows">>
    BY <1>4
  <2> QED BY <1>4, <2>1 DEF Early
<1>5. CASE todo = <<"assistant", "recent", "summary", "summary", "recent", "rows">>
  <2>1. Tail(todo) = <<"recent", "summary", "summary", "recent", "rows">>
    BY <1>5
  <2> QED BY <1>5, <2>1 DEF Early
<1>6. CASE todo = <<"recent", "summary", "summary", "recent", "rows">>
  <2>1. Tail(todo) = <<"summary", "summary", "recent", "rows">>
    BY <1>6
  <2> QED BY <1>6, <2>1 DEF Closing
<1>7. CASE todo = <<"assistant", "summary", "recent", "rows">>
  <2>1. Tail(todo) = <<"summary", "recent", "rows">>
    BY <1>7
  <2> QED BY <1>7, <2>1 DEF Saving
<1> QED BY <1>1, <1>2, <1>3, <1>4, <1>5, <1>6, <1>7 DEF Early

LEMMA LaterOnes ==
    /\ \A todo \in Closing : /\ Head(todo) = "summary" /\ Len(todo) \in Nat
                             /\ Len(todo) # 1 => Len(todo) > 1 /\ Tail(todo) \in Saving
    /\ \A todo \in Saving : Head(todo) = "summary" /\ Len(todo) = 3 /\ Tail(todo) \in Between
    /\ \A todo \in Between : Head(todo) = "recent" /\ Len(todo) = 2 /\ Tail(todo) \in Ending
    /\ \A todo \in Ending : Head(todo) = "rows" /\ Len(todo) = 1
<1>1. ASSUME NEW todo \in Closing
      PROVE  Head(todo) = "summary" /\ Len(todo) \in Nat /\ (Len(todo) # 1 => Len(todo) > 1 /\ Tail(todo) \in Saving)
  <2>1. CASE todo = <<"summary">>
    BY <2>1
  <2>2. CASE todo = <<"summary", "summary", "recent", "rows">>
    <3>1. Tail(todo) = <<"summary", "recent", "rows">>
      BY <2>2
    <3> QED BY <2>2, <3>1 DEF Saving
  <2> QED BY <2>1, <2>2 DEF Closing
<1>2. Tail(<<"summary", "recent", "rows">>) = <<"recent", "rows">>
  OBVIOUS
<1>3. Tail(<<"recent", "rows">>) = <<"rows">>
  OBVIOUS
<1> QED BY <1>1, <1>2, <1>3 DEF Saving, Between, Ending

\* The five stages have no commits in common.
LEMMA StagesDiffer ==
    /\ \A todo \in Early : todo \notin Closing \union Saving \union Between \union Ending
    /\ \A todo \in Closing : todo \notin Saving \union Between \union Ending
    /\ \A todo \in Saving : todo \notin Between \union Ending
    /\ \A todo \in Between : todo \notin Ending
<1>1. ASSUME NEW todo \in Early, todo \in Between PROVE FALSE
  <2>1. todo = <<"recent", "rows">>
    BY <1>1 DEF Between
  <2> QED BY <2>1, <1>1 DEF Early
<1>2. ASSUME NEW todo \in Closing, todo \in Saving PROVE FALSE
  BY <1>2 DEF Closing, Saving
<1> QED BY <1>1, <1>2, EarlyOnes, LaterOnes

------------------------------------------------------------------------------
(* What a step does to the memory and to what the other turn knows of it    *)

LEMMA UnknownIsNone == Unknown \notin Seq(Piece)
<1> SUFFICES ASSUME Unknown \in Seq(Piece) PROVE FALSE
  OBVIOUS
<1>1. Len(Unknown) = 1 /\ Unknown[1] = <<0, 0>>
  BY DEF Unknown
<1>2. <<0, 0>> \in Piece
  BY <1>1, PieceOfSeq
<1> QED BY <1>2 DEF Piece

LEMMA SameIsEqual == \A m, n \in Memories : Same(m, n) <=> m = n
<1> SUFFICES ASSUME NEW m \in Memories, NEW n \in Memories, Same(m, n) PROVE m = n
  BY DEF Same
<1>1. m = [summary |-> m.summary, recent |-> m.recent] /\ n = [summary |-> n.summary, recent |-> n.recent]
  BY DEF Memories
<1> QED BY <1>1 DEF Same

LEMMA SoundBothWays ==
    ASSUME NEW t, NEW o, NEW m, NEW kept, NEW pieces, Sound(t, o, m, kept, pieces)
    PROVE  Sound(o, t, m, kept, pieces)
BY DEF Sound

LEMMA MidwayIsTorn ==
    ASSUME NEW t, NEW m, NEW kept, NEW pieces,
           CurrentIsWhole(t, kept, pieces), Midway(t, m, kept)
    PROVE  IsTorn(t, m)
<1>1. CASE IsLate(t, m, kept)
  BY <1>1 DEF IsLate, IsTorn, Late, Moves
<1>2. CASE IsHalf(t, m, kept)
  <2>1. Moves(t) /\ m.summary = t.new.summary /\ m.recent = t.mem.recent /\ t.at = "store" /\ t.base = kept
    BY <1>2 DEF IsHalf, Half
  <2>3. Adds(t, pieces)
    BY <2>1 DEF CurrentIsWhole, IsCurrent, Working, Stores
  <2>2. t.new.recent # t.mem.recent
    BY <2>1, <2>3 DEF Adds, Same, Moves
  <2> QED BY <2>1, <2>2 DEF IsTorn
<1> QED BY <1>1, <1>2 DEF Midway

\* A step of a turn that leaves the memory alone and is midway neither before nor
\* after.
LEMMA StandsStill ==
    ASSUME NEW t, NEW t2, NEW o, NEW m, NEW kept, NEW pieces, Sound(t, o, m, kept, pieces),
           ~Midway(t, m, kept), ~Midway(t2, m, kept), CurrentIsWhole(t2, kept, pieces),
           IsLate(o, m, kept) => ~IsCurrent(t2, kept),
           IsCurrent(t2, kept) /\ ~Midway(o, m, kept) => Progress(t2, m, kept)
    PROVE  Sound(t2, o, m, kept, pieces)
<1>1. InTurn(t2, o, m, kept)
  BY DEF InTurn
<1>2. InTurn(o, t2, m, kept)
  BY DEF InTurn, Sound, Midway
<1> QED BY <1>1, <1>2 DEF Sound

LEMMA NotStored ==
    ASSUME NEW t, NEW m, NEW kept, t.at # "store"
    PROVE  ~Midway(t, m, kept) /\ ~IsTorn(t, m)
BY DEF Midway, IsLate, IsHalf, IsTorn

\* A turn ends, or waits to load.
LEMMA Leaves ==
    ASSUME NEW t, NEW t2, NEW o, NEW m, NEW kept, NEW pieces, Sound(t, o, m, kept, pieces),
           ~Midway(t, m, kept), t2.at \in {"rest", "load"}
    PROVE  Sound(t2, o, m, kept, pieces)
<1>1. ~Midway(t2, m, kept) /\ ~IsCurrent(t2, kept)
  BY NotStored DEF IsCurrent, Working
<1> QED BY <1>1, StandsStill DEF CurrentIsWhole

LEMMA Loads ==
    ASSUME NEW t, NEW t2, NEW o, NEW m \in Memories, NEW kept \in Seq(Piece), NEW pieces, Sound(t, o, m, kept, pieces),
           TurnFits(t, kept), t.at = "load", t2.at = "node", t2.turn = t.turn,
           t2.base = Unknown \/ (t2.base = kept /\ t2.mem = m /\ ~IsTorn(o, m))
    PROVE  Sound(t2, o, m, kept, pieces)
<1>1. ~Midway(t, m, kept) /\ ~Midway(t2, m, kept) /\ ~Written(t2, kept) /\ ~Stores(t2)
  BY NotStored DEF TurnFits, Stores, Written
<1>2. CASE ~IsCurrent(t2, kept)
  BY <1>1, <1>2, StandsStill DEF CurrentIsWhole
<1>3. CASE IsCurrent(t2, kept)
  <2>1. t2.base = kept /\ t2.mem = m /\ ~IsTorn(o, m)
    BY <1>3, UnknownIsNone DEF IsCurrent
  <2>2. ~Midway(o, m, kept)
    BY <2>1, MidwayIsTorn DEF Sound
  <2>3. BothHalves(m) = kept
    BY <1>1, <2>2 DEF Sound
  <2>4. CurrentIsWhole(t2, kept, pieces)
    BY <1>1, <2>1, <2>3 DEF CurrentIsWhole
  <2>5. Progress(t2, m, kept)
    BY <1>1, <2>1 DEF Progress, Unstored, Same
  <2> QED BY <1>1, <2>2, <2>4, <2>5, StandsStill DEF Midway
<1> QED BY <1>2, <1>3

\* A turn goes from one of its first states to the next; with an answer comes what
\* it adds.
LEMMA WorksOn ==
    ASSUME NEW t, NEW t2, NEW o, NEW m, NEW kept, NEW pieces, Sound(t, o, m, kept, pieces),
           TurnFits(t, kept), t.at \in {"node", "tools"}, t2.at \in {"tools", "answered"},
           t2.turn = t.turn, t2.base = t.base, t2.mem = t.mem,
           t2.at = "answered" => t2.todo \in Early,
           t2.at = "answered" /\ IsCurrent(t, kept) => Adds(t2, pieces)
    PROVE  Sound(t2, o, m, kept, pieces)
<1>1. /\ ~Midway(t, m, kept) /\ ~Midway(t2, m, kept) /\ ~Written(t2, kept) /\ ~Written(t, kept)
      /\ ~Stores(t) /\ IsCurrent(t2, kept) = IsCurrent(t, kept)
      /\ Stores(t2) => t2.at = "answered"
  BY NotStored DEF TurnFits, Stores, Written, IsCurrent, Working
<1>2. CurrentIsWhole(t2, kept, pieces)
  BY <1>1 DEF CurrentIsWhole, Sound
<1>3. IsLate(o, m, kept) => ~IsCurrent(t2, kept)
  BY <1>1 DEF Sound, InTurn
<1>4. ASSUME IsCurrent(t2, kept), ~Midway(o, m, kept) PROVE Progress(t2, m, kept)
  <2>1. Unstored(t, m, kept)
    BY <1>1, <1>4 DEF Sound, InTurn, Progress
  <2>2. Unstored(t2, m, kept)
    BY <1>1, <2>1 DEF Unstored
  <2>3. Stores(t2) => \A rest \in {Closing, Saving, Between, Ending} : t2.todo \notin rest
    BY <1>1, StagesDiffer
  <2> QED BY <2>2, <2>3 DEF Progress
<1>5. ~Midway(t, m, kept) /\ ~Midway(t2, m, kept)
  BY <1>1
<1>6. IsCurrent(t2, kept) /\ ~Midway(o, m, kept) => Progress(t2, m, kept)
  BY <1>4
<1> QED BY <1>2, <1>3, <1>5, <1>6, StandsStill

\* A message is committed, or the rows.
LEMMA CommitsNoMemory ==
    ASSUME NEW t, NEW t2, NEW o, NEW m, NEW kept, NEW pieces, Sound(t, o, m, kept, pieces),
           TurnFits(t, kept), Stores(t), t.todo \in Early, Head(t.todo) \in {"user", "assistant"},
           t2.at = "store", t2.todo = Tail(t.todo),
           t2.turn = t.turn, t2.base = t.base, t2.mem = t.mem, t2.new = t.new
    PROVE  Sound(t2, o, m, kept, pieces)
<1>1. /\ Stores(t2) /\ t2.todo \in Early \union Saving /\ ~Written(t, kept) /\ ~Written(t2, kept)
      /\ t.todo \notin Closing \union Saving \union Between
      /\ t2.todo \notin Closing \union Between \union Ending
  BY EarlyOnes, StagesDiffer DEF TurnFits, Stores, Written
<1>2. ~Midway(t, m, kept) /\ ~Midway(t2, m, kept)
  BY <1>1 DEF Midway, IsLate, IsHalf
<1>3. IsCurrent(t2, kept) => IsCurrent(t, kept)
  BY DEF IsCurrent, Stores, Working
<1>4. CurrentIsWhole(t2, kept, pieces)
  <2>1. Adds(t, pieces) => Adds(t2, pieces)
    BY DEF Adds, Moves
  <2> QED BY <1>1, <1>3, <2>1 DEF CurrentIsWhole, Sound
<1>5. IsLate(o, m, kept) => ~IsCurrent(t2, kept)
  BY <1>3 DEF Sound, InTurn
<1>6. ASSUME IsCurrent(t2, kept), ~Midway(o, m, kept) PROVE Progress(t2, m, kept)
  <2>1. Unstored(t, m, kept)
    BY <1>3, <1>6 DEF Sound, InTurn, Progress
  <2>2. Unstored(t2, m, kept)
    BY <1>1, <2>1 DEF Unstored
  <2> QED BY <1>1, <2>2 DEF Progress
<1> QED BY <1>2, <1>4, <1>5, <1>6, StandsStill

\* The memory is to be stored again, after a commit that failed.
LEMMA StoresAgain ==
    ASSUME NEW t, NEW t2, NEW o, NEW m, NEW kept, NEW pieces, Sound(t, o, m, kept, pieces),
           TurnFits(t, kept), Stores(t), t.todo \in Early \union Closing,
           t2.at = t.at, t2.todo \in Saving,
           t2.turn = t.turn, t2.base = t.base, t2.mem = t.mem,
           t2.new = t.new \/ (t.todo \in Early /\ t2.new = t.mem)
    PROVE  Sound(t2, o, m, kept, pieces)
<1>1. /\ Stores(t2) /\ t2.todo \notin Early \union Closing \union Between \union Ending
      /\ t.todo \notin Between \union Ending \union Saving
      /\ IsCurrent(t2, kept) => IsCurrent(t, kept)
      /\ Written(t2, kept) <=> Written(t, kept)
  BY StagesDiffer DEF Stores, IsCurrent, Written
<1>2. CASE t.todo \in Early
  <2>1. ~Written(t, kept) /\ ~Written(t2, kept) /\ t.todo \notin Closing
    BY <1>1, <1>2, StagesDiffer DEF TurnFits
  <2>2. ~Midway(t, m, kept) /\ ~Midway(t2, m, kept)
    BY <1>1, <2>1 DEF Midway, IsLate, IsHalf
  <2>3. Adds(t, pieces) => Adds(t2, pieces)
    BY DEF Adds, Moves, Same
  <2>4. CurrentIsWhole(t2, kept, pieces)
    BY <1>1, <2>1, <2>3 DEF CurrentIsWhole, Sound
  <2>5. IsLate(o, m, kept) => ~IsCurrent(t2, kept)
    BY <1>1 DEF Sound, InTurn
  <2>6. ASSUME IsCurrent(t2, kept), ~Midway(o, m, kept) PROVE Progress(t2, m, kept)
    <3>1. Unstored(t, m, kept)
      BY <1>1, <1>2, <2>6 DEF Sound, InTurn, Progress
    <3>2. Unstored(t2, m, kept)
      BY <2>1, <3>1 DEF Unstored
    <3> QED BY <1>1, <3>2 DEF Progress
  <2> QED BY <2>2, <2>4, <2>5, <2>6, StandsStill
<1>3. CASE t.todo \in Closing
  <2>1. t.at = "store" /\ t2.at = "store" /\ t2.new = t.new
    BY <1>3, StagesDiffer DEF TurnFits, Stores
  <2>2. IsCurrent(t2, kept) <=> IsCurrent(t, kept)
    BY <1>1, <2>1 DEF IsCurrent
  <2>3. Late(t2, m) <=> Late(t, m)
    BY <2>1 DEF Late, Moves
  <2>4. IsLate(t2, m, kept) <=> IsLate(t, m, kept)
    BY <1>1, <1>3, <2>1, <2>3 DEF IsLate
  <2>5. ~IsHalf(t, m, kept) /\ ~IsHalf(t2, m, kept)
    BY <1>1 DEF IsHalf
  <2>6. CurrentIsWhole(t2, kept, pieces)
    <3>1. Adds(t, pieces) => Adds(t2, pieces)
      BY <2>1 DEF Adds, Moves
    <3> QED BY <1>1, <2>1, <2>2, <3>1 DEF CurrentIsWhole, Sound, Stores
  <2>7. ASSUME IsCurrent(t2, kept), ~Midway(o, m, kept) PROVE Progress(t2, m, kept)
    <3>1. \/ Written(t, kept) /\ Late(t, m)
          \/ AllStored(t, m, kept)
          \/ Unstored(t, m, kept) /\ Same(t.new, t.mem)
      BY <1>3, <2>2, <2>7 DEF Sound, InTurn, Progress
    <3>2. \/ Written(t2, kept) /\ Late(t2, m)
          \/ AllStored(t2, m, kept)
          \/ Unstored(t2, m, kept)
      BY <1>1, <2>1, <2>3, <3>1 DEF AllStored, Unstored
    <3> QED BY <1>1, <3>2 DEF Progress
  <2>8. InTurn(t2, o, m, kept)
    BY <2>2, <2>4, <2>5, <2>7 DEF Sound, InTurn, Midway
  <2>9. InTurn(o, t2, m, kept)
    BY <2>2, <2>4, <2>5 DEF Sound, InTurn, Midway
  <2> QED BY <2>4, <2>5, <2>6, <2>8, <2>9 DEF Sound, Midway
<1> QED BY <1>2, <1>3

\* The turn that is alone in storing its memory knows where it is.
LEMMA StoringAlone ==
    ASSUME NEW t, NEW o, NEW m, NEW kept, NEW pieces, Sound(t, o, m, kept, pieces),
           Stores(t), t.base = kept, ~IsTorn(o, m)
    PROVE  /\ IsCurrent(t, kept) /\ ~Midway(o, m, kept) /\ Progress(t, m, kept) /\ Adds(t, pieces)
           /\ ~Written(t, kept) => BothHalves(t.mem) = kept
           /\ Written(t, kept) => BothHalves(t.new) = kept
<1>1. IsCurrent(t, kept)
  BY DEF IsCurrent, Stores, Working
<1>2. ~Midway(o, m, kept)
  BY MidwayIsTorn DEF Sound
<1>3. Progress(t, m, kept)
  BY <1>1, <1>2 DEF Sound, InTurn
<1>4. /\ Adds(t, pieces)
      /\ ~Written(t, kept) => BothHalves(t.mem) = kept
      /\ Written(t, kept) => BothHalves(t.new) = kept
  BY <1>1 DEF Sound, CurrentIsWhole
<1> QED BY <1>1, <1>2, <1>3, <1>4

LEMMA SameHalves == \A m, n : Same(m, n) => BothHalves(m) = BothHalves(n)
BY DEF Same, BothHalves

\* The summary is stored in the second half of a chat's first commits, which ends
\* the turn or goes on, or in the first half of the others.
LEMMA StoresSummary ==
    ASSUME NEW t, NEW t2, NEW o, NEW m \in Memories, NEW m2 \in Memories, NEW kept, NEW pieces,
           Sound(t, o, m, kept, pieces), TurnFits(t, kept), TurnFits(o, kept),
           Stores(t), Head(t.todo) = "summary", t.base = kept, ~IsTorn(o, m),
           m2.summary = t.new.summary, m2.recent = m.recent,
           \/ Len(t.todo) = 1 /\ t2.at = "rest"
           \/ /\ Len(t.todo) # 1 /\ t2.at = "store" /\ t2.todo = Tail(t.todo)
              /\ t2.turn = t.turn /\ t2.base = t.base /\ t2.mem = t.mem /\ t2.new = t.new
    PROVE  Sound(t2, o, m2, kept, pieces)
<1>1. /\ IsCurrent(t, kept) /\ ~Midway(o, m, kept) /\ Progress(t, m, kept) /\ Adds(t, pieces)
      /\ ~Written(t, kept) => BothHalves(t.mem) = kept
      /\ Written(t, kept) => BothHalves(t.new) = kept
  BY StoringAlone
<1>2. t.todo \in Closing \union Saving
  BY EarlyOnes, LaterOnes DEF TurnFits, Todos
<1>3. t.at = "store" \/ ~Written(t, kept)
  BY DEF Stores, TurnFits
<1>4. ~IsHalf(t, m, kept)
  BY <1>2, StagesDiffer DEF IsHalf
<1>5. CASE t2.at = "rest"
  <2>1. t.todo \in Closing
    BY <1>2, <1>5, LaterOnes
  <2>2. ~Midway(t2, m2, kept) /\ ~IsCurrent(t2, kept)
    BY <1>5, NotStored DEF IsCurrent, Working
  <2>3. BothHalves(m2) = kept
    <3>1. \/ Written(t, kept) /\ (Late(t, m) \/ Same(m, t.new))
          \/ ~Written(t, kept) /\ Same(m, t.mem) /\ Same(t.new, t.mem)
      BY <1>1, <2>1 DEF Progress, AllStored, Unstored
    <3>2. CASE Written(t, kept) /\ (Late(t, m) \/ Same(m, t.new))
      <4>1. Same(m2, t.new)
        BY <3>2 DEF Same, Late
      <4> QED BY <1>1, <3>2, <4>1, SameHalves
    <3>3. CASE ~Written(t, kept) /\ Same(m, t.mem) /\ Same(t.new, t.mem)
      <4>1. Same(m2, t.mem)
        BY <3>3 DEF Same
      <4> QED BY <1>1, <3>3, <4>1, SameHalves
    <3> QED BY <3>1, <3>2, <3>3
  <2>4. CASE IsLate(t, m, kept)
    <3>1. ~IsCurrent(o, kept)
      BY <2>4 DEF Sound, InTurn
    <3>2. ~Midway(o, m2, kept)
      BY <3>1 DEF Midway, IsLate, IsHalf, IsCurrent, Working
    <3> QED BY <2>2, <2>3, <3>1, <3>2 DEF Sound, InTurn, CurrentIsWhole, Midway
  <2>5. CASE ~IsLate(t, m, kept)
    <3>1. t.at = "store" /\ ~(Written(t, kept) /\ Late(t, m))
      BY <1>1, <1>2, <2>1, <2>5, StagesDiffer DEF IsLate, IsCurrent, TurnFits, Stores
    <3>2. Same(m2, m)
      BY <1>1, <2>1, <3>1 DEF Progress, AllStored, Unstored, Same
    <3>3. m2 = m
      BY <3>2, SameIsEqual
    <3> QED BY <1>4, <1>5, <2>5, <3>3, Leaves DEF Midway
  <2> QED BY <2>4, <2>5
<1>6. CASE t2.at = "store"
  <2>1. /\ t2.todo = Tail(t.todo) /\ t2.turn = t.turn /\ t2.base = t.base /\ t2.mem = t.mem /\ t2.new = t.new
        /\ Len(t.todo) # 1
    BY <1>6
  <2>2. /\ Stores(t2) /\ IsCurrent(t2, kept)
        /\ Written(t2, kept) <=> Written(t, kept)
    BY <1>6, <2>1 DEF Stores, IsCurrent, Working, Written
  <2>3. \/ t.todo \in Closing /\ t2.todo \in Saving
        \/ t.todo \in Saving /\ t2.todo \in Between
    BY <1>2, <2>1, LaterOnes
  <2>4. CurrentIsWhole(t2, kept, pieces)
    <3>1. Adds(t2, pieces)
      BY <1>1, <2>1 DEF Adds, Moves
    <3> QED BY <1>1, <2>1, <2>2, <3>1 DEF CurrentIsWhole
  <2>5. CASE IsLate(t, m, kept)
    <3>1. ~IsCurrent(o, kept)
      BY <2>5 DEF Sound, InTurn
    <3>2. ~Midway(o, m2, kept) /\ CurrentIsWhole(o, kept, pieces)
      BY <3>1 DEF Midway, IsLate, IsHalf, IsCurrent, Working, CurrentIsWhole
    <3>3. Written(t2, kept) /\ Same(m2, t2.new)
      BY <2>1, <2>2, <2>5 DEF IsLate, Late, Same
    <3>4. ~Midway(t2, m2, kept)
      BY <2>1, <2>2, <3>3 DEF Midway, IsLate, IsHalf, Late, Same, Moves
    <3>5. Progress(t2, m2, kept)
      BY <2>2, <2>3, <3>3, StagesDiffer DEF Progress, AllStored
    <3>6. BothHalves(m2) = kept
      BY <1>1, <2>1, <2>2, <3>3, SameHalves
    <3> QED BY <2>4, <3>1, <3>2, <3>4, <3>5, <3>6 DEF Sound, InTurn, Midway
  <2>6. CASE ~IsLate(t, m, kept) /\ Same(m2, m)
    <3>1. m2 = m /\ ~Midway(t, m, kept)
      BY <1>4, <2>6, SameIsEqual DEF Midway
    <3>2. ~(Written(t, kept) /\ Late(t, m))
      BY <1>2, <1>3, <1>1, <2>6 DEF IsLate
    <3>3. \/ Written(t, kept) /\ Same(m, t.new)
          \/ ~Written(t, kept) /\ Same(m, t.mem) /\ t.new.summary = t.mem.summary
      BY <1>1, <1>2, <2>6, <3>2 DEF Progress, AllStored, Unstored, Same
    <3>4. \/ AllStored(t2, m, kept)
          \/ Unstored(t2, m, kept) /\ ~Moves(t2)
      BY <2>1, <2>2, <3>3 DEF AllStored, Unstored, Moves
    <3>5. Progress(t2, m, kept)
      BY <2>2, <2>3, <3>4, StagesDiffer DEF Progress
    <3>6. ~Midway(t2, m, kept)
      BY <2>1, <2>2, <3>3 DEF Midway, IsLate, IsHalf, Late, Half, Moves, Same
    <3>7. IsLate(o, m, kept) => ~IsCurrent(t2, kept)
      BY <1>1 DEF Midway
    <3> QED BY <2>4, <3>1, <3>5, <3>6, <3>7, StandsStill
  <2>7. CASE ~IsLate(t, m, kept) /\ ~Same(m2, m)
    <3>1. ~(Written(t, kept) /\ Late(t, m))
      BY <1>1, <1>2, <1>3, <2>7 DEF IsLate
    <3>2. t.todo \in Saving /\ ~Written(t, kept) /\ Same(m, t.mem) /\ Moves(t)
      BY <1>1, <1>2, <2>7, <3>1 DEF Progress, AllStored, Unstored, Same, Moves
    <3>3. t2.todo \in Between /\ ~Written(t2, kept) /\ Half(t2, m2)
      BY <2>1, <2>2, <2>3, <3>2, StagesDiffer DEF Half, Moves, Same
    <3>4. IsHalf(t2, m2, kept) /\ ~IsLate(t2, m2, kept)
      BY <1>6, <2>2, <3>3 DEF IsHalf, IsLate, IsCurrent
    <3>5. Progress(t2, m2, kept)
      BY <2>2, <3>3, StagesDiffer DEF Progress
    <3>6. ~Midway(t, m, kept)
      BY <1>4, <2>7 DEF Midway
    <3>7. CurrentIsWhole(o, kept, pieces) /\ (IsCurrent(o, kept) => Progress(o, m, kept))
      BY <3>6 DEF Sound, InTurn
    <3>8. ASSUME IsHalf(o, m2, kept) PROVE FALSE
      <4>1. /\ IsCurrent(o, kept) /\ Stores(o) /\ o.todo \in Between /\ ~Written(o, kept) /\ Moves(o)
            /\ o.at = "store" /\ o.base = kept
        BY <3>8 DEF IsHalf, Half, IsCurrent, Working, Stores
      <4>2. Half(o, m)
        BY <3>7, <4>1 DEF Progress, AllStored
      <4> QED BY <1>1, <4>1, <4>2 DEF Midway, IsHalf
    <3>9. ASSUME IsLate(o, m2, kept) PROVE FALSE
      <4>1. /\ IsCurrent(o, kept) /\ Stores(o) /\ o.todo \in Closing \union Saving /\ Written(o, kept) /\ Moves(o)
            /\ o.at = "store" /\ o.base = kept /\ m2.summary = o.mem.summary
        BY <3>9 DEF IsLate, Late, IsCurrent, Working, Stores
      <4>2. Late(o, m) \/ Same(m, o.new)
        BY <3>7, <4>1 DEF Progress, AllStored, Unstored
      <4>3. ~Late(o, m)
        BY <1>1, <4>1 DEF Midway, IsLate
      <4>4. m.summary = o.new.summary /\ m.summary = t.mem.summary
        BY <3>2, <4>2, <4>3 DEF Same
      <4>5. Len(o.new.summary) > Len(o.mem.summary) /\ Len(t.new.summary) > Len(t.mem.summary)
        BY <1>1, <3>2, <3>7, <4>1 DEF CurrentIsWhole, Adds, Same, Moves
      <4>6. /\ Len(o.new.summary) \in Nat /\ Len(o.mem.summary) \in Nat
            /\ Len(t.new.summary) \in Nat /\ Len(t.mem.summary) \in Nat
        BY <4>1 DEF TurnFits, Stores, Working, Memories
      <4> QED BY <4>1, <4>4, <4>5, <4>6
    <3>10. ~Midway(o, m2, kept)
      BY <3>8, <3>9 DEF Midway
    <3> QED BY <2>4, <3>4, <3>5, <3>7, <3>10 DEF Sound, InTurn, Midway
  <2> QED BY <2>5, <2>6, <2>7
<1> QED BY <1>5, <1>6

\* The recent turns are stored: the turn is in the memory from now on, and whoever
\* has read it before no longer knows it.
LEMMA StoresRecent ==
    ASSUME NEW t, NEW t2, NEW o, NEW m \in Memories, NEW m2 \in Memories,
           NEW kept \in Seq(Piece), NEW kept2 \in Seq(Piece), NEW pieces,
           Sound(t, o, m, kept, pieces), TurnFits(t, kept), TurnFits(o, kept),
           Stores(t), Head(t.todo) = "recent", t.base = kept, ~IsTorn(o, m),
           m2.summary = m.summary, m2.recent = t.new.recent,
           t2.at = "store", t2.todo = Tail(t.todo),
           t2.turn = t.turn, t2.base = kept2, t2.mem = t.mem, t2.new = t.new,
           pieces[t.turn] \in Seq(Piece), Len(pieces[t.turn]) > 0,
           \A k \in DOMAIN pieces[t.turn] : pieces[t.turn][k][1] = t.turn,
           kept2 = IF ~Same(t.new, t.mem) /\ ~Written(t, kept) THEN kept \o pieces[t.turn] ELSE kept
    PROVE  Sound(t2, o, m2, kept2, pieces)
<1>1. /\ IsCurrent(t, kept) /\ ~Midway(o, m, kept) /\ Progress(t, m, kept) /\ Adds(t, pieces)
      /\ ~Written(t, kept) => BothHalves(t.mem) = kept
      /\ Written(t, kept) => BothHalves(t.new) = kept
  BY StoringAlone
<1>2. \/ t.todo \in Early /\ t2.todo \in Closing /\ ~Written(t, kept)
      \/ t.todo \in Between /\ t2.todo \in Ending
  <2>1. t.todo \in Early \union Between
    BY LaterOnes DEF TurnFits, Todos
  <2> QED BY <2>1, EarlyOnes, LaterOnes DEF TurnFits
<1>3. ~IsLate(t, m, kept)
  BY <1>2, StagesDiffer DEF IsLate
<1>4. /\ Stores(t2) /\ IsCurrent(t2, kept2) /\ Adds(t2, pieces)
  <2>1. Adds(t2, pieces)
    BY <1>1 DEF Adds, Moves
  <2> QED BY <2>1 DEF Stores, IsCurrent, Working
<1>5. CASE ~Same(t.new, t.mem) /\ ~Written(t, kept)
  <2>1. kept2 = kept \o pieces[t.turn] /\ Len(kept2) = Len(kept) + Len(pieces[t.turn])
    BY <1>5, ConcatProperties
  <2>2. Len(kept2) > Len(kept)
    BY <2>1
  <2>3. Written(t2, kept2)
    <3>1. kept2[Len(kept) + 1] = pieces[t.turn][1]
      BY <2>1, ConcatProperties
    <3>2. kept2[Len(kept) + 1][1] = t.turn /\ Len(kept) + 1 \in 1..Len(kept2)
      BY <2>1, <3>1
    <3> QED BY <3>2, HasPieceAt DEF Written
  <2>4. ~IsCurrent(o, kept2)
    <3> SUFFICES ASSUME o.at \in Working, o.base = kept2 PROVE FALSE
      BY DEF IsCurrent
    <3>1. o.base # Unknown
      BY UnknownIsNone
    <3>2. Len(o.base) <= Len(kept)
      BY <3>1 DEF TurnFits
    <3> QED BY <2>2, <3>2
  <2>5. ~Midway(o, m2, kept2) /\ CurrentIsWhole(o, kept2, pieces)
    BY <2>4 DEF Midway, IsLate, IsHalf, IsCurrent, Working, CurrentIsWhole
  <2>6. BothHalves(t2.new) = kept2
    BY <1>1, <1>5, <2>1 DEF Adds
  <2>7. CurrentIsWhole(t2, kept2, pieces)
    BY <1>4, <2>3, <2>6 DEF CurrentIsWhole
  <2>8. \/ Unstored(t, m, kept) /\ t.todo \in Early
        \/ Unstored(t, m, kept) /\ ~Moves(t) /\ t.todo \in Between
        \/ Half(t, m) /\ t.todo \in Between
    BY <1>1, <1>2, <1>5 DEF Progress, AllStored
  <2>9. Late(t2, m2) \/ Same(m2, t2.new)
    BY <2>8 DEF Late, Half, Moves, Unstored, Same
  <2>10. t.todo \in Between => Same(m2, t2.new)
    BY <1>2, <2>8, StagesDiffer DEF Half, Moves, Unstored, Same
  <2>11. Progress(t2, m2, kept2)
    BY <1>2, <1>4, <2>3, <2>9, <2>10, StagesDiffer DEF Progress, AllStored
  <2>12. ~IsHalf(t2, m2, kept2)
    BY <2>3 DEF IsHalf
  <2>13. ~IsLate(t2, m2, kept2) => Same(m2, t2.new)
    BY <1>2, <2>3, <2>9, <2>10 DEF IsLate
  <2>14. ~IsLate(t2, m2, kept2) => BothHalves(m2) = kept2
    BY <2>6, <2>13, SameHalves
  <2> QED BY <2>4, <2>5, <2>7, <2>11, <2>12, <2>14 DEF Sound, InTurn, Midway
<1>6. CASE ~(~Same(t.new, t.mem) /\ ~Written(t, kept))
  <2>1. kept2 = kept /\ (Written(t2, kept2) <=> Written(t, kept))
    BY <1>6 DEF Written
  <2>2. Written(t, kept) => t.todo \in Between
    BY <1>2
  <2>3. \/ Written(t, kept) /\ Same(m, t.new)
        \/ ~Written(t, kept) /\ Same(m, t.mem) /\ Same(t.new, t.mem)
    BY <1>1, <1>2, <1>6, <2>2 DEF Progress, AllStored, Unstored, Half, Moves, Same
  <2>4. Same(m2, m)
    BY <2>3 DEF Same
  <2>5. m2 = m
    BY <2>4, SameIsEqual
  <2>6. ~Midway(t, m, kept)
    BY <1>3, <2>3 DEF Midway, IsHalf, Half, Moves, Same
  <2>7. ~Midway(t2, m, kept)
    BY <2>1, <2>3 DEF Midway, IsLate, IsHalf, Late, Half, Moves, Same
  <2>8. CurrentIsWhole(t2, kept, pieces)
    BY <1>1, <1>4, <2>1 DEF CurrentIsWhole
  <2>9. Progress(t2, m, kept)
    <3>1. \/ AllStored(t2, m, kept)
          \/ Unstored(t2, m, kept) /\ Same(t2.new, t2.mem)
      BY <2>1, <2>3 DEF AllStored, Unstored
    <3> QED BY <1>2, <1>4, <3>1, StagesDiffer DEF Progress
  <2>10. IsLate(o, m, kept) => ~IsCurrent(t2, kept)
    BY <1>1 DEF Midway
  <2> QED BY <2>1, <2>5, <2>6, <2>7, <2>8, <2>9, <2>10, StandsStill
<1> QED BY <1>5, <1>6

------------------------------------------------------------------------------
(* The invariant of a conversation                                          *)

Roles == {"user", "assistant"}
Fields == {"at", "script", "next", "drawing", "chat", "execute", "memory", "transcript", "rows", "rules", "cache",
           "saved", "kept", "spoiled", "lapses"}
StoreFields == {"at", "turn", "mem", "base", "drawing", "ground", "new", "out", "todo"}
AllPieces == [i \in 1..Len(dialog.script.requests) |-> Pieces(i)]

\* What a way's turn may be, and which words of it are in the transcript.
WayFits(t, kept, next) ==
    /\ TurnFits(t, kept)
    /\ t.at # "rest" => t.turn < next
    /\ Stores(t) => DOMAIN t = StoreFields
WayTold(way, t, transcript) ==
    /\ way = "execute" /\ t.at \in Working => IsTold(transcript, t.turn, "user")
    /\ Stores(t) /\ ~Same(t.new, t.mem) =>
        /\ Head(t.todo) # "user" => IsTold(transcript, t.turn, "user")
        /\ Head(t.todo) \notin {"user", "assistant"} => IsTold(transcript, t.turn, "assistant")

DialogShape ==
    /\ DOMAIN dialog = Fields /\ dialog.at = "on"
    /\ \E i \in DOMAIN Scripts : dialog.script = Scripts[i]
    /\ dialog.next \in Nat \ {0} /\ dialog.next <= Len(dialog.script.requests) + 1
    /\ dialog.memory \in Memories /\ dialog.kept \in Seq(Piece)
    /\ dialog.transcript \in Seq(Nat \X Roles) /\ dialog.spoiled \in BOOLEAN
DialogTurns ==
    /\ \A way \in Ways : WayFits(dialog[way], dialog.kept, dialog.next)
    /\ dialog.chat.at # "rest" /\ dialog.execute.at # "rest" => dialog.chat.turn # dialog.execute.turn
    /\ \A k \in DOMAIN dialog.kept : dialog.kept[k][1] < dialog.next
DialogTold ==
    /\ \A way \in Ways : WayTold(way, dialog[way], dialog.transcript)
    /\ \A k \in DOMAIN dialog.kept : \A role \in Roles :
            IsTold(dialog.transcript, dialog.kept[k][1], role)
DialogSound ==
    ~dialog.spoiled => Sound(dialog.chat, dialog.execute, dialog.memory, dialog.kept, AllPieces)
DialogInv ==
    dialog # NoDialog => DialogShape /\ DialogTurns /\ DialogTold /\ DialogSound

\* What a step does to the state that the invariant is about: the turn of `way`
\* becomes `t2`, and so on.
StepTo(way, t2, m2, kept2, told2, next2) ==
    /\ DOMAIN dialog' = Fields /\ dialog'.at = "on" /\ dialog'.script = dialog.script
    /\ dialog'[way] = t2 /\ \A o \in Ways \ {way} : dialog'[o] = dialog[o]
    /\ dialog'.memory = m2 /\ dialog'.kept = kept2 /\ dialog'.transcript = told2 /\ dialog'.next = next2

LEMMA RequestsFit ==
    ASSUME NEW i \in DOMAIN Scripts
    PROVE  /\ Len(Scripts[i].requests) \in Nat
           /\ \A k \in 1..Len(Scripts[i].requests) :
                Scripts[i].requests[k].by \in {"chat", "execute"} /\ Scripts[i].requests[k].pieces \in Nat \ {0}
<1>1. Scripts[i].requests \in Seq(ToSet(Scripts[i].requests)) /\ \A q \in ToSet(Scripts[i].requests) : IsTurn(q)
  BY ScriptsAssumption DEF IsScript, IsList
<1>2. \A k \in 1..Len(Scripts[i].requests) : Scripts[i].requests[k] \in ToSet(Scripts[i].requests)
  BY <1>1
<1> QED BY <1>1, <1>2 DEF IsTurn

LEMMA PiecesFit ==
    ASSUME DialogShape, NEW i \in 1..Len(dialog.script.requests)
    PROVE  /\ Pieces(i) \in Seq(Piece) /\ Len(Pieces(i)) > 0
           /\ \A k \in DOMAIN Pieces(i) : Pieces(i)[k][1] = i
           /\ AllPieces[i] = Pieces(i) /\ i \in Nat \ {0}
<1>1. Len(dialog.script.requests) \in Nat /\ dialog.script.requests[i].pieces \in Nat \ {0}
  BY RequestsFit DEF DialogShape
<1> DEFINE n == dialog.script.requests[i].pieces
<1>2. i \in Nat \ {0} /\ n \in Nat \ {0}
  BY <1>1
<1>3. Pieces(i) = [k \in 1..n |-> <<i, k>>]
  BY DEF Pieces, Request, Script
<1> HIDE DEF n
<1>4. \A k \in 1..n : <<i, k>> \in Piece /\ <<i, k>>[1] = i
  BY <1>2 DEF Piece
<1>5. Pieces(i) \in Seq(Piece) /\ Len(Pieces(i)) = n /\ DOMAIN Pieces(i) = 1..n
  BY <1>2, <1>3, <1>4
<1> QED BY <1>2, <1>3, <1>4, <1>5 DEF AllPieces

LEMMA SamePieces ==
    ASSUME dialog'.script = dialog.script
    PROVE  AllPieces' = AllPieces
BY DEF AllPieces, Pieces, Request, Script

LEMMA ToldStays ==
    ASSUME NEW transcript \in Seq(Nat \X Roles), NEW i, NEW role, NEW x \in Nat \X Roles
    PROVE  /\ IsTold(transcript, i, role) => IsTold(Append(transcript, x), i, role)
           /\ x = <<i, role>> => IsTold(Append(transcript, x), i, role)
           /\ Append(transcript, x) \in Seq(Nat \X Roles)
<1>1. /\ Append(transcript, x) \in Seq(Nat \X Roles)
      /\ DOMAIN Append(transcript, x) = 1..(Len(transcript) + 1) /\ DOMAIN transcript = 1..Len(transcript)
      /\ Append(transcript, x)[Len(transcript) + 1] = x
      /\ \A k \in 1..Len(transcript) : Append(transcript, x)[k] = transcript[k]
  OBVIOUS
<1>2. \A k \in 1..Len(transcript) : k \in 1..(Len(transcript) + 1)
  BY <1>1
<1>3. Len(transcript) + 1 \in 1..(Len(transcript) + 1)
  OBVIOUS
<1> QED BY <1>1, <1>2, <1>3 DEF IsTold

\* The pieces of one turn are added: the others have what they had.
LEMMA GrownFits ==
    ASSUME NEW t, NEW kept \in Seq(Piece), NEW added \in Seq(Piece), NEW i, TurnFits(t, kept),
           \A k \in DOMAIN added : added[k][1] = i, t.at = "rest" \/ t.turn # i
    PROVE  TurnFits(t, kept \o added)
<1>1. /\ kept \o added \in Seq(Piece) /\ Len(kept \o added) = Len(kept) + Len(added)
      /\ \A k \in 1..(Len(kept) + Len(added)) : (kept \o added)[k] = IF k <= Len(kept) THEN kept[k] ELSE added[k - Len(kept)]
  BY ConcatProperties
<1>2. CASE t.at = "rest"
  BY <1>2 DEF TurnFits, Stores, Working
<1>3. CASE t.turn # i
  <2>1. Written(t, kept \o added) => Written(t, kept)
    <3> SUFFICES ASSUME Written(t, kept \o added) PROVE Written(t, kept)
      OBVIOUS
    <3>1. PICK k \in 1..Len(kept \o added) : (kept \o added)[k][1] = t.turn
      BY <1>1, HasPieceAt DEF Written
    <3>2. k <= Len(kept)
      <4> SUFFICES ASSUME k > Len(kept) PROVE FALSE
        BY <1>1
      <4>1. k - Len(kept) \in 1..Len(added) /\ (kept \o added)[k] = added[k - Len(kept)]
        BY <1>1
      <4> QED BY <1>3, <3>1, <4>1
    <3>3. k \in 1..Len(kept) /\ kept[k][1] = t.turn
      BY <1>1, <3>1, <3>2
    <3> QED BY <3>3, HasPieceAt DEF Written
  <2>2. Len(kept) <= Len(kept \o added)
    BY <1>1
  <2>3. t.at \in Working /\ t.base # Unknown => t.base \in Seq(Piece) /\ Len(t.base) <= Len(kept \o added)
    <3> SUFFICES ASSUME t.at \in Working, t.base # Unknown
                 PROVE  t.base \in Seq(Piece) /\ Len(t.base) <= Len(kept \o added)
      OBVIOUS
    <3>1. t.base \in Seq(Piece) /\ Len(t.base) <= Len(kept)
      BY DEF TurnFits
    <3> QED BY <1>1, <2>2, <3>1
  <2> QED BY <2>1, <2>3 DEF TurnFits
<1> QED BY <1>2, <1>3

LEMMA StepKeepsTurns ==
    ASSUME DialogShape, DialogTurns, NEW way \in Ways, NEW t2, NEW m2 \in Memories, NEW kept2,
           NEW told2 \in Seq(Nat \X Roles), NEW next2,
           StepTo(way, t2, m2, kept2, told2, next2), dialog'.spoiled \in BOOLEAN,
           WayFits(t2, kept2, next2),
           \/ t2.at = "rest"
           \/ t2.turn = dialog[way].turn /\ dialog[way].at # "rest"
           \/ t2.turn = dialog.next,
           next2 = dialog.next \/ (next2 = dialog.next + 1 /\ dialog.next <= Len(dialog.script.requests)),
           \/ kept2 = dialog.kept
           \/ dialog[way].at # "rest" /\ kept2 = dialog.kept \o AllPieces[dialog[way].turn]
    PROVE  DialogShape' /\ DialogTurns'
<1> DEFINE kept == dialog.kept
           i == dialog[way].turn
<1>1. kept \in Seq(Piece) /\ dialog.next \in Nat \ {0} /\ next2 \in Nat \ {0} /\ dialog.next <= next2
  BY DEF DialogShape
<1>2. /\ \A w \in Ways : WayFits(dialog[w], kept, dialog.next)
      /\ \A k \in DOMAIN kept : kept[k][1] < dialog.next
      /\ dialog.chat.at # "rest" /\ dialog.execute.at # "rest" => dialog.chat.turn # dialog.execute.turn
  BY DEF DialogTurns
<1>3. ASSUME dialog[way].at # "rest"
      PROVE  /\ AllPieces[i] \in Seq(Piece) /\ i < dialog.next /\ i \in Nat
             /\ \A k \in DOMAIN AllPieces[i] : AllPieces[i][k][1] = i
  <2>1. i \in Nat \ {0} /\ i < dialog.next
    BY <1>2, <1>3 DEF WayFits, TurnFits
  <2>2. Len(dialog.script.requests) \in Nat
    BY RequestsFit DEF DialogShape
  <2>3. i \in 1..Len(dialog.script.requests)
    BY <1>1, <2>1, <2>2 DEF DialogShape
  <2> QED BY <2>1, <2>3, PiecesFit
<1>4. /\ dialog'[way] = t2 /\ \A o \in Ways \ {way} : dialog'[o] = dialog[o]
      /\ dialog'.kept = kept2 /\ dialog'.next = next2 /\ dialog'.memory = m2 /\ dialog'.transcript = told2
      /\ DOMAIN dialog' = Fields /\ dialog'.at = "on" /\ dialog'.script = dialog.script
  BY DEF StepTo
<1>5. kept2 \in Seq(Piece)
  <2>1. CASE dialog[way].at # "rest" /\ kept2 = kept \o AllPieces[i]
    <3>1. AllPieces[i] \in Seq(Piece)
      BY <1>3, <2>1
    <3>2. kept \o AllPieces[i] \in Seq(Piece)
      BY <1>1, <3>1, ConcatProperties
    <3> QED BY <2>1, <3>2
  <2> QED BY <1>1, <2>1
<1>6. \A k \in DOMAIN kept2 : kept2[k][1] < next2
  <2>1. CASE kept2 = kept
    <3> SUFFICES ASSUME NEW k \in DOMAIN kept PROVE kept[k][1] < next2
      BY <2>1
    <3>1. kept[k][1] \in Nat /\ kept[k][1] < dialog.next
      BY <1>1, <1>2, PieceOfSeq
    <3> QED BY <1>1, <3>1
  <2>2. CASE dialog[way].at # "rest" /\ kept2 = kept \o AllPieces[i]
    <3> DEFINE added == AllPieces[i]
    <3>1. added \in Seq(Piece) /\ i < dialog.next /\ i \in Nat /\ \A k \in DOMAIN added : added[k][1] = i
      BY <1>3, <2>2
    <3> HIDE DEF added
    <3>2. /\ Len(kept \o added) = Len(kept) + Len(added) /\ kept \o added \in Seq(Piece)
          /\ \A k \in 1..(Len(kept) + Len(added)) : (kept \o added)[k] = IF k <= Len(kept) THEN kept[k] ELSE added[k - Len(kept)]
      BY <1>1, <3>1, ConcatProperties
    <3>3. ASSUME NEW k \in 1..Len(kept \o added) PROVE (kept \o added)[k][1] < next2
      <4>1. CASE k <= Len(kept)
        <5>1. kept[k][1] \in Nat /\ kept[k][1] < dialog.next /\ (kept \o added)[k] = kept[k]
          BY <1>1, <1>2, <3>2, <4>1, PieceOfSeq
        <5> QED BY <1>1, <5>1
      <4>2. CASE k > Len(kept)
        <5>1. k - Len(kept) \in DOMAIN added /\ (kept \o added)[k] = added[k - Len(kept)]
          BY <1>1, <3>1, <3>2, <4>2
        <5> QED BY <1>1, <3>1, <5>1
      <4> QED BY <1>1, <4>1, <4>2
    <3>4. kept2 = kept \o added
      BY <2>2 DEF added
    <3>5. DOMAIN kept2 = 1..Len(kept \o added)
      BY <3>2, <3>4
    <3> QED BY <3>3, <3>4, <3>5
  <2> QED BY <2>1, <2>2
<1>7. ASSUME NEW o \in Ways, o # way PROVE WayFits(dialog[o], kept2, next2) /\ (dialog[o].at # "rest" => dialog[o].turn < dialog.next)
  <2>1. WayFits(dialog[o], kept, dialog.next)
    BY <1>2
  <2>2. dialog[o].at # "rest" => dialog[o].turn \in Nat /\ dialog[o].turn < dialog.next
    BY <2>1 DEF WayFits, TurnFits
  <2>3. TurnFits(dialog[o], kept2)
    <3>1. CASE kept2 = kept
      BY <2>1, <3>1 DEF WayFits
    <3>2. CASE dialog[way].at # "rest" /\ kept2 = kept \o AllPieces[i]
      <4>1. dialog[o].at = "rest" \/ dialog[o].turn # i
        BY <1>2, <1>7, <3>2 DEF Ways
      <4>2. AllPieces[i] \in Seq(Piece) /\ \A k \in DOMAIN AllPieces[i] : AllPieces[i][k][1] = i
        BY <1>3, <3>2
      <4>3. TurnFits(dialog[o], kept)
        BY <2>1 DEF WayFits
      <4>4. TurnFits(dialog[o], kept \o AllPieces[i])
        BY <1>1, <4>1, <4>2, <4>3, GrownFits
      <4> QED BY <3>2, <4>4
    <3> QED BY <3>1, <3>2
  <2>4. dialog[o].at # "rest" => dialog[o].turn < next2
    BY <1>1, <2>2
  <2> QED BY <2>1, <2>2, <2>3, <2>4 DEF WayFits
<1>8. \A w \in Ways : WayFits(dialog'[w], dialog'.kept, dialog'.next)
  <2> SUFFICES ASSUME NEW w \in Ways PROVE WayFits(dialog'[w], kept2, next2)
    BY <1>4
  <2>1. CASE w = way
    BY <1>4, <2>1
  <2>2. CASE w # way
    BY <1>4, <1>7, <2>2
  <2> QED BY <2>1, <2>2
<1>9. ASSUME NEW o \in Ways, o # way, t2.at # "rest", dialog[o].at # "rest" PROVE t2.turn # dialog[o].turn
  <2>1. CASE t2.turn = dialog[way].turn /\ dialog[way].at # "rest"
    BY <1>2, <1>9, <2>1 DEF Ways
  <2>2. CASE t2.turn = dialog.next
    BY <1>1, <1>7, <1>9, <2>2
  <2> QED BY <1>9, <2>1, <2>2
<1>10. dialog'.chat.at # "rest" /\ dialog'.execute.at # "rest" => dialog'.chat.turn # dialog'.execute.turn
  <2>1. CASE way = "chat"
    <3>1. dialog'.chat = t2 /\ dialog'.execute = dialog.execute
      BY <1>4, <2>1 DEF Ways
    <3> QED BY <1>9, <2>1, <3>1 DEF Ways
  <2>2. CASE way = "execute"
    <3>1. dialog'.execute = t2 /\ dialog'.chat = dialog.chat
      BY <1>4, <2>2 DEF Ways
    <3> QED BY <1>9, <2>2, <3>1 DEF Ways
  <2> QED BY <2>1, <2>2 DEF Ways
<1>11. DialogTurns'
  BY <1>4, <1>6, <1>8, <1>10 DEF DialogTurns
<1>12. next2 <= Len(dialog.script.requests) + 1
  <2>1. Len(dialog.script.requests) \in Nat /\ dialog.next <= Len(dialog.script.requests) + 1
    BY RequestsFit DEF DialogShape
  <2> QED BY <1>1, <2>1
<1>13. DialogShape'
  BY <1>1, <1>4, <1>5, <1>12 DEF DialogShape
<1> QED BY <1>11, <1>13

\* Nothing in the transcript is taken back.
LEMMA StepKeepsTold ==
    ASSUME DialogShape, DialogTold, NEW way \in Ways, NEW t2, NEW m2, NEW kept2, NEW told2, NEW next2,
           StepTo(way, t2, m2, kept2, told2, next2),
           told2 = dialog.transcript \/ \E x \in Nat \X Roles : told2 = Append(dialog.transcript, x),
           WayTold(way, t2, told2),
           \A k \in DOMAIN kept2 : \/ \E j \in DOMAIN dialog.kept : dialog.kept[j][1] = kept2[k][1]
                                   \/ \A role \in Roles : IsTold(told2, kept2[k][1], role)
    PROVE  DialogTold'
<1>1. ASSUME NEW i, NEW role, IsTold(dialog.transcript, i, role) PROVE IsTold(told2, i, role)
  BY <1>1, ToldStays DEF DialogShape
<1>2. /\ dialog'[way] = t2 /\ \A o \in Ways \ {way} : dialog'[o] = dialog[o]
      /\ dialog'.kept = kept2 /\ dialog'.transcript = told2
  BY DEF StepTo
<1>3. ASSUME NEW o \in Ways, o # way PROVE WayTold(o, dialog[o], told2)
  <2>1. WayTold(o, dialog[o], dialog.transcript)
    BY DEF DialogTold
  <2> QED BY <1>1, <2>1 DEF WayTold
<1>4. \A w \in Ways : WayTold(w, dialog'[w], dialog'.transcript)
  <2> SUFFICES ASSUME NEW w \in Ways PROVE WayTold(w, dialog'[w], told2)
    BY <1>2
  <2>1. CASE w = way
    BY <1>2, <2>1
  <2>2. CASE w # way
    BY <1>2, <1>3, <2>2
  <2> QED BY <2>1, <2>2
<1>5. \A k \in DOMAIN kept2 : \A role \in Roles : IsTold(told2, kept2[k][1], role)
  <2> SUFFICES ASSUME NEW k \in DOMAIN kept2, NEW role \in Roles
               PROVE  IsTold(told2, kept2[k][1], role)
    OBVIOUS
  <2>1. CASE \E j \in DOMAIN dialog.kept : dialog.kept[j][1] = kept2[k][1]
    <3>1. PICK j \in DOMAIN dialog.kept : dialog.kept[j][1] = kept2[k][1]
      BY <2>1
    <3>2. IsTold(dialog.transcript, dialog.kept[j][1], role)
      BY DEF DialogTold
    <3> QED BY <1>1, <3>1, <3>2
  <2> QED BY <2>1
<1> QED BY <1>2, <1>4, <1>5 DEF DialogTold

LEMMA StepKeepsSound ==
    ASSUME NEW way \in Ways, NEW o \in Ways \ {way}, NEW t2, NEW m2, NEW kept2, NEW told2, NEW next2,
           StepTo(way, t2, m2, kept2, told2, next2),
           ~dialog'.spoiled => Sound(t2, dialog[o], m2, kept2, AllPieces)
    PROVE  DialogSound'
<1>1. /\ dialog'[way] = t2 /\ dialog'[o] = dialog[o] /\ dialog'.memory = m2 /\ dialog'.kept = kept2
      /\ AllPieces' = AllPieces
  BY SamePieces DEF StepTo
<1> SUFFICES ASSUME ~dialog'.spoiled
             PROVE  Sound(dialog'.chat, dialog'.execute, dialog'.memory, dialog'.kept, AllPieces')
  BY DEF DialogSound
<1>2. Sound(t2, dialog[o], m2, kept2, AllPieces)
  OBVIOUS
<1>3. Sound(dialog[o], t2, m2, kept2, AllPieces)
  BY <1>2, SoundBothWays
<1>4. CASE way = "chat"
  BY <1>1, <1>2, <1>4 DEF Ways
<1>5. CASE way = "execute"
  BY <1>1, <1>3, <1>5 DEF Ways
<1> QED BY <1>4, <1>5 DEF Ways

\* What a step has to show.
LEMMA StepKeeps ==
    ASSUME DialogShape, DialogTurns, DialogTold, NEW way \in Ways, NEW o \in Ways \ {way},
           NEW t2, NEW m2 \in Memories, NEW kept2, NEW told2, NEW next2,
           StepTo(way, t2, m2, kept2, told2, next2), dialog'.spoiled \in BOOLEAN,
           WayFits(t2, kept2, next2),
           \/ t2.at = "rest"
           \/ t2.turn = dialog[way].turn /\ dialog[way].at # "rest"
           \/ t2.turn = dialog.next,
           next2 = dialog.next \/ (next2 = dialog.next + 1 /\ dialog.next <= Len(dialog.script.requests)),
           \/ kept2 = dialog.kept
           \/ dialog[way].at # "rest" /\ kept2 = dialog.kept \o AllPieces[dialog[way].turn],
           told2 = dialog.transcript \/ \E x \in Nat \X Roles : told2 = Append(dialog.transcript, x),
           WayTold(way, t2, told2),
           \A k \in DOMAIN kept2 : \/ \E j \in DOMAIN dialog.kept : dialog.kept[j][1] = kept2[k][1]
                                   \/ \A role \in Roles : IsTold(told2, kept2[k][1], role),
           ~dialog'.spoiled => Sound(t2, dialog[o], m2, kept2, AllPieces)
    PROVE  DialogInv'
<1>1. told2 \in Seq(Nat \X Roles)
  BY ToldStays DEF DialogShape
<1>2. DialogShape' /\ DialogTurns'
  BY <1>1, StepKeepsTurns
<1>3. DialogTold'
  BY StepKeepsTold
<1>4. DialogSound'
  BY StepKeepsSound
<1> QED BY <1>2, <1>3, <1>4 DEF DialogInv

\* A step that leaves the memory and the transcript alone.
LEMMA QuietStep ==
    ASSUME DialogShape, DialogTurns, DialogTold, NEW way \in Ways, NEW o \in Ways \ {way}, NEW t2, NEW next2,
           StepTo(way, t2, dialog.memory, dialog.kept, dialog.transcript, next2), dialog'.spoiled \in BOOLEAN,
           WayFits(t2, dialog.kept, next2),
           \/ t2.at = "rest"
           \/ t2.turn = dialog[way].turn /\ dialog[way].at # "rest"
           \/ t2.turn = dialog.next,
           next2 = dialog.next \/ (next2 = dialog.next + 1 /\ dialog.next <= Len(dialog.script.requests)),
           WayTold(way, t2, dialog.transcript),
           ~dialog'.spoiled => Sound(t2, dialog[o], dialog.memory, dialog.kept, AllPieces)
    PROVE  DialogInv'
<1>1. dialog.memory \in Memories
  BY DEF DialogShape
<1> QED BY <1>1, StepKeeps

------------------------------------------------------------------------------
(* The steps of a conversation                                              *)

LEMMA RestIsRest == Rest.at = "rest" /\ ~Stores(Rest)
BY DEF Rest, Stores

LEMMA OthersKeep ==
    ASSUME DialogShape, DialogTurns, DialogTold, DialogSound,
           SaveRules \/ InvalidateMappingCache \/ Edit
    PROVE  DialogInv'
<1>1. /\ StepTo("chat", dialog.chat, dialog.memory, dialog.kept, dialog.transcript, dialog.next)
      /\ dialog'.spoiled = dialog.spoiled
  BY DEF StepTo, DialogShape, Fields, Ways, SaveRules, InvalidateMappingCache, Edit
<1>2. WayFits(dialog.chat, dialog.kept, dialog.next) /\ WayTold("chat", dialog.chat, dialog.transcript)
  BY DEF DialogTurns, DialogTold, Ways
<1>3. dialog'.spoiled \in BOOLEAN
  BY <1>1 DEF DialogShape
<1>4. ~dialog'.spoiled => Sound(dialog.chat, dialog.execute, dialog.memory, dialog.kept, AllPieces)
  BY <1>1 DEF DialogSound
<1> QED BY <1>1, <1>2, <1>3, <1>4, QuietStep DEF Ways

LEMMA TurnStarts ==
    ASSUME DialogShape, DialogTurns, DialogTold, DialogSound, StartTurn
    PROVE  DialogInv'
<1> DEFINE way == dialog.script.requests[dialog.next].by
           t2 == [at |-> "load", turn |-> dialog.next]
<1>0. /\ dialog.next <= Len(dialog.script.requests) /\ dialog[way] = Rest
      /\ dialog' = [dialog EXCEPT ![way] = t2, !.next = @ + 1]
  BY DEF StartTurn, Request, Script
<1>1. dialog.next \in Nat \ {0} /\ dialog.next <= Len(dialog.script.requests)
  BY <1>0 DEF DialogShape
<1>a. dialog[way].at = "rest"
  BY <1>0, RestIsRest
<1>2. way \in Ways
  <2>1. PICK i \in DOMAIN Scripts : dialog.script = Scripts[i]
    BY DEF DialogShape
  <2>2. Len(dialog.script.requests) \in Nat
    BY <2>1, RequestsFit
  <2>3. dialog.next \in 1..Len(dialog.script.requests)
    BY <1>1, <2>2
  <2> QED BY <2>1, <2>3, RequestsFit DEF Ways
<1>3. PICK o \in Ways : o # way
  BY <1>2 DEF Ways
<1>4. /\ StepTo(way, t2, dialog.memory, dialog.kept, dialog.transcript, dialog.next + 1)
      /\ dialog'.spoiled = dialog.spoiled
  BY <1>0, <1>2 DEF StepTo, DialogShape, Fields, Ways
<1>5. t2.at = "load" /\ t2.turn = dialog.next /\ ~Stores(t2)
  BY DEF Stores
<1>6. ~Written(t2, dialog.kept)
  <2> SUFFICES ASSUME Written(t2, dialog.kept) PROVE FALSE
    OBVIOUS
  <2>1. PICK k \in DOMAIN dialog.kept : dialog.kept[k][1] = dialog.next
    BY <1>5 DEF Written, HasPiece
  <2>2. dialog.kept[k][1] < dialog.next
    BY DEF DialogTurns
  <2> QED BY <1>1, <2>1, <2>2
<1> HIDE DEF way, t2
<1>7. WayFits(t2, dialog.kept, dialog.next + 1)
  <2>1. t2.turn < dialog.next + 1 /\ t2.turn \in Nat \ {0}
    BY <1>1, <1>5
  <2>2. TurnFits(t2, dialog.kept)
    BY <1>5, <1>6, <2>1 DEF TurnFits, Working
  <2> QED BY <1>5, <2>1, <2>2 DEF WayFits
<1>8. WayTold(way, t2, dialog.transcript)
  BY <1>5 DEF WayTold, Working
<1>9. ~dialog'.spoiled => Sound(t2, dialog[o], dialog.memory, dialog.kept, AllPieces)
  <2> SUFFICES ASSUME ~dialog.spoiled PROVE Sound(t2, dialog[o], dialog.memory, dialog.kept, AllPieces)
    BY <1>4
  <2>1. Sound(dialog[way], dialog[o], dialog.memory, dialog.kept, AllPieces)
    BY <1>2, <1>3, SoundBothWays DEF DialogSound, Ways
  <2>2. ~Midway(dialog[way], dialog.memory, dialog.kept)
    BY <1>a, NotStored
  <2> QED BY <1>5, <2>1, <2>2, Leaves
<1>10. dialog'.spoiled \in BOOLEAN
  BY <1>4 DEF DialogShape
<1>11. o \in Ways \ {way} /\ t2.turn = dialog.next
  BY <1>3, <1>5
<1>12. StepTo(way, t2, dialog.memory, dialog.kept, dialog.transcript, dialog.next + 1)
  BY <1>4
<1> QED BY <1>1, <1>2, <1>7, <1>8, <1>9, <1>10, <1>11, <1>12, QuietStep

LEMMA TornIsTorn == \A t : Torn(t) <=> IsTorn(t, dialog.memory)
BY DEF Torn, IsTorn, Moves

LEMMA LoadedIs ==
    ASSUME DialogShape, NEW way \in Ways, NEW memoryFails \in BOOLEAN, NEW drawingFails \in BOOLEAN
    PROVE  LET t2 == Loaded(way, memoryFails, drawingFails) IN
           /\ t2.at = "node" /\ t2.turn = dialog[way].turn /\ t2.mem \in Memories
           /\ \/ t2.base = Unknown
              \/ /\ t2.base = dialog.kept /\ t2.mem = dialog.memory
                 /\ \A other \in Ways : ~IsTorn(dialog[other], dialog.memory)
<1> DEFINE t2 == Loaded(way, memoryFails, drawingFails)
<1>1. /\ t2.at = "node" /\ t2.turn = dialog[way].turn
      /\ t2.mem = IF memoryFails THEN NoMemory ELSE dialog.memory
      /\ t2.base = IF (memoryFails /\ dialog.memory # NoMemory) \/ \E other \in Ways : Torn(dialog[other])
                   THEN Unknown ELSE dialog.kept
  BY DEF Loaded
<1> HIDE DEF t2
<1>2. NoMemory \in Memories
  BY DEF NoMemory, Memories
<1>3. t2.mem \in Memories
  BY <1>1, <1>2 DEF DialogShape
<1>4. Ways = Ways
  BY DEF Ways
<1>5. CASE (memoryFails /\ dialog.memory # NoMemory) \/ \E other \in Ways : Torn(dialog[other])
  <2>1. t2.base = Unknown
    BY <1>1, <1>5
  <2> QED BY <1>1, <1>3, <2>1 DEF t2
<1>6. CASE ~((memoryFails /\ dialog.memory # NoMemory) \/ \E other \in Ways : Torn(dialog[other]))
  <2>1. t2.base = dialog.kept /\ t2.mem = dialog.memory
    BY <1>1, <1>6
  <2>2. \A other \in Ways : ~IsTorn(dialog[other], dialog.memory)
    BY <1>4, <1>6, TornIsTorn
  <2> QED BY <1>1, <1>3, <2>1, <2>2 DEF t2
<1> QED BY <1>5, <1>6

\* A turn that loads, whatever it can read.
LEMMA LoadingKeeps ==
    ASSUME DialogShape, DialogTurns, DialogTold, DialogSound, NEW way \in Ways, NEW t2, NEW told2,
           dialog[way].at = "load", t2.at = "node", t2.turn = dialog[way].turn, t2.mem \in Memories,
           \/ t2.base = Unknown
           \/ /\ t2.base = dialog.kept /\ t2.mem = dialog.memory
              /\ \A other \in Ways : ~IsTorn(dialog[other], dialog.memory),
           \/ told2 = dialog.transcript /\ way = "chat"
           \/ told2 = Append(dialog.transcript, <<t2.turn, "user">>),
           StepTo(way, t2, dialog.memory, dialog.kept, told2, dialog.next), dialog'.spoiled = dialog.spoiled
    PROVE  DialogInv'
<1> DEFINE t == dialog[way]
           m == dialog.memory
           kept == dialog.kept
<1>1. m \in Memories /\ kept \in Seq(Piece) /\ dialog'.spoiled \in BOOLEAN /\ dialog.transcript \in Seq(Nat \X Roles)
  BY DEF DialogShape
<1>2. WayFits(t, kept, dialog.next)
  BY DEF DialogTurns
<1>3. TurnFits(t, kept) /\ t.turn < dialog.next /\ t.turn \in Nat \ {0} /\ ~Written(t, kept)
  BY <1>2 DEF WayFits, TurnFits
<1>4. ~Stores(t2) /\ ~Written(t2, kept)
  BY <1>3 DEF Stores, Written
<1>5. Len(kept) \in Nat
  BY <1>1
<1>6. TurnFits(t2, kept)
  BY <1>1, <1>3, <1>4, <1>5 DEF TurnFits, Working
<1>7. WayFits(t2, kept, dialog.next)
  BY <1>3, <1>4, <1>6 DEF WayFits
<1>8. <<t2.turn, "user">> \in Nat \X Roles
  BY <1>3 DEF Roles
<1>9. told2 = dialog.transcript \/ \E x \in Nat \X Roles : told2 = Append(dialog.transcript, x)
  BY <1>8
<1>10. WayTold(way, t2, told2)
  <2>1. way = "execute" => IsTold(told2, t2.turn, "user")
    BY <1>1, <1>8, ToldStays
  <2> QED BY <1>4, <2>1 DEF WayTold
<1>0. PICK o \in Ways : o # way
  BY DEF Ways
<1>11. o \in Ways \ {way}
  BY <1>0
<1>12. ~dialog'.spoiled => Sound(t2, dialog[o], m, kept, AllPieces)
  <2> SUFFICES ASSUME ~dialog.spoiled PROVE Sound(t2, dialog[o], m, kept, AllPieces)
    OBVIOUS
  <2>1. Sound(t, dialog[o], m, kept, AllPieces)
    BY <1>0, SoundBothWays DEF DialogSound, Ways
  <2>2. t2.base = Unknown \/ (t2.base = kept /\ t2.mem = m /\ ~IsTorn(dialog[o], m))
    OBVIOUS
  <2> HIDE DEF t, m, kept
  <2>3. t.at = "load" /\ t2.turn = t.turn
    BY DEF t
  <2> QED BY <1>1, <1>3, <2>1, <2>2, <2>3, Loads
<1>13. \A k \in DOMAIN kept : \E j \in DOMAIN dialog.kept : dialog.kept[j][1] = kept[k][1]
  OBVIOUS
<1>14. t2.turn = dialog[way].turn /\ dialog[way].at # "rest"
  OBVIOUS
<1> QED BY <1>1, <1>7, <1>9, <1>10, <1>11, <1>12, <1>13, <1>14, StepKeeps

LEMMA LoadChatKeeps ==
    ASSUME DialogShape, DialogTurns, DialogTold, DialogSound, LoadChat
    PROVE  DialogInv'
<1>1. PICK memoryFails \in BOOLEAN, drawingFails \in BOOLEAN :
        \E lapses : dialog' = [dialog EXCEPT !.chat = Loaded("chat", memoryFails, drawingFails), !.lapses = lapses]
  BY DEF LoadChat
<1> DEFINE t2 == Loaded("chat", memoryFails, drawingFails)
<1>2. /\ t2.at = "node" /\ t2.turn = dialog["chat"].turn /\ t2.mem \in Memories
      /\ \/ t2.base = Unknown
         \/ /\ t2.base = dialog.kept /\ t2.mem = dialog.memory
            /\ \A other \in Ways : ~IsTorn(dialog[other], dialog.memory)
  BY LoadedIs DEF Ways
<1> HIDE DEF t2
<1>3. dialog["chat"].at = "load"
  BY DEF LoadChat
<1>4. PICK lapses : dialog' = [dialog EXCEPT !.chat = t2, !.lapses = lapses]
  BY <1>1 DEF t2
<1>5. /\ StepTo("chat", t2, dialog.memory, dialog.kept, dialog.transcript, dialog.next)
      /\ dialog'.spoiled = dialog.spoiled
  BY <1>4 DEF StepTo, DialogShape, Fields, Ways
<1> QED BY <1>2, <1>3, <1>5, LoadingKeeps DEF Ways

LEMMA LoadExecuteKeeps ==
    ASSUME DialogShape, DialogTurns, DialogTold, DialogSound, LoadExecute
    PROVE  DialogInv'
<1> DEFINE t2 == Loaded("execute", FALSE, FALSE)
           told2 == Append(dialog.transcript, <<t2.turn, "user">>)
<1>2. /\ t2.at = "node" /\ t2.turn = dialog["execute"].turn /\ t2.mem \in Memories
      /\ \/ t2.base = Unknown
         \/ /\ t2.base = dialog.kept /\ t2.mem = dialog.memory
            /\ \A other \in Ways : ~IsTorn(dialog[other], dialog.memory)
  BY LoadedIs DEF Ways
<1>3. dialog["execute"].at = "load"
  BY DEF LoadExecute
<1>4. dialog' = [dialog EXCEPT !.execute = t2, !.transcript = Append(@, <<dialog.execute.turn, "user">>)]
  BY DEF LoadExecute
<1> HIDE DEF t2
<1>5. /\ StepTo("execute", t2, dialog.memory, dialog.kept, told2, dialog.next)
      /\ dialog'.spoiled = dialog.spoiled
  BY <1>2, <1>4 DEF StepTo, DialogShape, Fields, Ways
<1> QED BY <1>2, <1>3, <1>5, LoadingKeeps DEF Ways

\* A turn that is given up leaves the memory as it is; that is said to be spoiled
\* when one half is stored.
LEMMA GivingUpKeeps ==
    ASSUME DialogShape, DialogTurns, DialogTold, DialogSound, NEW way \in Ways,
           StepTo(way, Rest, dialog.memory, dialog.kept, dialog.transcript, dialog.next),
           dialog'.spoiled \in BOOLEAN,
           ~dialog'.spoiled => ~dialog.spoiled /\ ~Midway(dialog[way], dialog.memory, dialog.kept)
    PROVE  DialogInv'
<1> DEFINE rest == Rest
<1>1. rest.at = "rest" /\ ~Stores(rest)
  BY RestIsRest
<1> HIDE DEF rest
<1>2. WayFits(rest, dialog.kept, dialog.next) /\ WayTold(way, rest, dialog.transcript)
  BY <1>1 DEF WayFits, WayTold, TurnFits, Working
<1>3. PICK o \in Ways : o # way
  BY DEF Ways
<1>4. ~dialog'.spoiled => Sound(rest, dialog[o], dialog.memory, dialog.kept, AllPieces)
  <2> SUFFICES ASSUME ~dialog'.spoiled PROVE Sound(rest, dialog[o], dialog.memory, dialog.kept, AllPieces)
    OBVIOUS
  <2>1. Sound(dialog[way], dialog[o], dialog.memory, dialog.kept, AllPieces)
    BY <1>3, SoundBothWays DEF DialogSound, Ways
  <2> QED BY <1>1, <2>1, Leaves
<1>5. StepTo(way, rest, dialog.memory, dialog.kept, dialog.transcript, dialog.next) /\ o \in Ways \ {way}
  BY <1>3 DEF rest
<1> QED BY <1>1, <1>2, <1>4, <1>5, QuietStep

LEMMA OverKeeps ==
    ASSUME DialogShape, DialogTurns, DialogTold, DialogSound, NEW way \in Ways, GiveUp(way)
    PROVE  DialogInv'
<1>1. /\ StepTo(way, Rest, dialog.memory, dialog.kept, dialog.transcript, dialog.next)
      /\ dialog'.spoiled = (dialog.spoiled \/ Torn(dialog[way]))
  BY DEF StepTo, DialogShape, Fields, Ways, GiveUp
<1>2. dialog'.spoiled \in BOOLEAN
  BY <1>1 DEF DialogShape
<1>3. ~dialog'.spoiled => ~dialog.spoiled /\ ~Midway(dialog[way], dialog.memory, dialog.kept)
  <2> SUFFICES ASSUME ~dialog'.spoiled PROVE ~dialog.spoiled /\ ~Midway(dialog[way], dialog.memory, dialog.kept)
    OBVIOUS
  <2>1. ~dialog.spoiled /\ ~IsTorn(dialog[way], dialog.memory)
    BY <1>1, TornIsTorn
  <2>2. CurrentIsWhole(dialog[way], dialog.kept, AllPieces)
    BY <2>1 DEF DialogSound, Sound, Ways
  <2> QED BY <2>1, <2>2, MidwayIsTorn
<1> QED BY <1>1, <1>2, <1>3, GivingUpKeeps

LEMMA CompressFailsKeeps ==
    ASSUME DialogShape, DialogTurns, DialogTold, DialogSound, NEW way \in Ways, CompressFails(way)
    PROVE  DialogInv'
<1>1. dialog[way].at = "tools"
  BY DEF CompressFails
<1>2. /\ StepTo(way, Rest, dialog.memory, dialog.kept, dialog.transcript, dialog.next)
      /\ dialog'.spoiled = dialog.spoiled
  BY DEF StepTo, DialogShape, Fields, Ways, CompressFails
<1>3. ~Midway(dialog[way], dialog.memory, dialog.kept)
  BY <1>1, NotStored
<1>4. dialog'.spoiled \in BOOLEAN
  BY <1>2 DEF DialogShape
<1> QED BY <1>2, <1>3, <1>4, GivingUpKeeps

LEMMA PreparesKeeps ==
    ASSUME DialogShape, DialogTurns, DialogTold, DialogSound, NEW way \in Ways, Prepares(way)
    PROVE  DialogInv'
<1>1. dialog[way].at = "node"
  BY DEF Prepares
<1>2. PICK q, d, intent, slip, under, names : Prepared(way, q, d, intent, under, names, slip)
  BY DEF Prepares
<1>3. PICK ground, rules2, cache2, lapses2 :
        dialog' = [dialog EXCEPT ![way] = Grounded(dialog[way], ground), !.rules = rules2, !.cache = cache2,
                                 !.lapses = lapses2]
  BY <1>2 DEF Prepared
<1> DEFINE t == dialog[way]
           t2 == Grounded(t, ground)
<1>4. /\ t2.at = "tools" /\ t2.turn = t.turn /\ t2.mem = t.mem /\ t2.base = t.base /\ t.at = "node"
  BY <1>1 DEF Grounded
<1> HIDE DEF t2
<1>5. /\ StepTo(way, t2, dialog.memory, dialog.kept, dialog.transcript, dialog.next)
      /\ dialog'.spoiled = dialog.spoiled
  BY <1>3 DEF StepTo, DialogShape, Fields, Ways, t2
<1>6. WayFits(t, dialog.kept, dialog.next) /\ WayTold(way, t, dialog.transcript)
  BY DEF DialogTurns, DialogTold
<1>7. WayFits(t2, dialog.kept, dialog.next) /\ WayTold(way, t2, dialog.transcript)
  BY <1>4, <1>6 DEF WayFits, WayTold, TurnFits, Working, Stores, Written
<1>8. PICK o \in Ways : o # way
  BY DEF Ways
<1>9. ~dialog'.spoiled => Sound(t2, dialog[o], dialog.memory, dialog.kept, AllPieces)
  <2> SUFFICES ASSUME ~dialog.spoiled PROVE Sound(t2, dialog[o], dialog.memory, dialog.kept, AllPieces)
    BY <1>5
  <2>1. Sound(t, dialog[o], dialog.memory, dialog.kept, AllPieces)
    BY <1>8, SoundBothWays DEF DialogSound, Ways
  <2>2. TurnFits(t, dialog.kept)
    BY <1>6 DEF WayFits
  <2> HIDE DEF t
  <2> QED BY <1>4, <2>1, <2>2, WorksOn
<1>10. dialog'.spoiled \in BOOLEAN /\ o \in Ways \ {way} /\ t.at # "rest" /\ t2.turn = t.turn
  BY <1>4, <1>5, <1>8 DEF DialogShape
<1> QED BY <1>5, <1>7, <1>9, <1>10, QuietStep

Kinds == {"user", "assistant", "recent", "summary", "rows"}

LEMMA JoinedAre ==
    ASSUME NEW S, NEW a \in Seq(S), NEW b \in Seq(S), NEW c \in Seq(S), Len(c) = Len(a) + Len(b),
           \A k \in 1..Len(a) : c[k] = a[k], \A k \in 1..Len(b) : c[Len(a) + k] = b[k]
    PROVE  a \o b = c
<1>1. /\ a \o b \in Seq(S) /\ Len(a \o b) = Len(a) + Len(b)
      /\ \A k \in 1..(Len(a) + Len(b)) : (a \o b)[k] = IF k <= Len(a) THEN a[k] ELSE b[k - Len(a)]
  BY ConcatProperties
<1>2. ASSUME NEW k \in 1..(Len(a) + Len(b)) PROVE (a \o b)[k] = c[k]
  <2>1. CASE k <= Len(a)
    BY <1>1, <2>1
  <2>2. CASE k > Len(a)
    <3>1. k - Len(a) \in 1..Len(b) /\ Len(a) + (k - Len(a)) = k
      BY <2>2
    <3>2. c[k] = b[k - Len(a)]
      BY <3>1
    <3> QED BY <1>1, <2>2, <3>2
  <2> QED BY <2>1, <2>2
<1> QED BY <1>1, <1>2, SeqEqual

LEMMA AssistantAndSaves ==
    <<"assistant">> \o <<"summary", "recent", "rows">> = <<"assistant", "summary", "recent", "rows">>
<1> DEFINE a == <<"assistant">>
           b == <<"summary", "recent", "rows">>
           c == <<"assistant", "summary", "recent", "rows">>
<1>1. a \in Seq(Kinds) /\ b \in Seq(Kinds) /\ c \in Seq(Kinds) /\ Len(a) = 1 /\ Len(b) = 3 /\ Len(c) = 4
  BY DEF Kinds
<1>2. \A k \in 1..1 : c[k] = a[k]
  OBVIOUS
<1>3. \A k \in 1..3 : c[1 + k] = b[k]
  OBVIOUS
<1> HIDE DEF a, b, c
<1>4. \A k \in 1..Len(a) : c[k] = a[k]
  BY <1>1, <1>2
<1>5. \A k \in 1..Len(b) : c[Len(a) + k] = b[k]
  BY <1>1, <1>3
<1>6. Len(c) = Len(a) + Len(b)
  BY <1>1
<1>7. a \o b = c
  BY <1>1, <1>4, <1>5, <1>6, JoinedAre
<1> QED BY <1>7 DEF a, b, c

LEMMA TurnAndSaves ==
    <<"user", "assistant", "recent", "summary">> \o <<"summary", "recent", "rows">>
        = <<"user", "assistant", "recent", "summary", "summary", "recent", "rows">>
<1> DEFINE a == <<"user", "assistant", "recent", "summary">>
           b == <<"summary", "recent", "rows">>
           c == <<"user", "assistant", "recent", "summary", "summary", "recent", "rows">>
<1>1. a \in Seq(Kinds) /\ b \in Seq(Kinds) /\ c \in Seq(Kinds) /\ Len(a) = 4 /\ Len(b) = 3 /\ Len(c) = 7
  BY DEF Kinds
<1>2. \A k \in 1..4 : c[k] = a[k]
  OBVIOUS
<1>3. \A k \in 1..3 : c[4 + k] = b[k]
  OBVIOUS
<1> HIDE DEF a, b, c
<1>4. \A k \in 1..Len(a) : c[k] = a[k]
  BY <1>1, <1>2
<1>5. \A k \in 1..Len(b) : c[Len(a) + k] = b[k]
  BY <1>1, <1>3
<1>6. Len(c) = Len(a) + Len(b)
  BY <1>1
<1>7. a \o b = c
  BY <1>1, <1>4, <1>5, <1>6, JoinedAre
<1> QED BY <1>7 DEF a, b, c

\* What is to be committed at first, and again after a failure.
LEMMA CommitsAre ==
    ASSUME NEW way \in Ways, NEW pending
    PROVE  /\ Commits(way, pending) \in Early
           /\ Saves \in Saving /\ Head(Saves) = "summary"
           /\ Head(Commits(way, pending)) = IF way = "execute" THEN "assistant" ELSE "user"
<1>1. CASE way = "execute"
  <2>1. Commits(way, pending) = <<"assistant">> \o <<"summary", "recent", "rows">>
    BY <1>1 DEF Commits, Saves
  <2>2. <<"assistant">> \o <<"summary", "recent", "rows">> = <<"assistant", "summary", "recent", "rows">>
    BY AssistantAndSaves
  <2> QED BY <1>1, <2>1, <2>2 DEF Early, Saving, Saves
<1>2. CASE way # "execute" /\ pending = <<>>
  <2>1. Commits(way, pending) = <<"user", "assistant", "recent", "summary">> \o <<>>
    BY <1>2 DEF Commits
  <2>2. <<"user", "assistant", "recent", "summary">> \o <<>> = <<"user", "assistant", "recent", "summary">>
    OBVIOUS
  <2> QED BY <1>2, <2>1, <2>2 DEF Early, Saving, Saves
<1>3. CASE way # "execute" /\ pending # <<>>
  <2>1. Commits(way, pending) = <<"user", "assistant", "recent", "summary">> \o <<"summary", "recent", "rows">>
    BY <1>3 DEF Commits, Saves
  <2>2. <<"user", "assistant", "recent", "summary">> \o <<"summary", "recent", "rows">>
            = <<"user", "assistant", "recent", "summary", "summary", "recent", "rows">>
    BY TurnAndSaves
  <2> QED BY <1>3, <2>1, <2>2 DEF Early, Saving, Saves
<1> QED BY <1>1, <1>2, <1>3

LEMMA Remembers ==
    ASSUME NEW i, NEW mem \in Memories, Pieces(i) \in Seq(Piece), Len(Pieces(i)) > 0
    PROVE  Remember(mem, i) \in Memories
<1> DEFINE all == mem.recent \o Pieces(i)
<1>1. mem.summary \in Seq(Piece) /\ mem.recent \in Seq(Piece)
  BY DEF Memories
<1>2. all \in Seq(Piece) /\ Len(all) > 0
  BY <1>1, ConcatProperties
<1>3. Remember(mem, i) = IF Len(mem.recent) + 1 > MaxRecent
                                THEN [summary |-> Append(mem.summary, all[1]), recent |-> Tail(all)]
                                ELSE [summary |-> mem.summary, recent |-> all]
  BY MemoryExcept DEF Remember
<1> HIDE DEF all
<1>4. Append(mem.summary, all[1]) \in Seq(Piece) /\ Tail(all) \in Seq(Piece)
  BY <1>1, <1>2, MoveOver
<1> QED BY <1>1, <1>2, <1>3, <1>4 DEF Memories

\* The graph and the chat add a turn at most once between them.
LEMMA AddedOnce ==
    ASSUME NEW way, NEW i, NEW mem
    PROVE  LET graph == MemorySummary(mem, i)
               new == IF way = "chat" THEN ChatMemory(mem, i, graph) ELSE graph
           IN  new = mem \/ new = Remember(mem, i)
BY DEF MemorySummary, ChatMemory

LEMMA StoredIs ==
    ASSUME NEW way \in Ways, NEW t, NEW out, NEW graph
    PROVE  LET t2 == Stored(way, t, out, graph) IN
           /\ t2.at = "answered" /\ t2.turn = t.turn /\ t2.mem = t.mem /\ t2.base = t.base
           /\ t2.todo \in Early /\ DOMAIN t2 = StoreFields
           /\ Head(t2.todo) = IF way = "execute" THEN "assistant" ELSE "user"
           /\ t2.new = IF way = "chat" THEN ChatMemory(t.mem, t.turn, graph) ELSE graph
<1> DEFINE t2 == Stored(way, t, out, graph)
<1>1. /\ t2.at = "answered" /\ t2.turn = t.turn /\ t2.mem = t.mem /\ t2.base = t.base
      /\ t2.new = IF way = "chat" THEN ChatMemory(t.mem, t.turn, graph) ELSE graph
      /\ t2.todo = Commits(way, out.pending)
  BY DEF Stored
<1>2. DOMAIN t2 = StoreFields
  BY DEF Stored, StoreFields
<1> HIDE DEF t2
<1>3. t2.todo \in Early /\ Head(t2.todo) = IF way = "execute" THEN "assistant" ELSE "user"
  BY <1>1, CommitsAre
<1> QED BY <1>1, <1>2, <1>3 DEF t2

LEMMA RespondsKeeps ==
    ASSUME DialogShape, DialogTurns, DialogTold, DialogSound, NEW way \in Ways, Responds(way)
    PROVE  DialogInv'
<1> DEFINE t == dialog[way]
<1>1. t.at = "tools"
  BY DEF Responds
<1>2. PICK out :
        dialog' = [dialog EXCEPT ![way] = Stored(way, t, out, MemorySummary(t.mem, t.turn))]
  BY DEF Responds
<1> DEFINE t2 == Stored(way, t, out, MemorySummary(t.mem, t.turn))
<1>3. /\ t2.at = "answered" /\ t2.turn = t.turn /\ t2.mem = t.mem /\ t2.base = t.base
      /\ t2.todo \in Early /\ DOMAIN t2 = StoreFields
      /\ Head(t2.todo) = IF way = "execute" THEN "assistant" ELSE "user"
      /\ t2.new = IF way = "chat" THEN ChatMemory(t.mem, t.turn, MemorySummary(t.mem, t.turn))
                  ELSE MemorySummary(t.mem, t.turn)
  BY StoredIs
<1>4. t2.new = t.mem \/ t2.new = Remember(t.mem, t.turn)
  BY <1>3, AddedOnce
<1> HIDE DEF t2
<1>5. /\ StepTo(way, t2, dialog.memory, dialog.kept, dialog.transcript, dialog.next)
      /\ dialog'.spoiled = dialog.spoiled
  BY <1>2 DEF StepTo, DialogShape, Fields, Ways, t2
<1>6. WayFits(t, dialog.kept, dialog.next) /\ WayTold(way, t, dialog.transcript)
  BY DEF DialogTurns, DialogTold
<1> HIDE DEF t
<1>7. t.turn \in Nat \ {0} /\ t.turn < dialog.next /\ t.mem \in Memories /\ ~Written(t, dialog.kept) /\ TurnFits(t, dialog.kept)
  BY <1>1, <1>6 DEF WayFits, TurnFits, Working
<1>8. t.turn \in 1..Len(dialog.script.requests)
  <2>1. Len(dialog.script.requests) \in Nat /\ dialog.next \in Nat /\ dialog.next <= Len(dialog.script.requests) + 1
    BY RequestsFit DEF DialogShape
  <2> QED BY <1>7, <2>1
<1>9. /\ Pieces(t.turn) \in Seq(Piece) /\ Len(Pieces(t.turn)) > 0
      /\ \A k \in DOMAIN Pieces(t.turn) : Pieces(t.turn)[k][1] = t.turn
      /\ AllPieces[t.turn] = Pieces(t.turn)
  BY <1>8, PiecesFit
<1>10. t2.new \in Memories
  BY <1>4, <1>7, <1>9, Remembers
<1>11. ASSUME ~dialog.spoiled, IsCurrent(t, dialog.kept) PROVE Adds(t2, AllPieces)
  <2>1. CASE t2.new = t.mem
    BY <1>3, <2>1 DEF Adds, Same
  <2>2. CASE t2.new = Remember(t.mem, t.turn)
    <3>1. CurrentIsWhole(t, dialog.kept, AllPieces)
      BY <1>11 DEF DialogSound, Sound, Ways, t
    <3>2. BothHalves(t.mem) = dialog.kept /\ ~HasPiece(dialog.kept, t.turn)
      BY <1>7, <1>11, <3>1 DEF CurrentIsWhole, Written
    <3>3. /\ ~Same(t2.new, t.mem)
          /\ BothHalves(t2.new) = BothHalves(t.mem) \o Pieces(t.turn)
          /\ t2.new.summary # t.mem.summary => Len(t2.new.summary) > Len(t.mem.summary) /\ t2.new.recent # t.mem.recent
      BY <1>7, <1>9, <2>2, <3>2, RememberAdds
    <3> QED BY <1>3, <1>9, <3>3 DEF Adds, Moves
  <2> QED BY <1>4, <2>1, <2>2
<1>12. WayFits(t2, dialog.kept, dialog.next)
  <2>1. TurnFits(t2, dialog.kept)
    BY <1>1, <1>3, <1>7, <1>10 DEF TurnFits, Working, Stores, Written, Todos
  <2> QED BY <1>3, <1>7, <2>1 DEF WayFits
<1>13. WayTold(way, t2, dialog.transcript)
  BY <1>1, <1>3, <1>6 DEF WayTold, Working, Ways
<1>14. PICK o \in Ways : o # way
  BY DEF Ways
<1>15. ~dialog'.spoiled => Sound(t2, dialog[o], dialog.memory, dialog.kept, AllPieces)
  <2> SUFFICES ASSUME ~dialog.spoiled PROVE Sound(t2, dialog[o], dialog.memory, dialog.kept, AllPieces)
    BY <1>5
  <2>1. Sound(t, dialog[o], dialog.memory, dialog.kept, AllPieces)
    BY <1>14, SoundBothWays DEF DialogSound, Ways, t
  <2> QED BY <1>1, <1>3, <1>7, <1>11, <2>1, WorksOn
<1>16. dialog'.spoiled \in BOOLEAN /\ o \in Ways \ {way} /\ t.at # "rest" /\ t2.turn = t.turn
  BY <1>1, <1>3, <1>5, <1>14 DEF DialogShape
<1> QED BY <1>5, <1>12, <1>13, <1>15, <1>16, QuietStep DEF t

\* The chat stores its memory again after a commit that failed.
LEMMA GoingOnKeeps ==
    ASSUME DialogShape, DialogTurns, DialogTold, DialogSound, NEW way \in Ways, NEW t2,
           Stores(dialog[way]), dialog[way].todo \in Early \union Closing,
           t2.at = dialog[way].at, t2.todo = Saves, DOMAIN t2 = StoreFields,
           t2.turn = dialog[way].turn, t2.base = dialog[way].base, t2.mem = dialog[way].mem,
           t2.new = IF Head(dialog[way].todo) \in {"user", "assistant"} THEN dialog[way].mem ELSE dialog[way].new,
           StepTo(way, t2, dialog.memory, dialog.kept, dialog.transcript, dialog.next),
           dialog'.spoiled = dialog.spoiled
    PROVE  DialogInv'
<1> DEFINE t == dialog[way]
<1>1. WayFits(t, dialog.kept, dialog.next) /\ WayTold(way, t, dialog.transcript)
  BY DEF DialogTurns, DialogTold
<1>2. PICK o \in Ways : o # way
  BY DEF Ways
<1>3. ~dialog.spoiled => Sound(t, dialog[o], dialog.memory, dialog.kept, AllPieces)
  BY <1>2, SoundBothWays DEF DialogSound, Ways
<1>4. /\ Stores(t) /\ t.todo \in Early \union Closing
      /\ t2.at = t.at /\ t2.turn = t.turn /\ t2.base = t.base /\ t2.mem = t.mem
      /\ t2.new = IF Head(t.todo) \in {"user", "assistant"} THEN t.mem ELSE t.new
      /\ t.at # "rest"
  BY DEF Stores
<1> HIDE DEF t
<1>5. t2.todo \in Saving /\ Head(t2.todo) = "summary" /\ t2.todo \notin Early
  BY CommitsAre, StagesDiffer
<1>6. t2.new = t.new \/ (t.todo \in Early /\ t2.new = t.mem)
  BY <1>4, LaterOnes
<1>7. WayFits(t2, dialog.kept, dialog.next)
  <2>1. TurnFits(t, dialog.kept) /\ t.turn < dialog.next
    BY <1>1, <1>4 DEF WayFits
  <2>2. TurnFits(t2, dialog.kept)
    BY <1>4, <1>5, <1>6, <2>1 DEF TurnFits, Working, Stores, Written, Todos
  <2> QED BY <1>4, <2>1, <2>2 DEF WayFits
<1>8. WayTold(way, t2, dialog.transcript)
  BY <1>1, <1>4 DEF WayTold, Working, Stores, Same
<1>9. ~dialog'.spoiled => Sound(t2, dialog[o], dialog.memory, dialog.kept, AllPieces)
  <2> SUFFICES ASSUME ~dialog.spoiled PROVE Sound(t2, dialog[o], dialog.memory, dialog.kept, AllPieces)
    OBVIOUS
  <2>1. TurnFits(t, dialog.kept)
    BY <1>1 DEF WayFits
  <2> QED BY <1>3, <1>4, <1>5, <1>6, <2>1, StoresAgain
<1>10. dialog'.spoiled \in BOOLEAN /\ o \in Ways \ {way}
  BY <1>2 DEF DialogShape
<1> QED BY <1>4, <1>7, <1>8, <1>9, <1>10, QuietStep DEF t

LEMMA LongOnes == \A todo \in Todos : Len(todo) > 3 => todo \in Early \union Closing
<1>1. ASSUME NEW todo, todo \in Saving \union Between \union Ending PROVE ~(Len(todo) > 3)
  <2>1. CASE todo = <<"summary", "recent", "rows">>
    BY <2>1
  <2>2. CASE todo = <<"recent", "rows">>
    BY <2>2
  <2>3. CASE todo = <<"rows">>
    BY <2>3
  <2> QED BY <1>1, <2>1, <2>2, <2>3 DEF Saving, Between, Ending
<1> QED BY <1>1 DEF Todos

LEMMA CommitFailsKeeps ==
    ASSUME DialogShape, DialogTurns, DialogTold, DialogSound, NEW way \in Ways, CommitFails(way)
    PROVE  DialogInv'
<1> DEFINE t == dialog[way]
           goesOn == way = "chat" /\ Len(t.todo) > Len(Saves) /\ t.out.pending # <<>>
<1>1. t.at \in {"answered", "store"}
  BY DEF CommitFails, Storing
<1>2. CASE goesOn
  <2>1. dialog' = [dialog EXCEPT ![way].todo = Saves, !.lapses = @ + 1,
                                 ![way].new = IF Head(t.todo) \in {"user", "assistant"} THEN t.mem ELSE @]
    BY <1>2 DEF CommitFails
  <2> DEFINE t2 == dialog'[way]
  <2>2. WayFits(t, dialog.kept, dialog.next) /\ Stores(t)
    BY <1>1 DEF DialogTurns, Stores
  <2>3. DOMAIN t = StoreFields /\ t.todo \in Todos
    BY <2>2 DEF WayFits, TurnFits
  <2>4. /\ StepTo(way, t2, dialog.memory, dialog.kept, dialog.transcript, dialog.next)
        /\ dialog'.spoiled = dialog.spoiled
    BY <2>1 DEF StepTo, DialogShape, Fields, Ways
  <2>5. /\ t2.at = t.at /\ t2.todo = Saves /\ DOMAIN t2 = StoreFields
        /\ t2.turn = t.turn /\ t2.base = t.base /\ t2.mem = t.mem
        /\ t2.new = IF Head(t.todo) \in {"user", "assistant"} THEN t.mem ELSE t.new
    BY <2>1, <2>3 DEF StoreFields, DialogShape, Fields, Ways
  <2>6. t.todo \in Early \union Closing
    <3>1. Len(Saves) = 3
      BY CommitsAre, LaterOnes
    <3>2. Len(t.todo) > 3
      BY <1>2, <3>1
    <3> QED BY <2>3, <3>2, LongOnes
  <2> HIDE DEF t2
  <2> QED BY <2>2, <2>4, <2>5, <2>6, GoingOnKeeps
<1>3. CASE ~goesOn
  <2>1. dialog' = [dialog EXCEPT ![way] = Rest, !.lapses = @ + 1, !.spoiled = @ \/ Torn(t)]
    BY <1>3 DEF CommitFails
  <2>2. /\ StepTo(way, Rest, dialog.memory, dialog.kept, dialog.transcript, dialog.next)
        /\ dialog'.spoiled = (dialog.spoiled \/ Torn(t))
    BY <2>1 DEF StepTo, DialogShape, Fields, Ways
  <2>3. dialog'.spoiled \in BOOLEAN
    BY <2>2 DEF DialogShape
  <2>4. ~dialog'.spoiled => ~dialog.spoiled /\ ~Midway(t, dialog.memory, dialog.kept)
    <3> SUFFICES ASSUME ~dialog'.spoiled PROVE ~dialog.spoiled /\ ~Midway(t, dialog.memory, dialog.kept)
      OBVIOUS
    <3>1. ~dialog.spoiled /\ ~IsTorn(t, dialog.memory)
      BY <2>2, TornIsTorn
    <3>2. CurrentIsWhole(t, dialog.kept, AllPieces)
      BY <3>1 DEF DialogSound, Sound, Ways
    <3> QED BY <3>1, <3>2, MidwayIsTorn
  <2> QED BY <2>2, <2>3, <2>4, GivingUpKeeps
<1> QED BY <1>2, <1>3

\* What a commit writes, and the turn that it leaves behind.
LEMMA WritesTo ==
    ASSUME NEW way, NEW t
    PROVE  LET w == Write(way, t) IN
           /\ Head(t.todo) \in {"user", "assistant"} =>
                w = [dialog EXCEPT !.transcript = Append(@, <<t.turn, Head(t.todo)>>)]
           /\ Head(t.todo) = "rows" =>
                w = [dialog EXCEPT !.rows = SyncPendingFixes(@, t.out.pending)]
BY DEF Write

LEMMA SummaryIsWritten ==
    ASSUME DialogShape, NEW way \in Ways, NEW t, Head(t.todo) = "summary"
    PROVE  LET w == Write(way, t) IN
           /\ DOMAIN w = Fields /\ w.memory = [dialog.memory EXCEPT !.summary = t.new.summary]
           /\ w.spoiled = (dialog.spoiled \/ Clobbers(way, t))
           /\ \A f \in Fields : f \notin {"memory", "spoiled"} => w[f] = dialog[f]
<1> DEFINE lost == dialog.spoiled \/ Clobbers(way, t)
           m2 == [dialog.memory EXCEPT !.summary = t.new.summary]
<1>1. Write(way, t) = [dialog EXCEPT !.memory = m2, !.spoiled = lost]
  BY DEF Write
<1> HIDE DEF lost, m2
<1>2. LET w == Write(way, t) IN
      /\ DOMAIN w = Fields /\ w.memory = m2 /\ w.spoiled = lost
      /\ \A f \in Fields : f \notin {"memory", "spoiled"} => w[f] = dialog[f]
  BY <1>1 DEF DialogShape, Fields
<1> QED BY <1>2 DEF lost, m2

LEMMA RecentIsWritten ==
    ASSUME DialogShape, NEW way \in Ways, NEW t, Head(t.todo) = "recent"
    PROVE  LET w == Write(way, t) IN
           /\ DOMAIN w = Fields /\ w.memory = [dialog.memory EXCEPT !.recent = t.new.recent]
           /\ w.spoiled = (dialog.spoiled \/ Clobbers(way, t))
           /\ w.kept = KeptWith(t) /\ w[way] = [dialog[way] EXCEPT !.base = KeptWith(t)]
           /\ \A f \in Fields : f \notin {"memory", "spoiled", "kept", way} => w[f] = dialog[f]
<1> DEFINE lost == dialog.spoiled \/ Clobbers(way, t)
           m2 == [dialog.memory EXCEPT !.recent = t.new.recent]
           kept2 == KeptWith(t)
           t1 == [dialog[way] EXCEPT !.base = kept2]
<1>1. Write(way, t) = [dialog EXCEPT !.memory = m2, !.spoiled = lost, !.kept = kept2, ![way].base = kept2]
  BY DEF Write
<1> HIDE DEF lost, m2, kept2
<1>2. LET w == Write(way, t) IN
      /\ DOMAIN w = Fields /\ w.memory = m2 /\ w.spoiled = lost /\ w.kept = kept2
      /\ \A f \in Fields : f \notin {"memory", "spoiled", "kept", way} => w[f] = dialog[f]
      /\ w[way] = t1
  BY <1>1 DEF DialogShape, Fields, Ways
<1> QED BY <1>2 DEF lost, m2, kept2

LEMMA CommittedIs ==
    ASSUME NEW t, DOMAIN t = StoreFields
    PROVE  LET t2 == Committed(t) IN
           \/ Len(t.todo) = 1 /\ t2 = Rest
           \/ /\ Len(t.todo) # 1 /\ t2.at = "store" /\ t2.todo = Tail(t.todo) /\ DOMAIN t2 = StoreFields
              /\ t2.turn = t.turn /\ t2.base = t.base /\ t2.mem = t.mem /\ t2.new = t.new
<1> DEFINE todo2 == Tail(t.todo)
<1>1. CASE Len(t.todo) = 1
  BY <1>1 DEF Committed
<1>2. CASE Len(t.todo) # 1
  <2>1. Committed(t) = [t EXCEPT !.at = "store", !.todo = todo2]
    BY <1>2 DEF Committed
  <2> HIDE DEF todo2
  <2>2. LET t2 == Committed(t) IN
        /\ t2.at = "store" /\ t2.todo = todo2 /\ DOMAIN t2 = StoreFields
        /\ t2.turn = t.turn /\ t2.base = t.base /\ t2.mem = t.mem /\ t2.new = t.new
    BY <2>1 DEF StoreFields
  <2> QED BY <1>2, <2>2 DEF todo2
<1> QED BY <1>1, <1>2

CommitsFrom(way, w) ==
    /\ DOMAIN w = Fields /\ w.at = "on" /\ w.script = dialog.script /\ \A o \in Ways \ {way} : w[o] = dialog[o]
    /\ dialog' = [w EXCEPT ![way] = Committed(@)]

LEMMA CommitStepsTo ==
    ASSUME NEW way \in Ways, NEW w, CommitsFrom(way, w)
    PROVE  /\ StepTo(way, dialog'[way], w.memory, w.kept, w.transcript, w.next) /\ dialog'.spoiled = w.spoiled
           /\ dialog'[way] = Committed(w[way])
<1> DEFINE left == Committed(w[way])
<1>1. dialog' = [w EXCEPT ![way] = left]
  BY DEF CommitsFrom
<1> HIDE DEF left
<1>2. /\ StepTo(way, dialog'[way], w.memory, w.kept, w.transcript, w.next) /\ dialog'.spoiled = w.spoiled
      /\ dialog'[way] = left
  BY <1>1 DEF CommitsFrom, StepTo, Fields, Ways
<1> QED BY <1>2 DEF left

LEMMA ClobbersNot ==
    ASSUME NEW way \in Ways, NEW o \in Ways \ {way}, NEW t, ~Clobbers(way, t)
    PROVE  t.base = dialog.kept /\ ~IsTorn(dialog[o], dialog.memory)
<1>1. Ways = Ways
  BY DEF Ways
<1> QED BY <1>1, TornIsTorn DEF Clobbers

\* A message is committed.
LEMMA TellsKeeps ==
    ASSUME DialogShape, DialogTurns, DialogTold, DialogSound, NEW way \in Ways, Commit(way),
           Head(dialog[way].todo) \in {"user", "assistant"}
    PROVE  DialogInv'
<1> DEFINE t == dialog[way]
           t2 == dialog'[way]
           told2 == Append(dialog.transcript, <<t.turn, Head(t.todo)>>)
           w == Write(way, t)
<1>1. WayFits(t, dialog.kept, dialog.next) /\ WayTold(way, t, dialog.transcript) /\ Stores(t)
  BY DEF DialogTurns, DialogTold, Commit, Storing, Stores
<1>2. DOMAIN t = StoreFields /\ t.todo \in Todos /\ TurnFits(t, dialog.kept) /\ t.turn < dialog.next /\ t.turn \in Nat \ {0}
  BY <1>1 DEF WayFits, TurnFits, Stores
<1>3. /\ t.todo \in Early /\ Len(t.todo) # 1 /\ Tail(t.todo) \in Early \union Saving
      /\ Head(t.todo) = "user" => Head(Tail(t.todo)) = "assistant"
  <2>1. t.todo \in Early
    BY <1>2, LaterOnes DEF Todos
  <2> QED BY <2>1, EarlyOnes
<1>4. w = [dialog EXCEPT !.transcript = told2]
  BY WritesTo
<1> HIDE DEF told2
<1>5. /\ DOMAIN w = Fields /\ w.at = "on" /\ w.script = dialog.script /\ w.next = dialog.next
      /\ w[way] = t /\ \A o \in Ways \ {way} : w[o] = dialog[o]
      /\ w.memory = dialog.memory /\ w.kept = dialog.kept /\ w.transcript = told2 /\ w.spoiled = dialog.spoiled
  BY <1>4 DEF DialogShape, Fields, Ways
<1>6. CommitsFrom(way, w)
  <2>1. dialog' = [w EXCEPT ![way] = Committed(@)]
    BY DEF Commit
  <2> HIDE DEF w, t
  <2> QED BY <1>5, <2>1 DEF CommitsFrom
<1> HIDE DEF w
<1>7. /\ StepTo(way, t2, w.memory, w.kept, w.transcript, w.next) /\ dialog'.spoiled = w.spoiled
      /\ t2 = Committed(t)
  <2>1. t2 = Committed(w[way])
    BY <1>6, CommitStepsTo
  <2> QED BY <1>5, <1>6, <2>1, CommitStepsTo
<1>8. StepTo(way, t2, dialog.memory, dialog.kept, told2, dialog.next) /\ dialog'.spoiled = dialog.spoiled
  BY <1>5, <1>7
<1>9. /\ t2.at = "store" /\ t2.todo = Tail(t.todo) /\ DOMAIN t2 = StoreFields
      /\ t2.turn = t.turn /\ t2.base = t.base /\ t2.mem = t.mem /\ t2.new = t.new
  BY <1>2, <1>3, <1>7, CommittedIs
<1> HIDE DEF t2
<1>10. WayFits(t2, dialog.kept, dialog.next)
  <2>1. t.mem \in Memories /\ t.new \in Memories /\ ~Written(t, dialog.kept)
    BY <1>1, <1>2, <1>3 DEF TurnFits, Stores, Working
  <2>2. TurnFits(t2, dialog.kept)
    BY <1>1, <1>2, <1>3, <1>9, <2>1 DEF TurnFits, Stores, Working, Written, Todos
  <2> QED BY <1>2, <1>9, <2>2 DEF WayFits
<1>11. dialog.transcript \in Seq(Nat \X Roles) /\ <<t.turn, Head(t.todo)>> \in Nat \X Roles
  BY <1>2 DEF DialogShape, Roles
<1>12. \A role : /\ IsTold(dialog.transcript, t.turn, role) => IsTold(told2, t.turn, role)
                 /\ Head(t.todo) = role => IsTold(told2, t.turn, role)
  BY <1>11, ToldStays DEF told2
<1>13. WayTold(way, t2, told2)
  <2>1. way = "execute" => IsTold(told2, t.turn, "user")
    BY <1>1, <1>12 DEF WayTold, Stores, Working
  <2>2. CASE Head(t.todo) = "user"
    <3>1. Head(t2.todo) = "assistant" /\ IsTold(told2, t.turn, "user")
      BY <1>3, <1>9, <1>12, <2>2
    <3> QED BY <1>9, <2>1, <3>1 DEF WayTold
  <2>3. CASE Head(t.todo) = "assistant"
    <3>1. ~Same(t.new, t.mem) => IsTold(told2, t.turn, "user")
      BY <1>1, <1>12, <2>3 DEF WayTold
    <3>2. IsTold(told2, t.turn, "assistant")
      BY <1>12, <2>3
    <3> QED BY <1>9, <2>1, <3>1, <3>2 DEF WayTold
  <2> QED BY <2>2, <2>3
<1>14. PICK o \in Ways : o # way
  BY DEF Ways
<1>15. ~dialog'.spoiled => Sound(t2, dialog[o], dialog.memory, dialog.kept, AllPieces)
  <2> SUFFICES ASSUME ~dialog.spoiled PROVE Sound(t2, dialog[o], dialog.memory, dialog.kept, AllPieces)
    BY <1>8
  <2>1. Sound(t, dialog[o], dialog.memory, dialog.kept, AllPieces)
    BY <1>14, SoundBothWays DEF DialogSound, Ways
  <2>2. Head(t.todo) \in {"user", "assistant"}
    OBVIOUS
  <2> HIDE DEF t
  <2> QED BY <1>1, <1>2, <1>3, <1>9, <2>1, <2>2, CommitsNoMemory
<1>16. /\ dialog'.spoiled \in BOOLEAN /\ o \in Ways \ {way} /\ t.at # "rest" /\ t2.turn = t.turn
       /\ dialog.memory \in Memories
       /\ told2 = dialog.transcript \/ \E x \in Nat \X Roles : told2 = Append(dialog.transcript, x)
       /\ \A k \in DOMAIN dialog.kept : \E j \in DOMAIN dialog.kept : dialog.kept[j][1] = dialog.kept[k][1]
  BY <1>1, <1>8, <1>9, <1>11, <1>14 DEF DialogShape, Stores, told2
<1> HIDE DEF t
<1>17. t2.turn = dialog[way].turn /\ dialog[way].at # "rest"
  BY <1>16 DEF t
<1> QED BY <1>8, <1>10, <1>13, <1>15, <1>16, <1>17, StepKeeps

\* The rows are committed: that ends the turn.
LEMMA RowsKeep ==
    ASSUME DialogShape, DialogTurns, DialogTold, DialogSound, NEW way \in Ways, Commit(way),
           Head(dialog[way].todo) = "rows"
    PROVE  DialogInv'
<1> DEFINE t == dialog[way]
           w == Write(way, t)
           rows2 == SyncPendingFixes(dialog.rows, t.out.pending)
<1>1. WayFits(t, dialog.kept, dialog.next) /\ Stores(t)
  BY DEF DialogTurns, Commit, Storing, Stores
<1>2. t.todo \in Todos /\ DOMAIN t = StoreFields
  BY <1>1 DEF WayFits, TurnFits
<1>3. t.todo \in Ending /\ Len(t.todo) = 1
  <2>1. t.todo \in Ending
    BY <1>2, EarlyOnes, LaterOnes DEF Todos
  <2> QED BY <2>1, LaterOnes
<1>4. w = [dialog EXCEPT !.rows = rows2]
  BY WritesTo
<1> HIDE DEF rows2
<1>5. /\ DOMAIN w = Fields /\ w.at = "on" /\ w.script = dialog.script /\ w.next = dialog.next
      /\ w[way] = t /\ \A o \in Ways \ {way} : w[o] = dialog[o]
      /\ w.memory = dialog.memory /\ w.kept = dialog.kept /\ w.transcript = dialog.transcript
      /\ w.spoiled = dialog.spoiled
  BY <1>4 DEF DialogShape, Fields, Ways
<1>6. CommitsFrom(way, w)
  <2>1. dialog' = [w EXCEPT ![way] = Committed(@)]
    BY DEF Commit
  <2> HIDE DEF w, t
  <2> QED BY <1>5, <2>1 DEF CommitsFrom
<1> HIDE DEF w
<1>7. dialog'[way] = Rest
  <2>1. dialog'[way] = Committed(t)
    BY <1>5, <1>6, CommitStepsTo
  <2> QED BY <1>2, <1>3, <2>1, CommittedIs
<1>8. /\ StepTo(way, Rest, dialog.memory, dialog.kept, dialog.transcript, dialog.next)
      /\ dialog'.spoiled = dialog.spoiled
  BY <1>5, <1>6, <1>7, CommitStepsTo
<1>9. ~Midway(t, dialog.memory, dialog.kept)
  BY <1>3, StagesDiffer DEF Midway, IsLate, IsHalf
<1>10. dialog'.spoiled \in BOOLEAN
  BY <1>8 DEF DialogShape
<1> QED BY <1>8, <1>9, <1>10, GivingUpKeeps

\* The summary is committed.
LEMMA SummaryKeeps ==
    ASSUME DialogShape, DialogTurns, DialogTold, DialogSound, NEW way \in Ways, Commit(way),
           Head(dialog[way].todo) = "summary"
    PROVE  DialogInv'
<1> DEFINE t == dialog[way]
           t2 == dialog'[way]
           w == Write(way, t)
           m == dialog.memory
           m2 == [m EXCEPT !.summary = t.new.summary]
           kept == dialog.kept
<1>1. WayFits(t, kept, dialog.next) /\ WayTold(way, t, dialog.transcript) /\ Stores(t)
  BY DEF DialogTurns, DialogTold, Commit, Storing, Stores
<1>2. /\ DOMAIN t = StoreFields /\ t.todo \in Todos /\ TurnFits(t, kept) /\ t.turn < dialog.next
      /\ t.mem \in Memories /\ t.new \in Memories /\ t.at # "rest"
  BY <1>1 DEF WayFits, TurnFits, Stores, Working
<1>3. t.todo \in Closing \union Saving
  BY <1>2, EarlyOnes, LaterOnes DEF Todos
<1>4. m2 \in Memories /\ m2.summary = t.new.summary /\ m2.recent = m.recent
  <2>1. m \in Memories
    BY DEF DialogShape
  <2>2. m2 = [summary |-> t.new.summary, recent |-> m.recent]
    BY <2>1, MemoryExcept
  <2> QED BY <1>2, <2>1, <2>2 DEF Memories
<1>5. /\ DOMAIN w = Fields /\ w.memory = m2
      /\ w.spoiled = (dialog.spoiled \/ Clobbers(way, t))
      /\ \A f \in Fields : f \notin {"memory", "spoiled"} => w[f] = dialog[f]
  BY SummaryIsWritten
<1> HIDE DEF m2, w
<1>6. /\ DOMAIN w = Fields /\ w.at = "on" /\ w.script = dialog.script /\ w.next = dialog.next
      /\ w[way] = t /\ \A o \in Ways \ {way} : w[o] = dialog[o]
      /\ w.memory = m2 /\ w.kept = kept /\ w.transcript = dialog.transcript
      /\ w.spoiled = (dialog.spoiled \/ Clobbers(way, t))
  BY <1>5 DEF DialogShape, Fields, Ways
<1> HIDE DEF m2
<1>7. CommitsFrom(way, w)
  <2>1. dialog' = [w EXCEPT ![way] = Committed(@)]
    BY DEF Commit, w
  <2> HIDE DEF t
  <2> QED BY <1>6, <2>1 DEF CommitsFrom
<1>8. /\ StepTo(way, t2, m2, kept, dialog.transcript, dialog.next)
      /\ dialog'.spoiled = (dialog.spoiled \/ Clobbers(way, t))
      /\ t2 = Committed(t)
  BY <1>6, <1>7, CommitStepsTo
<1>9. \/ Len(t.todo) = 1 /\ t2.at = "rest"
      \/ /\ Len(t.todo) # 1 /\ t2.at = "store" /\ t2.todo = Tail(t.todo) /\ DOMAIN t2 = StoreFields
         /\ t2.turn = t.turn /\ t2.base = t.base /\ t2.mem = t.mem /\ t2.new = t.new
  BY <1>2, <1>8, CommittedIs, RestIsRest
<1> HIDE DEF t2
<1>10. Len(t.todo) # 1 => t2.todo \in Saving \union Between /\ t2.todo \notin Early
  BY <1>3, <1>9, LaterOnes, StagesDiffer
<1>11. WayFits(t2, kept, dialog.next) /\ WayTold(way, t2, dialog.transcript)
  <2>1. CASE t2.at = "rest"
    BY <2>1 DEF WayFits, WayTold, TurnFits, Stores, Working
  <2>2. CASE t2.at = "store" /\ Len(t.todo) # 1
    <3>1. TurnFits(t2, kept)
      BY <1>1, <1>2, <1>9, <1>10, <2>2 DEF TurnFits, Stores, Working, Todos
    <3>2. WayTold(way, t2, dialog.transcript)
      <4>1. Head(t.todo) \notin {"user", "assistant"}
        OBVIOUS
      <4> QED BY <1>1, <1>9, <2>2, <4>1 DEF WayTold, Stores, Working
    <3> QED BY <1>2, <1>9, <2>2, <3>1, <3>2 DEF WayFits
  <2> QED BY <1>9, <2>1, <2>2
<1>12. PICK o \in Ways : o # way
  BY DEF Ways
<1>13. ~dialog'.spoiled => Sound(t2, dialog[o], m2, kept, AllPieces)
  <2> SUFFICES ASSUME ~dialog'.spoiled PROVE Sound(t2, dialog[o], m2, kept, AllPieces)
    OBVIOUS
  <2>1. ~dialog.spoiled /\ ~Clobbers(way, t)
    BY <1>8
  <2>2. t.base = kept /\ ~IsTorn(dialog[o], m)
    BY <1>12, <2>1, ClobbersNot
  <2>3. Sound(t, dialog[o], m, kept, AllPieces)
    BY <1>12, <2>1, SoundBothWays DEF DialogSound, Ways
  <2>4. TurnFits(dialog[o], kept) /\ m \in Memories
    BY <1>12 DEF DialogTurns, WayFits, DialogShape
  <2>5. Head(t.todo) = "summary"
    OBVIOUS
  <2> HIDE DEF t, m, kept
  <2> QED BY <1>1, <1>2, <1>4, <1>9, <2>2, <2>3, <2>4, <2>5, StoresSummary
<1>14. /\ dialog'.spoiled \in BOOLEAN /\ o \in Ways \ {way}
       /\ t2.at = "rest" \/ (t2.turn = t.turn /\ t.at # "rest")
       /\ \A k \in DOMAIN kept : \E j \in DOMAIN kept : kept[j][1] = kept[k][1]
  BY <1>2, <1>8, <1>9, <1>12 DEF DialogShape
<1> QED BY <1>4, <1>8, <1>11, <1>13, <1>14, StepKeeps

\* The recent turns are committed, and with them the turn itself.
LEMMA RecentKeeps ==
    ASSUME DialogShape, DialogTurns, DialogTold, DialogSound, NEW way \in Ways, Commit(way),
           Head(dialog[way].todo) = "recent"
    PROVE  DialogInv'
<1> DEFINE t == dialog[way]
           t2 == dialog'[way]
           w == Write(way, t)
           m == dialog.memory
           m2 == [m EXCEPT !.recent = t.new.recent]
           kept == dialog.kept
           kept2 == KeptWith(t)
           t1 == [t EXCEPT !.base = kept2]
<1>1. WayFits(t, kept, dialog.next) /\ WayTold(way, t, dialog.transcript) /\ Stores(t)
  BY DEF DialogTurns, DialogTold, Commit, Storing, Stores
<1>2. /\ DOMAIN t = StoreFields /\ t.todo \in Todos /\ TurnFits(t, kept) /\ t.turn < dialog.next
      /\ t.mem \in Memories /\ t.new \in Memories /\ t.at # "rest" /\ t.turn \in Nat \ {0}
  BY <1>1 DEF WayFits, TurnFits, Stores, Working
<1>3. /\ t.todo \in Early \union Between /\ Len(t.todo) # 1
      /\ Tail(t.todo) \in Closing \union Ending /\ Tail(t.todo) \notin Early
  <2>1. t.todo \in Early \union Between
    BY <1>2, LaterOnes DEF Todos
  <2>2. Tail(t.todo) \in Closing \union Ending
    BY <2>1, EarlyOnes, LaterOnes
  <2>3. t.todo \in Between => Len(t.todo) # 1
    BY LaterOnes
  <2> QED BY <2>1, <2>2, <2>3, EarlyOnes, StagesDiffer
<1>4. m2 \in Memories /\ m2.summary = m.summary /\ m2.recent = t.new.recent /\ m \in Memories /\ kept \in Seq(Piece)
  <2>1. m \in Memories /\ kept \in Seq(Piece)
    BY DEF DialogShape
  <2>2. m2 = [summary |-> m.summary, recent |-> t.new.recent]
    BY <2>1, MemoryExcept
  <2> QED BY <1>2, <2>1, <2>2 DEF Memories
<1>5. /\ DOMAIN w = Fields /\ w.memory = m2
      /\ w.spoiled = (dialog.spoiled \/ Clobbers(way, t))
      /\ w.kept = kept2 /\ w[way] = t1
      /\ \A f \in Fields : f \notin {"memory", "spoiled", "kept", way} => w[f] = dialog[f]
  BY RecentIsWritten
<1>6. /\ DOMAIN t1 = StoreFields /\ t1.base = kept2 /\ t1.todo = t.todo
      /\ t1.turn = t.turn /\ t1.mem = t.mem /\ t1.new = t.new
  BY <1>2 DEF StoreFields
<1>7. t.turn \in 1..Len(dialog.script.requests)
  <2>1. Len(dialog.script.requests) \in Nat /\ dialog.next \in Nat /\ dialog.next <= Len(dialog.script.requests) + 1
    BY RequestsFit DEF DialogShape
  <2> QED BY <1>2, <2>1
<1>8. /\ AllPieces[t.turn] \in Seq(Piece) /\ Len(AllPieces[t.turn]) > 0
      /\ \A k \in DOMAIN AllPieces[t.turn] : AllPieces[t.turn][k][1] = t.turn
      /\ AllPieces[t.turn] = Pieces(t.turn)
  BY <1>7, PiecesFit
<1>9. kept2 = IF ~Same(t.new, t.mem) /\ ~Written(t, kept) THEN kept \o AllPieces[t.turn] ELSE kept
  BY <1>2, <1>8, SameIsEqual DEF KeptWith, Written
<1> HIDE DEF m2, kept2, t1, w
<1>10. kept2 \in Seq(Piece) /\ Len(kept) <= Len(kept2)
  <2>1. kept \o AllPieces[t.turn] \in Seq(Piece) /\ Len(kept) <= Len(kept \o AllPieces[t.turn])
    <3> DEFINE added == AllPieces[t.turn]
    <3>1. added \in Seq(Piece) /\ kept \in Seq(Piece)
      BY <1>4, <1>8
    <3> HIDE DEF added, kept
    <3>2. kept \o added \in Seq(Piece) /\ Len(kept \o added) = Len(kept) + Len(added)
      BY <3>1, ConcatProperties
    <3>3. Len(kept) \in Nat /\ Len(added) \in Nat
      BY <3>1
    <3> QED BY <3>2, <3>3 DEF added
  <2>2. Len(kept) <= Len(kept)
    BY <1>4
  <2> QED BY <1>4, <1>9, <2>1, <2>2
<1>11. /\ w.at = "on" /\ w.script = dialog.script /\ w.next = dialog.next /\ w.transcript = dialog.transcript
       /\ \A o \in Ways \ {way} : w[o] = dialog[o]
  BY <1>5 DEF DialogShape, Fields, Ways
<1>12. CommitsFrom(way, w)
  <2>1. dialog' = [w EXCEPT ![way] = Committed(@)]
    BY DEF Commit, w
  <2> HIDE DEF t
  <2> QED BY <1>5, <1>11, <2>1 DEF CommitsFrom
<1>13. /\ StepTo(way, t2, m2, kept2, dialog.transcript, dialog.next)
       /\ dialog'.spoiled = (dialog.spoiled \/ Clobbers(way, t))
       /\ t2 = Committed(t1)
  BY <1>5, <1>11, <1>12, CommitStepsTo
<1>14. /\ t2.at = "store" /\ t2.todo = Tail(t.todo) /\ DOMAIN t2 = StoreFields
       /\ t2.turn = t.turn /\ t2.base = kept2 /\ t2.mem = t.mem /\ t2.new = t.new
  BY <1>3, <1>6, <1>13, CommittedIs
<1> HIDE DEF t2
<1>15. WayFits(t2, kept2, dialog.next)
  <2>1. TurnFits(t2, kept2)
    <3>1. Len(kept2) <= Len(kept2)
      BY <1>10
    <3> QED BY <1>2, <1>3, <1>10, <1>14, <3>1 DEF TurnFits, Stores, Working, Todos
  <2> QED BY <1>2, <1>14, <2>1 DEF WayFits
<1>16. WayTold(way, t2, dialog.transcript)
  <2>1. Head(t.todo) \notin {"user", "assistant"}
    OBVIOUS
  <2> QED BY <1>1, <1>14, <2>1 DEF WayTold, Stores, Working
<1>17. \A k \in DOMAIN kept2 : \/ \E j \in DOMAIN kept : kept[j][1] = kept2[k][1]
                               \/ \A role \in Roles : IsTold(dialog.transcript, kept2[k][1], role)
  <2>1. CASE kept2 = kept
    BY <2>1
  <2>2. CASE ~Same(t.new, t.mem) /\ kept2 = kept \o AllPieces[t.turn]
    <3>1. \A role \in Roles : IsTold(dialog.transcript, t.turn, role)
      <4>1. Head(t.todo) \notin {"user", "assistant"}
        OBVIOUS
      <4> QED BY <1>1, <2>2, <4>1 DEF WayTold, Roles
    <3> DEFINE added == AllPieces[t.turn]
    <3>2. added \in Seq(Piece) /\ kept \in Seq(Piece) /\ kept2 = kept \o added /\ \A k \in DOMAIN added : added[k][1] = t.turn
      BY <1>4, <1>8, <2>2
    <3> HIDE DEF added, kept
    <3>3. /\ kept2 \in Seq(Piece) /\ Len(kept2) = Len(kept) + Len(added)
          /\ \A k \in 1..(Len(kept) + Len(added)) : kept2[k] = IF k <= Len(kept) THEN kept[k] ELSE added[k - Len(kept)]
      BY <3>2, ConcatProperties
    <3>4. ASSUME NEW k \in DOMAIN kept2
          PROVE  (\E j \in DOMAIN kept : kept[j][1] = kept2[k][1]) \/ kept2[k][1] = t.turn
      <4>1. k \in 1..(Len(kept) + Len(added)) /\ Len(kept) \in Nat /\ Len(added) \in Nat
        BY <3>2, <3>3
      <4>2. CASE k <= Len(kept)
        <5>1. k \in DOMAIN kept /\ kept2[k] = kept[k]
          BY <3>2, <3>3, <4>1, <4>2
        <5> QED BY <5>1
      <4>3. CASE k > Len(kept)
        <5>1. k - Len(kept) \in DOMAIN added /\ kept2[k] = added[k - Len(kept)]
          BY <3>2, <3>3, <4>1, <4>3
        <5> QED BY <3>2, <5>1
      <4> QED BY <4>1, <4>2, <4>3
    <3> QED BY <3>1, <3>4
  <2> QED BY <1>9, <2>1, <2>2
<1>18. PICK o \in Ways : o # way
  BY DEF Ways
<1>19. ~dialog'.spoiled => Sound(t2, dialog[o], m2, kept2, AllPieces)
  <2> SUFFICES ASSUME ~dialog'.spoiled PROVE Sound(t2, dialog[o], m2, kept2, AllPieces)
    OBVIOUS
  <2>1. ~dialog.spoiled /\ ~Clobbers(way, t)
    BY <1>13
  <2>2. t.base = kept /\ ~IsTorn(dialog[o], m)
    BY <1>18, <2>1, ClobbersNot
  <2>3. Sound(t, dialog[o], m, kept, AllPieces)
    BY <1>18, <2>1, SoundBothWays DEF DialogSound, Ways
  <2>4. TurnFits(dialog[o], kept)
    BY <1>18 DEF DialogTurns, WayFits
  <2>5. Head(t.todo) = "recent"
    OBVIOUS
  <2> HIDE DEF t, m, kept
  <2> QED BY <1>1, <1>2, <1>4, <1>8, <1>9, <1>10, <1>14, <2>2, <2>3, <2>4, <2>5, StoresRecent
<1>20. /\ dialog'.spoiled \in BOOLEAN /\ o \in Ways \ {way} /\ t2.turn = t.turn /\ t.at # "rest"
       /\ kept2 = kept \/ kept2 = kept \o AllPieces[t.turn]
  BY <1>2, <1>9, <1>13, <1>14, <1>18 DEF DialogShape
<1> QED BY <1>4, <1>13, <1>15, <1>16, <1>17, <1>19, <1>20, StepKeeps

LEMMA CommitKeeps ==
    ASSUME DialogShape, DialogTurns, DialogTold, DialogSound, NEW way \in Ways, Commit(way)
    PROVE  DialogInv'
<1>1. Head(dialog[way].todo) \in {"user", "assistant", "recent", "summary", "rows"}
  <2>1. WayFits(dialog[way], dialog.kept, dialog.next) /\ Stores(dialog[way])
    BY DEF DialogTurns, Commit, Storing, Stores
  <2>2. dialog[way].todo \in Todos
    BY <2>1 DEF WayFits, TurnFits
  <2> QED BY <2>2, EarlyOnes, LaterOnes DEF Todos
<1> QED BY <1>1, TellsKeeps, RecentKeeps, SummaryKeeps, RowsKeep

------------------------------------------------------------------------------
(* A conversation keeps its memory whole                                    *)

LEMMA DialogBegins ==
    ASSUME NEW i \in DOMAIN Scripts, BeginDialog(Scripts[i])
    PROVE  DialogInv'
<1>1. /\ DOMAIN dialog' = Fields /\ dialog'.at = "on" /\ dialog'.script = Scripts[i] /\ dialog'.next = 1
      /\ dialog'.chat = Rest /\ dialog'.execute = Rest /\ dialog'.memory = NoMemory
      /\ dialog'.transcript = <<>> /\ dialog'.kept = <<>> /\ dialog'.spoiled = FALSE
  BY DEF BeginDialog, Fields
<1> DEFINE rest == Rest
           m == NoMemory
<1>2. rest.at = "rest" /\ ~Stores(rest)
  BY RestIsRest
<1>3. m \in Memories /\ BothHalves(m) = <<>>
  BY DEF NoMemory, Memories, BothHalves
<1> HIDE DEF rest, m
<1>4. DialogShape'
  <2>1. Len(Scripts[i].requests) \in Nat
    BY RequestsFit
  <2>2. 1 \in Nat \ {0} /\ 1 <= Len(Scripts[i].requests) + 1
    BY <2>1
  <2>3. \E j \in DOMAIN Scripts : dialog'.script = Scripts[j]
    BY <1>1
  <2>4. dialog'.next \in Nat \ {0} /\ dialog'.next <= Len(dialog'.script.requests) + 1
    BY <1>1, <2>2
  <2>5. /\ dialog'.memory \in Memories /\ dialog'.kept \in Seq(Piece) /\ dialog'.transcript \in Seq(Nat \X Roles)
        /\ dialog'.spoiled \in BOOLEAN
    <3>1. dialog'.memory \in Memories
      BY <1>1, <1>3 DEF m
    <3>2. dialog'.kept \in Seq(Piece) /\ dialog'.transcript \in Seq(Nat \X Roles)
      BY <1>1
    <3>3. dialog'.spoiled \in BOOLEAN
      BY <1>1
    <3> QED BY <3>1, <3>2, <3>3
  <2> QED BY <1>1, <2>3, <2>4, <2>5 DEF DialogShape
<1>5. WayFits(rest, <<>>, 1) /\ WayTold("chat", rest, <<>>) /\ WayTold("execute", rest, <<>>)
  BY <1>2 DEF WayFits, WayTold, TurnFits, Working
<1>6. DialogTurns' /\ DialogTold'
  BY <1>1, <1>2, <1>5 DEF DialogTurns, DialogTold, Ways, rest
<1>7. Sound(rest, rest, m, <<>>, AllPieces')
  <2>1. ~Midway(rest, m, <<>>) /\ ~IsCurrent(rest, <<>>)
    BY <1>2, NotStored DEF IsCurrent, Working
  <2> QED BY <1>3, <2>1 DEF Sound, InTurn, CurrentIsWhole, Midway
<1>8. DialogSound'
  BY <1>1, <1>7 DEF DialogSound, rest, m
<1> QED BY <1>4, <1>6, <1>8 DEF DialogInv

\* The invariant of a conversation is inductive.
LEMMA DialogKeeps == DialogInv /\ [DialogNext]_dialog => DialogInv'
<1> SUFFICES ASSUME DialogInv, [DialogNext]_dialog PROVE DialogInv'
  OBVIOUS
<1>1. CASE UNCHANGED dialog
  BY <1>1, SamePieces DEF DialogInv, DialogShape, DialogTurns, DialogTold, DialogSound
<1>2. CASE dialog = NoDialog /\ \E i \in DOMAIN Scripts : BeginDialog(Scripts[i])
  BY <1>2, DialogBegins
<1>3. CASE dialog.at = "on" /\ dialog # NoDialog
  <2>1. DialogShape /\ DialogTurns /\ DialogTold /\ DialogSound
    BY <1>3 DEF DialogInv
  <2>2. Ways = Ways
    BY DEF Ways
  <2>3. CASE StartTurn \/ SaveRules \/ InvalidateMappingCache \/ Edit
    BY <2>1, <2>3, TurnStarts, OthersKeep
  <2>4. CASE StopChat \/ LoadChat \/ LoadExecute
    BY <2>1, <2>4, OverKeeps, LoadChatKeeps, LoadExecuteKeeps DEF StopChat, Ways
  <2>5. CASE \E way \in Ways : \/ Prepares(way) \/ Responds(way) \/ Commit(way)
                               \/ CompressFails(way) \/ CommitFails(way)
    BY <2>1, <2>5, PreparesKeeps, RespondsKeeps, CommitKeeps, CompressFailsKeeps, CommitFailsKeeps
  <2>6. CASE UNCHANGED dialog
    BY <1>1, <2>6
  <2>7. dialog = NoDialog => FALSE
    BY <1>3
  <2> QED BY <2>2, <2>3, <2>4, <2>5, <2>6, <2>7 DEF DialogNext
<1>4. NoDialog.at # "on"
  BY DEF NoDialog
<1> QED BY <1>1, <1>2, <1>3, <1>4 DEF DialogNext

\* Both turns at rest: the two halves are what should be kept.
LEMMA WholeFollows == DialogInv => MemoryIsWhole
<1> SUFFICES ASSUME DialogInv, dialog.at = "on"
             PROVE  /\ \A k \in DOMAIN dialog.kept : \A role \in {"user", "assistant"} :
                            IsTold(dialog.transcript, dialog.kept[k][1], role)
                    /\ Quiet /\ ~dialog.spoiled => dialog.memory.summary \o dialog.memory.recent = dialog.kept
  BY DEF MemoryIsWhole, Begun
<1>1. dialog # NoDialog
  BY DEF NoDialog
<1>2. DialogTold /\ DialogSound
  BY <1>1 DEF DialogInv
<1>3. ASSUME Quiet, ~dialog.spoiled PROVE dialog.memory.summary \o dialog.memory.recent = dialog.kept
  <2>1. dialog.chat = Rest /\ dialog.execute = Rest
    BY <1>3 DEF Quiet, Busy, Begun, Ways
  <2>2. ~Midway(dialog.chat, dialog.memory, dialog.kept) /\ ~Midway(dialog.execute, dialog.memory, dialog.kept)
    BY <2>1, RestIsRest, NotStored
  <2>3. Sound(dialog.chat, dialog.execute, dialog.memory, dialog.kept, AllPieces)
    BY <1>2, <1>3 DEF DialogSound
  <2> QED BY <2>2, <2>3 DEF Sound, BothHalves
<1> QED BY <1>2, <1>3 DEF DialogTold, Roles

\* What a session remembers is its answered turns, in their order and each of them
\* once, unless a turn could not read the memory, or wrote over what another had
\* stored since, or was given up between the two halves; and what is remembered is
\* in the transcript, with the question and the answer (agent_service.py 255-265,
\* 353-424; memory_summary_node.py 113-139; state_service.py 140-149).
THEOREM ConversationIsRemembered == DialogSpec => []MemoryIsWhole
<1>1. DialogInit => DialogInv
  BY DEF DialogInit, DialogInv
<1> QED BY <1>1, DialogKeeps, WholeFollows, PTL DEF DialogSpec

------------------------------------------------------------------------------
(* What fails in a conversation, and the places of its turns.               *)

LEMMA ComesItsWay == ASSUME DialogShape, StartTurn PROVE dialog.script.requests[dialog.next].by \in Ways
<1>1. PICK i \in DOMAIN Scripts : dialog.script = Scripts[i]
  BY DEF DialogShape
<1>2. Len(dialog.script.requests) \in Nat /\ dialog.next <= Len(dialog.script.requests)
  BY <1>1, RequestsFit DEF StartTurn, Script
<1>3. dialog.next \in 1..Len(dialog.script.requests)
  BY <1>2 DEF DialogShape
<1> QED BY <1>1, <1>3, RequestsFit DEF Ways

\* What fails, fails at most so often.
LapsesFit == dialog.lapses \in 0..MaxLapses

\* What a commit does is no lapse.
LEMMA CommitsAtNoLapse ==
    ASSUME DialogShape, DialogTurns, NEW way \in Ways, Commit(way)
    PROVE  dialog'.lapses = dialog.lapses
<1> DEFINE t == dialog[way]
           w == Write(way, t)
<1>1. t.at \in {"answered", "store"} /\ dialog' = [w EXCEPT ![way] = Committed(@)]
  BY DEF Commit, Storing
<1>2. WayFits(t, dialog.kept, dialog.next) /\ Stores(t)
  BY <1>1 DEF DialogTurns, Stores
<1>3. Head(t.todo) \in Kinds
  <2>1. t.todo \in Todos
    BY <1>2 DEF WayFits, TurnFits
  <2> QED BY <2>1, EarlyOnes, LaterOnes DEF Todos, Kinds
<1>4. DOMAIN w = Fields /\ w.lapses = dialog.lapses
  <2>1. CASE Head(t.todo) \in {"user", "assistant"}
    <3> DEFINE told2 == Append(dialog.transcript, <<t.turn, Head(t.todo)>>)
    <3>1. w = [dialog EXCEPT !.transcript = told2]
      BY <2>1, WritesTo
    <3> HIDE DEF told2, w
    <3> QED BY <3>1 DEF Fields, DialogShape
  <2>2. CASE Head(t.todo) = "rows"
    <3> DEFINE rows2 == SyncPendingFixes(dialog.rows, t.out.pending)
    <3>1. w = [dialog EXCEPT !.rows = rows2]
      BY <2>2, WritesTo
    <3> HIDE DEF rows2, w
    <3> QED BY <3>1 DEF Fields, DialogShape
  <2>3. CASE Head(t.todo) = "summary"
    <3>1. DOMAIN w = Fields /\ \A f \in Fields : f \notin {"memory", "spoiled"} => w[f] = dialog[f]
      BY <2>3, SummaryIsWritten
    <3> HIDE DEF w
    <3> QED BY <3>1 DEF Fields
  <2>4. CASE Head(t.todo) = "recent"
    <3>1. DOMAIN w = Fields /\ \A f \in Fields : f \notin {"memory", "spoiled", "kept", way} => w[f] = dialog[f]
      BY <2>4, RecentIsWritten
    <3> HIDE DEF w
    <3> QED BY <3>1 DEF Fields, Ways
  <2> QED BY <1>3, <2>1, <2>2, <2>3, <2>4 DEF Kinds
<1> HIDE DEF w
<1> QED BY <1>1, <1>4 DEF Fields, Ways

LEMMA LapsesKeep == DialogInv /\ (dialog # NoDialog => LapsesFit) /\ [DialogNext]_dialog => (dialog # NoDialog => LapsesFit)'
<1> SUFFICES ASSUME DialogInv, dialog # NoDialog => LapsesFit, [DialogNext]_dialog, (dialog # NoDialog)' PROVE LapsesFit'
  OBVIOUS
<1>0. MaxLapses \in Nat
  BY BoundsAssumption
<1>1. CASE UNCHANGED dialog
  BY <1>1 DEF LapsesFit, NoDialog
<1>2. CASE dialog = NoDialog /\ \E i \in DOMAIN Scripts : BeginDialog(Scripts[i])
  BY <1>0, <1>2 DEF LapsesFit, BeginDialog
<1>3. CASE dialog.at = "on" /\ dialog # NoDialog
  <2>1. LapsesFit /\ DOMAIN dialog = Fields
    BY <1>3 DEF DialogInv, DialogShape
  <2>2. CASE StartTurn \/ SaveRules \/ InvalidateMappingCache \/ Edit \/ StopChat \/ LoadExecute
    <3> SUFFICES dialog'.lapses = dialog.lapses
      BY <2>1 DEF LapsesFit
    <3>1. CASE StartTurn
      <4> DEFINE way == dialog.script.requests[dialog.next].by
      <4>1. dialog' = [dialog EXCEPT ![way] = [at |-> "load", turn |-> dialog.next], !.next = @ + 1]
        BY <3>1 DEF StartTurn, Request, Script
      <4>2. way \in Ways
        BY <1>3, <3>1, ComesItsWay DEF DialogInv
      <4> QED BY <2>1, <4>1, <4>2 DEF Fields, Ways
    <3>2. CASE SaveRules
      BY <2>1, <3>2 DEF SaveRules, Fields
    <3>3. CASE InvalidateMappingCache
      BY <2>1, <3>3 DEF InvalidateMappingCache, Fields
    <3>4. CASE Edit
      BY <2>1, <3>4 DEF Edit, Fields
    <3>5. CASE StopChat
      BY <2>1, <3>5 DEF StopChat, GiveUp, Fields
    <3>6. CASE LoadExecute
      BY <2>1, <3>6 DEF LoadExecute, Fields
    <3> QED BY <2>2, <3>1, <3>2, <3>3, <3>4, <3>5, <3>6
  <2>3. CASE LoadChat
    <3>1. PICK memoryFails \in BOOLEAN, drawingFails \in BOOLEAN :
            LET failed == (IF memoryFails THEN 1 ELSE 0) + (IF drawingFails THEN 1 ELSE 0) IN
            dialog.lapses + failed <= MaxLapses /\ dialog'.lapses = dialog.lapses + failed
      BY <2>1, <2>3 DEF LoadChat, Fields
    <3> QED BY <1>0, <2>1, <3>1 DEF LapsesFit
  <2>4. ASSUME NEW way \in Ways, Prepares(way) PROVE LapsesFit'
    <3>1. PICK q, d, intent, rules, names, slip : slip \in Slips(way, q, d, intent) /\ Prepared(way, q, d, intent, rules, names, slip)
      BY <2>4 DEF Prepares
    <3>2. dialog'.lapses = IF slip = "none" THEN dialog.lapses ELSE dialog.lapses + 1
      BY <2>1, <2>4, <3>1 DEF Prepared, Fields, Ways
    <3>3. slip = "none" \/ Lapse
      BY <3>1 DEF Slips
    <3> QED BY <1>0, <2>1, <3>2, <3>3 DEF LapsesFit, Lapse
  <2>5. ASSUME NEW way \in Ways, Responds(way) \/ Commit(way) PROVE LapsesFit'
    <3>1. CASE Responds(way)
      BY <2>1, <2>5, <3>1 DEF LapsesFit, Responds, Fields, Ways
    <3>2. CASE Commit(way)
      BY <1>3, <2>1, <2>5, <3>2, CommitsAtNoLapse DEF LapsesFit, DialogInv
    <3> QED BY <2>5, <3>1, <3>2
  <2>6. ASSUME NEW way \in Ways, CompressFails(way) \/ CommitFails(way) PROVE LapsesFit'
    <3> SUFFICES dialog.lapses < MaxLapses /\ dialog'.lapses = dialog.lapses + 1
      BY <1>0, <2>1 DEF LapsesFit
    <3>1. CASE CompressFails(way)
      BY <2>1, <3>1 DEF CompressFails, Lapse, Fields, Ways
    <3>2. CASE CommitFails(way)
      <4> DEFINE t == dialog[way]
                 goesOn == way = "chat" /\ Len(t.todo) > Len(Saves) /\ t.out.pending # <<>>
                 lost == dialog.spoiled \/ Torn(t)
      <4>1. dialog.lapses < MaxLapses
        BY <3>2 DEF CommitFails, Lapse
      <4>2. CASE goesOn
        <5>1. dialog' = [dialog EXCEPT ![way].todo = Saves, !.lapses = @ + 1,
                                       ![way].new = IF Head(t.todo) \in {"user", "assistant"} THEN t.mem ELSE @]
          BY <3>2, <4>2 DEF CommitFails
        <5> QED BY <2>1, <4>1, <5>1 DEF Fields, Ways
      <4>3. CASE ~goesOn
        <5>1. dialog' = [dialog EXCEPT ![way] = Rest, !.lapses = @ + 1, !.spoiled = lost]
          BY <3>2, <4>3 DEF CommitFails
        <5> HIDE DEF lost
        <5> QED BY <2>1, <4>1, <5>1 DEF Fields, Ways
      <4> QED BY <4>2, <4>3
    <3> QED BY <2>6, <3>1, <3>2
  <2> QED BY <1>1, <1>3, <2>2, <2>3, <2>4, <2>5, <2>6 DEF DialogNext
<1>4. NoDialog.at # "on"
  BY DEF NoDialog
<1> QED BY <1>1, <1>2, <1>3, <1>4 DEF DialogNext

LEMMA DialogIsTyped == DialogInv /\ (dialog # NoDialog => LapsesFit) => DialogTypeOK
<1> SUFFICES ASSUME DialogInv, dialog # NoDialog => LapsesFit, dialog.at = "on"
             PROVE  /\ dialog.lapses <= MaxLapses /\ dialog.next <= Len(Script.requests) + 1
                    /\ \A way \in Ways : dialog[way].at \in {"rest", "load", "node", "tools"} \union Storing
  BY DEF DialogTypeOK, Begun
<1>1. dialog # NoDialog
  BY DEF NoDialog
<1>2. dialog.lapses <= MaxLapses /\ dialog.next <= Len(Script.requests) + 1
  BY <1>1 DEF DialogInv, DialogShape, LapsesFit, Script
<1>3. ASSUME NEW way \in Ways PROVE dialog[way].at \in {"rest", "load", "node", "tools"} \union Storing
  <2>1. TurnFits(dialog[way], dialog.kept)
    BY <1>1 DEF DialogInv, DialogTurns, WayFits
  <2> QED BY <2>1 DEF TurnFits, Storing, Working, Stores
<1> QED BY <1>2, <1>3

\* The counters of a conversation stay within their bounds, and each of its turns is
\* in one of the places that it has (agent_service.py 255-424).
THEOREM DialogTyped == DialogSpec => []DialogTypeOK
<1>1. DialogInit => DialogInv /\ (dialog # NoDialog => LapsesFit)
  BY DEF DialogInit, DialogInv
<1> QED BY <1>1, DialogKeeps, LapsesKeep, DialogIsTyped, PTL DEF DialogSpec

------------------------------------------------------------------------------
(* Induction over the places of a list, and what its folds compute: the     *)
(* filter of the handles, the annotations and the nearest walls.            *)

\* A set of numbers that has 0 and with each number the next has them all.
LEMMA OverNat == ASSUME NEW S \in SUBSET Nat, 0 \in S, \A n \in S : n + 1 \in S PROVE S = Nat
<1> SUFFICES ASSUME S # Nat PROVE FALSE
  OBVIOUS
<1> DEFINE T == Nat \ S
<1>1. PICK x \in T : \A y \in T : ~ (<<y, x>> \in OpToRel(<, Nat))
  <2>1. T \subseteq Nat /\ T # {}
    OBVIOUS
  <2> HIDE DEF T
  <2> QED BY <2>1, NatLessThanWellFounded, WFMin
<1>2. x # 0 /\ x \in Nat
  OBVIOUS
<1>3. x - 1 \in Nat /\ x - 1 < x
  BY <1>2
<1>4. <<x - 1, x>> \in OpToRel(<, Nat)
  BY <1>2, <1>3 DEF OpToRel
<1>5. x - 1 \in S
  BY <1>1, <1>3, <1>4
<1> QED BY <1>2, <1>5

\* Induction up to a bound.
LEMMA UpTo ==
    ASSUME NEW n \in Nat, NEW S, 0 \in S, \A k \in 0..(n - 1) : k \in S => k + 1 \in S
    PROVE  \A k \in 0..n : k \in S
<1> DEFINE T == {k \in Nat : k <= n => k \in S}
<1>1. 0 \in T
  OBVIOUS
<1>2. ASSUME NEW k \in T PROVE k + 1 \in T
  OBVIOUS
<1>3. T = Nat
  <2> HIDE DEF T
  <2>1. T \in SUBSET Nat
    BY DEF T
  <2> QED BY <1>1, <1>2, <2>1, OverNat
<1> QED BY <1>3

LEMMA LastOfUpTo == ASSUME NEW n \in Nat, NEW u \in SUBSET (1..(n + 1)), n + 1 \in u PROVE Max(u) = n + 1
<1>1. \A y \in u : n + 1 >= y
  OBVIOUS
<1>2. \A x \in u : (\A y \in u : x >= y) => x = n + 1
  BY <1>1
<1> QED BY <1>1, <1>2 DEF Max

\* What the folds of the community modules compute is a recursive function on sets
\* of places; here it exists, for a step of typed values.
Folding(n, base, step, it) ==
    it = [u \in SUBSET (1..n) |-> IF u = {} THEN base ELSE step[<<Max(u), it[u \ {Max(u)}]>>]]

LEMMA FoldingExists ==
    ASSUME NEW n \in Nat, NEW V, NEW base \in V, NEW step \in [(1..n) \X V -> V]
    PROVE  \E it \in [SUBSET (1..n) -> V] : Folding(n, base, step, it)
<1> DEFINE S == {k \in Nat : \E it \in [SUBSET (1..k) -> V] : Folding(k, base, step, it)}
<1>1. 0 \in S
  <2> DEFINE it == [u \in SUBSET (1..0) |-> base]
  <2>1. SUBSET (1..0) = {{}}
    OBVIOUS
  <2>2. it \in [SUBSET (1..0) -> V]
    OBVIOUS
  <2>3. Folding(0, base, step, it)
    <3>1. \A u \in SUBSET (1..0) : it[u] = IF u = {} THEN base ELSE step[<<Max(u), it[u \ {Max(u)}]>>]
      BY <2>1
    <3> QED BY <3>1 DEF Folding
  <2> HIDE DEF it
  <2> QED BY <2>2, <2>3
<1>2. ASSUME NEW k \in 0..(n - 1), k \in S PROVE k + 1 \in S
  <2>1. PICK f \in [SUBSET (1..k) -> V] : Folding(k, base, step, f)
    BY <1>2
  <2> DEFINE g == [u \in SUBSET (1..(k + 1)) |-> IF k + 1 \in u THEN step[<<k + 1, f[u \ {k + 1}]>>] ELSE f[u]]
  <2>2. ASSUME NEW u \in SUBSET (1..(k + 1)) PROVE u \ {k + 1} \in SUBSET (1..k) /\ (k + 1 \notin u => u \in SUBSET (1..k))
    OBVIOUS
  <2>3. g \in [SUBSET (1..(k + 1)) -> V]
    <3> SUFFICES ASSUME NEW u \in SUBSET (1..(k + 1)) PROVE g[u] \in V
      OBVIOUS
    <3>1. CASE k + 1 \in u
      <4>1. f[u \ {k + 1}] \in V /\ k + 1 \in 1..n
        BY <2>2
      <4>2. <<k + 1, f[u \ {k + 1}]>> \in (1..n) \X V
        BY <4>1
      <4> QED BY <3>1, <4>2
    <3>2. CASE k + 1 \notin u
      BY <2>2, <3>2
    <3> QED BY <3>1, <3>2
  <2>4. ASSUME NEW u \in SUBSET (1..(k + 1))
        PROVE  g[u] = IF u = {} THEN base ELSE step[<<Max(u), g[u \ {Max(u)}]>>]
    <3>1. CASE k + 1 \in u
      <4>1. Max(u) = k + 1
        BY <3>1, LastOfUpTo
      <4>2. u \ {k + 1} \in SUBSET (1..(k + 1)) /\ k + 1 \notin u \ {k + 1}
        OBVIOUS
      <4>3. g[u \ {k + 1}] = f[u \ {k + 1}]
        BY <4>2
      <4>4. g[u] = step[<<k + 1, f[u \ {k + 1}]>>]
        BY <3>1
      <4> QED BY <3>1, <4>1, <4>3, <4>4
    <3>2. CASE k + 1 \notin u
      <4>1. u \in SUBSET (1..k) /\ g[u] = f[u]
        BY <2>2, <3>2
      <4>2. f[u] = IF u = {} THEN base ELSE step[<<Max(u), f[u \ {Max(u)}]>>]
        BY <2>1, <4>1 DEF Folding
      <4>3. g[u \ {Max(u)}] = f[u \ {Max(u)}]
        BY <3>2
      <4> QED BY <4>1, <4>2, <4>3
    <3> QED BY <3>1, <3>2
  <2>5. Folding(k + 1, base, step, g)
    BY <2>3, <2>4 DEF Folding
  <2> HIDE DEF g
  <2> QED BY <2>3, <2>5
<1>3. \A k \in 0..n : k \in S
  <2> HIDE DEF S
  <2> QED BY <1>1, <1>2, UpTo
<1> HIDE DEF S
<1>4. n \in S
  BY <1>3
<1> QED BY <1>4 DEF S

LEMMA LastIsIn == ASSUME NEW n \in Nat, NEW u \in SUBSET (1..n), u # {} PROVE Max(u) \in u /\ Max(u) \in 1..n
<1> DEFINE S == {k \in Nat : \A w \in SUBSET (1..k) : w # {} => Max(w) \in w}
<1>1. 0 \in S
  <2>1. 1..0 = {}
    OBVIOUS
  <2> QED BY <2>1
<1>2. ASSUME NEW k \in 0..(n - 1), k \in S PROVE k + 1 \in S
  <2> SUFFICES ASSUME NEW w \in SUBSET (1..(k + 1)), w # {} PROVE Max(w) \in w
    OBVIOUS
  <2>1. CASE k + 1 \in w
    BY <2>1, LastOfUpTo
  <2>2. CASE k + 1 \notin w
    <3>1. w \in SUBSET (1..k)
      BY <2>2
    <3> QED BY <1>2, <3>1
  <2> QED BY <2>1, <2>2
<1>3. \A k \in 0..n : k \in S
  <2> HIDE DEF S
  <2> QED BY <1>1, <1>2, UpTo
<1> HIDE DEF S
<1>4. n \in S
  BY <1>3
<1> QED BY <1>4 DEF S

LEMMA LastPlace ==
    ASSUME NEW n \in Nat, NEW k \in 0..(n - 1)
    PROVE  /\ Max(1..(k + 1)) = k + 1 /\ (1..(k + 1)) \ {k + 1} = 1..k
           /\ 1..(k + 1) \in SUBSET (1..n) /\ 1..(k + 1) # {}
<1>1. k + 1 \in 1..(k + 1) /\ 1..(k + 1) \in SUBSET (1..(k + 1)) /\ k \in Nat
  OBVIOUS
<1>2. Max(1..(k + 1)) = k + 1
  BY <1>1, LastOfUpTo
<1> QED BY <1>2

LEMMA FilterSteps ==
    ASSUME NEW S, NEW list \in Seq(S), NEW handles
    PROVE  \E g : /\ g[0] = <<>> /\ FilterByHandles(list, handles) = g[Len(list)]
                  /\ \A k \in 0..(Len(list) - 1) : g[k + 1] = IF list[k + 1] \in handles THEN Append(g[k], list[k + 1]) ELSE g[k]
<1> DEFINE n == Len(list)
           Op(out, h) == IF h \in handles THEN Append(out, h) ELSE out
           it[u \in SUBSET (DOMAIN list)] == IF u = {} THEN <<>> ELSE LET x == Max(u) IN Op(it[u \ {x}], list[x])
           body(f) == [u \in SUBSET (DOMAIN list) |->
                           IF u = {} THEN <<>> ELSE LET x == Max(u) IN Op(f[u \ {x}], list[x])]
           step == [p \in (1..n) \X Seq(S) |-> Op(p[2], list[p[1]])]
<1>1. DOMAIN list = 1..n /\ n \in Nat
  OBVIOUS
<1>2. FilterByHandles(list, handles) = it[DOMAIN list]
  BY DEF FilterByHandles, FoldLeft, MapThenFoldSet
<1>3. it = body(it)
  <2>1. step \in [(1..n) \X Seq(S) -> Seq(S)] /\ <<>> \in Seq(S)
    OBVIOUS
  <2>2. PICK f \in [SUBSET (1..n) -> Seq(S)] : Folding(n, <<>>, step, f)
    <3> HIDE DEF step, n
    <3> QED BY <1>1, <2>1, FoldingExists
  <2>3. f = body(f)
    <3> SUFFICES ASSUME NEW u \in SUBSET (1..n), u # {}
                 PROVE  step[<<Max(u), f[u \ {Max(u)}]>>] = Op(f[u \ {Max(u)}], list[Max(u)])
      BY <1>1, <2>2 DEF Folding
    <3>1. Max(u) \in 1..n /\ f[u \ {Max(u)}] \in Seq(S)
      BY <1>1, LastIsIn
    <3> HIDE DEF Op
    <3> QED BY <3>1
  <2> HIDE DEF step
  <2> QED BY <2>3
<1>4. \A u \in SUBSET (1..n) : it[u] = IF u = {} THEN <<>> ELSE Op(it[u \ {Max(u)}], list[Max(u)])
  <2> HIDE DEF it
  <2> QED BY <1>1, <1>3
<1> HIDE DEF it, n
<1> DEFINE g == [k \in 0..n |-> it[1..k]]
<1>5. \A k \in 0..(n - 1) : g[k + 1] = Op(g[k], list[k + 1])
  <2> SUFFICES ASSUME NEW k \in 0..(n - 1) PROVE it[1..(k + 1)] = Op(it[1..k], list[k + 1])
    BY <1>1
  <2>1. /\ Max(1..(k + 1)) = k + 1 /\ (1..(k + 1)) \ {k + 1} = 1..k
        /\ 1..(k + 1) \in SUBSET (1..n) /\ 1..(k + 1) # {}
    BY <1>1, LastPlace
  <2> HIDE DEF Op
  <2> QED BY <1>4, <2>1
<1>6. g[0] = <<>> /\ g[n] = it[DOMAIN list]
  <2>1. 1..0 = {} /\ {} \in SUBSET (1..n) /\ 0 \in 0..n /\ n \in 0..n
    BY <1>1
  <2>2. g[0] = it[1..0] /\ g[n] = it[1..n]
    BY <2>1
  <2>3. it[{}] = <<>>
    BY <1>4
  <2> QED BY <1>1, <2>1, <2>2, <2>3
<1> HIDE DEF g
<1> QED BY <1>2, <1>5, <1>6 DEF n

Annotates(d, target, list, g) ==
    /\ g[0] = target /\ AppendAnnotations(d, target, list) = g[Len(list)]
    /\ \A k \in 0..(Len(list) - 1) : g[k + 1] = g[k] \/ g[k + 1] = Append(g[k], list[k + 1])
LEMMA AnnotationSteps ==
    ASSUME NEW S, NEW d, NEW target \in Seq(S), NEW list \in Seq(S)
    PROVE  \E g : Annotates(d, target, list, g)
<1> DEFINE n == Len(list)
           Op(out, h) == IF h \in ToSet(out) \/ ~IsAnnotation(d.ent[h], HasPipeContext(d)) THEN out ELSE Append(out, h)
           it[u \in SUBSET (DOMAIN list)] == IF u = {} THEN target ELSE LET x == Max(u) IN Op(it[u \ {x}], list[x])
           body(f) == [u \in SUBSET (DOMAIN list) |->
                           IF u = {} THEN target ELSE LET x == Max(u) IN Op(f[u \ {x}], list[x])]
           step == [p \in (1..n) \X Seq(S) |-> Op(p[2], list[p[1]])]
<1>1. DOMAIN list = 1..n /\ n \in Nat
  OBVIOUS
<1>2. AppendAnnotations(d, target, list) = it[DOMAIN list]
  BY DEF AppendAnnotations, FoldLeft, MapThenFoldSet
<1>3. it = body(it)
  <2>1. step \in [(1..n) \X Seq(S) -> Seq(S)] /\ target \in Seq(S)
    OBVIOUS
  <2>2. PICK f \in [SUBSET (1..n) -> Seq(S)] : Folding(n, target, step, f)
    <3> HIDE DEF step, n
    <3> QED BY <1>1, <2>1, FoldingExists
  <2>3. f = body(f)
    <3> SUFFICES ASSUME NEW u \in SUBSET (1..n), u # {}
                 PROVE  step[<<Max(u), f[u \ {Max(u)}]>>] = Op(f[u \ {Max(u)}], list[Max(u)])
      BY <1>1, <2>2 DEF Folding
    <3>1. Max(u) \in 1..n /\ f[u \ {Max(u)}] \in Seq(S)
      BY <1>1, LastIsIn
    <3> HIDE DEF Op
    <3> QED BY <3>1
  <2> HIDE DEF step
  <2> QED BY <2>3
<1>4. \A u \in SUBSET (1..n) : it[u] = IF u = {} THEN target ELSE Op(it[u \ {Max(u)}], list[Max(u)])
  <2> HIDE DEF it
  <2> QED BY <1>1, <1>3
<1> HIDE DEF it, n
<1> DEFINE g == [k \in 0..n |-> it[1..k]]
<1>5. \A k \in 0..(n - 1) : g[k + 1] = Op(g[k], list[k + 1])
  <2> SUFFICES ASSUME NEW k \in 0..(n - 1) PROVE it[1..(k + 1)] = Op(it[1..k], list[k + 1])
    BY <1>1
  <2>1. /\ Max(1..(k + 1)) = k + 1 /\ (1..(k + 1)) \ {k + 1} = 1..k
        /\ 1..(k + 1) \in SUBSET (1..n) /\ 1..(k + 1) # {}
    BY <1>1, LastPlace
  <2> HIDE DEF Op
  <2> QED BY <1>4, <2>1
<1>6. g[0] = target /\ g[n] = it[DOMAIN list]
  <2>1. 1..0 = {} /\ {} \in SUBSET (1..n) /\ 0 \in 0..n /\ n \in 0..n
    BY <1>1
  <2>2. g[0] = it[1..0] /\ g[n] = it[1..n]
    BY <2>1
  <2>3. it[{}] = target
    BY <1>4
  <2> QED BY <1>1, <2>1, <2>2, <2>3
<1> HIDE DEF g
<1> QED BY <1>2, <1>5, <1>6 DEF n, Annotates

Gap(d, h, a) == Separation(d.ent[h].at, d.ent[a].at)
Nearest(d, h, list) == First(list, LAMBDA a, b : Separation(d.ent[h].at, d.ent[a].at) < Separation(d.ent[h].at, d.ent[b].at))
OneOf(S) == {<<>>} \union {<<x>> : x \in S}

LEMMA NearestSteps ==
    ASSUME NEW S, NEW d, NEW h, NEW list \in Seq(S)
    PROVE  \E g : /\ g[0] = <<>> /\ Nearest(d, h, list) = g[Len(list)]
                  /\ \A k \in 0..(Len(list) - 1) : g[k + 1] = IF g[k] = <<>> \/ Gap(d, h, list[k + 1]) < Gap(d, h, g[k][1]) THEN <<list[k + 1]>> ELSE g[k]
<1> DEFINE n == Len(list)
           Op(out, a) == IF out = <<>> \/ Gap(d, h, a) < Gap(d, h, out[1]) THEN <<a>> ELSE out
           it[u \in SUBSET (DOMAIN list)] == IF u = {} THEN <<>> ELSE LET x == Max(u) IN Op(it[u \ {x}], list[x])
           body(f) == [u \in SUBSET (DOMAIN list) |->
                           IF u = {} THEN <<>> ELSE LET x == Max(u) IN Op(f[u \ {x}], list[x])]
           step == [p \in (1..n) \X OneOf(S) |-> Op(p[2], list[p[1]])]
<1>1. DOMAIN list = 1..n /\ n \in Nat
  OBVIOUS
<1>2. Nearest(d, h, list) = it[DOMAIN list]
  BY DEF Nearest, Gap, First, FoldLeft, MapThenFoldSet
<1>3. it = body(it)
  <2>1. step \in [(1..n) \X OneOf(S) -> OneOf(S)] /\ <<>> \in OneOf(S)
    BY DEF OneOf
  <2>2. PICK f \in [SUBSET (1..n) -> OneOf(S)] : Folding(n, <<>>, step, f)
    <3> HIDE DEF step, n
    <3> QED BY <1>1, <2>1, FoldingExists
  <2>3. f = body(f)
    <3> SUFFICES ASSUME NEW u \in SUBSET (1..n), u # {}
                 PROVE  step[<<Max(u), f[u \ {Max(u)}]>>] = Op(f[u \ {Max(u)}], list[Max(u)])
      BY <1>1, <2>2 DEF Folding
    <3>1. Max(u) \in 1..n /\ f[u \ {Max(u)}] \in OneOf(S)
      BY <1>1, LastIsIn
    <3> HIDE DEF Op
    <3> QED BY <3>1
  <2> HIDE DEF step
  <2> QED BY <2>3
<1>4. \A u \in SUBSET (1..n) : it[u] = IF u = {} THEN <<>> ELSE Op(it[u \ {Max(u)}], list[Max(u)])
  <2> HIDE DEF it
  <2> QED BY <1>1, <1>3
<1> HIDE DEF it, n
<1> DEFINE g == [k \in 0..n |-> it[1..k]]
<1>5. \A k \in 0..(n - 1) : g[k + 1] = Op(g[k], list[k + 1])
  <2> SUFFICES ASSUME NEW k \in 0..(n - 1) PROVE it[1..(k + 1)] = Op(it[1..k], list[k + 1])
    BY <1>1
  <2>1. /\ Max(1..(k + 1)) = k + 1 /\ (1..(k + 1)) \ {k + 1} = 1..k
        /\ 1..(k + 1) \in SUBSET (1..n) /\ 1..(k + 1) # {}
    BY <1>1, LastPlace
  <2> HIDE DEF Op
  <2> QED BY <1>4, <2>1
<1>6. g[0] = <<>> /\ g[n] = it[DOMAIN list]
  <2>1. 1..0 = {} /\ {} \in SUBSET (1..n) /\ 0 \in 0..n /\ n \in 0..n
    BY <1>1
  <2>2. g[0] = it[1..0] /\ g[n] = it[1..n]
    BY <2>1
  <2>3. it[{}] = <<>>
    BY <1>4
  <2> QED BY <1>1, <2>1, <2>2, <2>3
<1> HIDE DEF g
<1> QED BY <1>2, <1>5, <1>6 DEF n

Placed(d, list) == {h \in ToSet(list) : d.ent[h].at # <<>>}
LEMMA HintsAre ==
    ASSUME NEW d, NEW arch, NEW mep, NEW split, NEW most
    PROVE  LET solid == FilterByHandles(arch, Placed(d, arch))
               placed == FilterByHandles(mep, Placed(d, mep))
               hints == SpatialHints(d, arch, mep, split, most)
           IN  \/ hints = <<>>
               \/ /\ DOMAIN hints = 1..(IF Len(placed) < most THEN Len(placed) ELSE most)
                  /\ solid # <<>>
                  /\ \A i \in DOMAIN hints : hints[i].mep = placed[i] /\ hints[i].arch = Nearest(d, placed[i], solid)
BY DEF SpatialHints, Nearest, Placed

------------------------------------------------------------------------------
(* The hints of the layout: each element of the drawing that is placed gets *)
(* the nearest of its annotations' walls.                                   *)

LEMMA AppendedSet ==
    ASSUME NEW S, NEW seq \in Seq(S), NEW x
    PROVE  ToSet(Append(seq, x)) = ToSet(seq) \union {x}
<1>1. /\ DOMAIN Append(seq, x) = 1..(Len(seq) + 1) /\ DOMAIN seq = 1..Len(seq) /\ Len(seq) \in Nat
      /\ \A k \in 1..(Len(seq) + 1) : Append(seq, x)[k] = IF k = Len(seq) + 1 THEN x ELSE seq[k]
  OBVIOUS
<1>2. \A k \in 1..(Len(seq) + 1) : k = Len(seq) + 1 \/ k \in 1..Len(seq)
  BY <1>1
<1>3. Len(seq) + 1 \in 1..(Len(seq) + 1) /\ \A k \in 1..Len(seq) : k \in 1..(Len(seq) + 1) /\ k # Len(seq) + 1
  BY <1>1
<1> DEFINE app == Append(seq, x)
<1> HIDE DEF app
<1> QED BY <1>1, <1>2, <1>3 DEF ToSet, app

LEMMA FilteredIs ==
    ASSUME NEW S, NEW list \in Seq(S), NEW handles
    PROVE  /\ FilterByHandles(list, handles) \in Seq(S)
           /\ ToSet(FilterByHandles(list, handles)) = ToSet(list) \intersect handles
<1> DEFINE n == Len(list)
           W == S \intersect handles
<1>1. n \in Nat /\ DOMAIN list = 1..n /\ \A k \in 1..n : list[k] \in S
  OBVIOUS
<1>2. PICK g : /\ g[0] = <<>> /\ FilterByHandles(list, handles) = g[n]
               /\ \A k \in 0..(n - 1) : g[k + 1] = IF list[k + 1] \in handles THEN Append(g[k], list[k + 1]) ELSE g[k]
  BY FilterSteps
<1> DEFINE Holds == {k \in 0..n : /\ g[k] \in Seq(W) /\ \A x \in ToSet(g[k]) : x \in ToSet(list)
                                  /\ \A i \in 1..k : list[i] \in handles => list[i] \in ToSet(g[k])}
<1> HIDE DEF n
<1>3. 0 \in Holds
  <2>1. 0 \in 0..n /\ g[0] \in Seq(W) /\ (\A i \in 1..0 : FALSE)
    BY <1>1, <1>2
  <2>2. \A x \in ToSet(g[0]) : FALSE
    BY <1>2 DEF ToSet
  <2> QED BY <2>1, <2>2
<1>4. ASSUME NEW k \in 0..(n - 1), k \in Holds PROVE k + 1 \in Holds
  <2>1. k + 1 \in 1..n /\ k + 1 \in 0..n /\ list[k + 1] \in S /\ list[k + 1] \in ToSet(list)
    BY <1>1 DEF ToSet
  <2>2. g[k] \in Seq(W) /\ \A i \in 1..k : list[i] \in handles => list[i] \in ToSet(g[k])
    BY <1>4
  <2>3. CASE list[k + 1] \in handles
    <3>1. g[k + 1] = Append(g[k], list[k + 1]) /\ list[k + 1] \in W
      BY <1>2, <2>1, <2>3
    <3>2. g[k + 1] \in Seq(W) /\ ToSet(g[k + 1]) = ToSet(g[k]) \union {list[k + 1]}
      BY <2>2, <3>1, AppendedSet
    <3>3. \A i \in 1..(k + 1) : i \in 1..k \/ i = k + 1
      OBVIOUS
    <3>4. \A x \in ToSet(g[k]) : x \in ToSet(list)
      BY <1>4
    <3> HIDE DEF W
    <3> QED BY <2>1, <2>2, <3>2, <3>3, <3>4
  <2>4. CASE list[k + 1] \notin handles
    <3>1. g[k + 1] = g[k]
      BY <1>2, <2>4
    <3>2. \A i \in 1..(k + 1) : i \in 1..k \/ i = k + 1
      OBVIOUS
    <3>3. \A x \in ToSet(g[k]) : x \in ToSet(list)
      BY <1>4
    <3> QED BY <2>1, <2>2, <2>4, <3>1, <3>2, <3>3
  <2> QED BY <2>3, <2>4
<1>5. n \in Holds
  <2> HIDE DEF Holds
  <2>1. \A k \in 0..n : k \in Holds
    BY <1>1, <1>3, <1>4, UpTo
  <2> QED BY <1>1, <2>1
<1>6. g[n] \in Seq(W) /\ (\A x \in ToSet(g[n]) : x \in ToSet(list)) /\ \A i \in 1..n : list[i] \in handles => list[i] \in ToSet(g[n])
  BY <1>5
<1>7. \A x \in ToSet(g[n]) : x \in handles
  BY <1>6 DEF ToSet
<1>8. \A x \in ToSet(list) \intersect handles : x \in ToSet(g[n])
  BY <1>1, <1>6 DEF ToSet
<1>9. g[n] \in Seq(S)
  BY <1>6
<1> QED BY <1>2, <1>6, <1>7, <1>8, <1>9

LEMMA AnnotationsAre ==
    ASSUME NEW S, NEW d, NEW target \in Seq(S), NEW list \in Seq(S)
    PROVE  AppendAnnotations(d, target, list) \in Seq(S)
<1>1. Len(list) \in Nat /\ DOMAIN list = 1..Len(list) /\ \A k \in 1..Len(list) : list[k] \in S
  OBVIOUS
<1>0. PICK g : Annotates(d, target, list, g)
  BY AnnotationSteps
<1>2. /\ g[0] = target /\ AppendAnnotations(d, target, list) = g[Len(list)]
      /\ \A k \in 0..(Len(list) - 1) : g[k + 1] = g[k] \/ g[k + 1] = Append(g[k], list[k + 1])
  BY <1>0 DEF Annotates
<1> DEFINE n == Len(list)
           Holds == {k \in 0..n : g[k] \in Seq(S)}
<1>a. n \in Nat /\ \A k \in 1..n : list[k] \in S
  BY <1>1
<1>b. \A k \in 0..(n - 1) : g[k + 1] = g[k] \/ g[k + 1] = Append(g[k], list[k + 1])
  BY <1>2
<1> HIDE DEF n
<1>3. 0 \in Holds
  BY <1>a, <1>2
<1>4. ASSUME NEW k \in 0..(n - 1), k \in Holds PROVE k + 1 \in Holds
  <2>1. k + 1 \in 1..n /\ k + 1 \in 0..n /\ list[k + 1] \in S /\ g[k] \in Seq(S)
    BY <1>a, <1>4
  <2>2. g[k + 1] = g[k] \/ g[k + 1] = Append(g[k], list[k + 1])
    BY <1>b
  <2>3. Append(g[k], list[k + 1]) \in Seq(S)
    BY <2>1
  <2>4. g[k + 1] \in Seq(S)
    BY <2>1, <2>2, <2>3
  <2> QED BY <2>1, <2>4
<1>5. n \in Holds
  <2> HIDE DEF Holds
  <2>1. \A k \in 0..n : k \in Holds
    BY <1>a, <1>3, <1>4, UpTo
  <2> QED BY <1>a, <2>1
<1> QED BY <1>2, <1>5 DEF n

Points == Int \X Int
LEMMA LargestOfThree == ASSUME NEW x \in Int, NEW y \in Int, NEW z \in Int PROVE Max({x, y, z}) \in Int
<1>1. \E m \in {x, y, z} : \A o \in {x, y, z} : m >= o
  <2>1. CASE x >= y /\ x >= z
    BY <2>1
  <2>2. CASE y >= x /\ y >= z
    BY <2>2
  <2>3. CASE z >= x /\ z >= y
    BY <2>3
  <2> QED BY <2>1, <2>2, <2>3
<1>2. Max({x, y, z}) \in {x, y, z}
  BY <1>1 DEF Max
<1> QED BY <1>2

LEMMA GapIs == ASSUME NEW d, NEW h, NEW a, d.ent[h].at \in Points, d.ent[a].at \in Points PROVE Gap(d, h, a) \in Int
<1> DEFINE p == d.ent[h].at
           q == d.ent[a].at
<1>1. p[1] \in Int /\ p[2] \in Int /\ q[1] \in Int /\ q[2] \in Int
  BY DEF Points
<1> HIDE DEF p, q
<1>2. 0 \in Int /\ q[1] - p[2] \in Int /\ p[1] - q[2] \in Int
  BY <1>1
<1>3. Max({0, q[1] - p[2], p[1] - q[2]}) \in Int
  BY <1>2, LargestOfThree
<1> QED BY <1>3 DEF Gap, Separation, p, q

LEMMA NearestIs ==
    ASSUME NEW S, NEW d, NEW h, NEW list \in Seq(S), list # <<>>,
           d.ent[h].at \in Points, \A a \in S : d.ent[a].at \in Points
    PROVE  LET best == Nearest(d, h, list) IN \A a \in ToSet(list) : Gap(d, h, best[1]) <= Gap(d, h, a)
<1> DEFINE n == Len(list)
<1>1. n \in Nat /\ n # 0 /\ DOMAIN list = 1..n /\ \A k \in 1..n : list[k] \in S
  OBVIOUS
<1>2. PICK g : /\ g[0] = <<>> /\ Nearest(d, h, list) = g[n]
               /\ \A k \in 0..(n - 1) :
                    g[k + 1] = IF g[k] = <<>> \/ Gap(d, h, list[k + 1]) < Gap(d, h, g[k][1])
                               THEN <<list[k + 1]>> ELSE g[k]
  BY NearestSteps
<1> DEFINE Holds == {k \in 0..n : \/ k = 0
                                  \/ \E x \in S : /\ g[k] = <<x>>
                                                  /\ \A i \in 1..k : Gap(d, h, x) <= Gap(d, h, list[i])}
<1> HIDE DEF n
<1>3. 0 \in Holds
  BY <1>1
<1>4. ASSUME NEW k \in 0..(n - 1), k \in Holds PROVE k + 1 \in Holds
  <2>1. k + 1 \in 1..n /\ k + 1 \in 0..n /\ list[k + 1] \in S /\ \A i \in 1..(k + 1) : i \in 1..k \/ i = k + 1
    BY <1>1
  <2>2. \A a \in S : Gap(d, h, a) \in Int
    BY GapIs
  <2>3. CASE k = 0
    <3>1. g[k + 1] = <<list[k + 1]>>
      BY <1>2, <2>3
    <3>2. Gap(d, h, list[k + 1]) <= Gap(d, h, list[k + 1])
      BY <2>1, <2>2
    <3>3. \A i \in 1..(k + 1) : i = k + 1
      BY <2>3
    <3> QED BY <2>1, <3>1, <3>2, <3>3
  <2>4. CASE k # 0
    <3>1. PICK x \in S : g[k] = <<x>> /\ \A i \in 1..k : Gap(d, h, x) <= Gap(d, h, list[i])
      BY <1>4, <2>4
    <3>2. g[k] # <<>> /\ g[k][1] = x
      BY <3>1
    <3>3. \A i \in 1..k : list[i] \in S
      BY <1>1
    <3>4. CASE Gap(d, h, list[k + 1]) < Gap(d, h, x)
      <4>1. g[k + 1] = <<list[k + 1]>>
        BY <1>2, <3>2, <3>4
      <4>2. \A i \in 1..(k + 1) : Gap(d, h, list[k + 1]) <= Gap(d, h, list[i])
        BY <2>1, <2>2, <3>1, <3>3, <3>4
      <4> QED BY <2>1, <4>1, <4>2
    <3>5. CASE ~(Gap(d, h, list[k + 1]) < Gap(d, h, x))
      <4>1. g[k + 1] = <<x>>
        BY <1>2, <3>1, <3>2, <3>5
      <4>2. \A i \in 1..(k + 1) : Gap(d, h, x) <= Gap(d, h, list[i])
        BY <2>1, <2>2, <3>1, <3>5
      <4> QED BY <2>1, <4>1, <4>2
    <3> QED BY <3>4, <3>5
  <2> QED BY <2>3, <2>4
<1>5. n \in Holds
  <2> HIDE DEF Holds
  <2>1. \A k \in 0..n : k \in Holds
    BY <1>1, <1>3, <1>4, UpTo
  <2> QED BY <1>1, <2>1
<1>6. PICK x \in S : g[n] = <<x>> /\ \A i \in 1..n : Gap(d, h, x) <= Gap(d, h, list[i])
  BY <1>1, <1>5
<1> QED BY <1>1, <1>2, <1>6 DEF ToSet

LEMMA HintsHold ==
    ASSUME NEW d, IsDrawing(d), NEW org, NEW split, NEW arch \in Seq(ToSet(d.list)), NEW mep \in Seq(ToSet(d.list)),
           NEW most \in Nat
    PROVE  HintsAreNearest(d, LayoutOf(d, org, split, arch, mep, most))
<1> DEFINE layout == LayoutOf(d, org, split, arch, mep, most)
           solid == FilterByHandles(arch, Placed(d, arch))
           placed == FilterByHandles(mep, Placed(d, mep))
           S == {h \in ToSet(d.list) : d.ent[h].at # <<>>}
<1>1. layout.hints = SpatialHints(d, arch, mep, split, most) /\ layout.arch = arch
  BY DEF LayoutOf
<1>2. \A h \in S : d.ent[h].at \in Points
  BY DEF IsDrawing, Points
<1>3. /\ solid \in Seq(ToSet(d.list)) /\ placed \in Seq(ToSet(d.list))
      /\ ToSet(solid) = {h \in ToSet(arch) : d.ent[h].at # <<>>}
      /\ ToSet(placed) = {h \in ToSet(mep) : d.ent[h].at # <<>>}
  BY FilteredIs DEF Placed
<1> SUFFICES ASSUME NEW i \in DOMAIN layout.hints, NEW h \in ToSet(arch), d.ent[h].at # <<>>
             PROVE  Separation(d.ent[layout.hints[i].mep].at, d.ent[layout.hints[i].arch[1]].at)
                        <= Separation(d.ent[layout.hints[i].mep].at, d.ent[h].at)
  BY <1>1 DEF HintsAreNearest
<1>4. /\ i \in 1..(IF Len(placed) < most THEN Len(placed) ELSE most) /\ solid # <<>>
      /\ layout.hints[i].mep = placed[i] /\ layout.hints[i].arch = Nearest(d, placed[i], solid)
  <2> DEFINE hints == SpatialHints(d, arch, mep, split, most)
  <2>1. hints # <<>>
    BY <1>1
  <2>2. /\ DOMAIN hints = 1..(IF Len(placed) < most THEN Len(placed) ELSE most) /\ solid # <<>>
        /\ \A j \in DOMAIN hints : hints[j].mep = placed[j] /\ hints[j].arch = Nearest(d, placed[j], solid)
    BY <2>1, HintsAre
  <2> HIDE DEF solid, placed, hints
  <2> QED BY <1>1, <2>2 DEF hints
<1> HIDE DEF solid, placed, layout
<1>5. i \in 1..Len(placed)
  BY <1>3, <1>4
<1>6. placed[i] \in S /\ d.ent[placed[i]].at \in Points
  <2>1. placed[i] \in ToSet(placed) /\ placed[i] \in ToSet(d.list)
    BY <1>3, <1>5 DEF ToSet
  <2> QED BY <1>2, <1>3, <2>1
<1>7. solid \in Seq(S)
  <2>1. \A k \in 1..Len(solid) : solid[k] \in ToSet(solid) /\ solid[k] \in ToSet(d.list)
    BY <1>3 DEF ToSet
  <2> QED BY <1>3, <2>1
<1>8. h \in ToSet(solid)
  BY <1>3
<1> HIDE DEF S
<1>9. Gap(d, placed[i], Nearest(d, placed[i], solid)[1]) <= Gap(d, placed[i], h)
  BY <1>2, <1>4, <1>6, <1>7, <1>8, NearestIs
<1> QED BY <1>4, <1>9 DEF Gap

\* The layout of a drawing: its hints name the nearest walls, and each of its layers
\* has its role.
LEMMA LayoutHints ==
    ASSUME NEW q, NEW d, NEW org, NEW intent, HasDrawing(d) => IsDrawing(d)
    PROVE  /\ HintsAreNearest(d, Layout(q, d, org, intent))
           /\ HasDrawing(d) /\ intent # "answer" /\ q.domain = "pipe" =>
                Layout(q, d, org, intent).roles
                    = [name \in {d.ent[h].layer : h \in ToSet(d.list)} |-> ClassifyLayer(name, d.layer[name], org)]
<1>1. CASE ~(HasDrawing(d) /\ intent # "answer" /\ q.domain = "pipe")
  <2>1. Layout(q, d, org, intent).hints = <<>>
    BY <1>1 DEF Layout, NoLayout
  <2>2. \A i \in DOMAIN <<>> : FALSE
    OBVIOUS
  <2> QED BY <1>1, <2>1, <2>2 DEF HintsAreNearest
<1>2. CASE HasDrawing(d) /\ intent # "answer" /\ q.domain = "pipe"
  <2> DEFINE S == ToSet(d.list)
             split == Split(d, org)
             arch == PartOf(d, split, "arch")
             mep == Targets(d, PartOf(d, split, "review"), q.focus, q.selected)
  <2>1. d.list \in Seq(S)
    BY <1>2 DEF IsDrawing, IsList
  <2>2. Layout(q, d, org, intent) = LayoutOf(d, org, split, arch, mep, 32)
    BY <1>2 DEF Layout, PipeLayout
  <2> HIDE DEF split, S
  <2>3. arch \in Seq(S) /\ PartOf(d, split, "review") \in Seq(S)
    BY <2>1, FilteredIs DEF PartOf
  <2>4. mep \in Seq(S)
    <3> DEFINE review == PartOf(d, split, "review")
    <3>1. review \in Seq(S)
      BY <2>3
    <3> HIDE DEF review
    <3>2. FilterByHandles(review, q.focus) \in Seq(S) /\ FilterByHandles(review, q.selected) \in Seq(S)
      BY <3>1, FilteredIs
    <3>3. /\ AppendAnnotations(d, FilterByHandles(review, q.focus), review) \in Seq(S)
          /\ AppendAnnotations(d, FilterByHandles(review, q.selected), review) \in Seq(S)
      BY <3>1, <3>2, AnnotationsAre
    <3> QED BY <3>1, <3>3 DEF Targets, review
  <2> HIDE DEF arch, mep
  <2>5. HintsAreNearest(d, LayoutOf(d, org, split, arch, mep, 32))
    BY <1>2, <2>3, <2>4, HintsHold DEF S
  <2>6. LayoutOf(d, org, split, arch, mep, 32).roles
            = [name \in {d.ent[h].layer : h \in ToSet(d.list)} |-> ClassifyLayer(name, d.layer[name], org)]
    BY DEF LayoutOf
  <2> QED BY <2>2, <2>5, <2>6
<1> QED BY <1>1, <1>2

------------------------------------------------------------------------------
(* The tables beside a text: those that are added are of the library, and   *)
(* all of one query that are asked for are there.                           *)

TakesTable(c, more, ref, found, most) == TableBeside(c, ref) /\ Len(more) < most /\ ~IsThere(c, found, more)
UpToMost(S, most) == {s \in Seq(S) : Len(s) <= most}

TableFold(added, ref, found, library, most, g) ==
    /\ g[0] = added /\ WithTables(added, ref, found, library, most) = g[Len(library)]
    /\ \A k \in 0..(Len(library) - 1) :
          g[k + 1] = (IF TakesTable(library[k + 1], g[k], ref, found, most) THEN Append(g[k], library[k + 1]) ELSE g[k])
LEMMA TableSteps ==
    ASSUME NEW S, NEW library \in Seq(S), NEW added \in Seq(S), NEW ref, NEW found, NEW most
    PROVE  \E g : TableFold(added, ref, found, library, most, g)
<1> DEFINE n == Len(library)
           Op(out, h) == (IF TakesTable(h, out, ref, found, most) THEN Append(out, h) ELSE out)
           it[u \in SUBSET (DOMAIN library)] == IF u = {} THEN added ELSE LET x == Max(u) IN Op(it[u \ {x}], library[x])
           body(f) == [u \in SUBSET (DOMAIN library) |->
                           IF u = {} THEN added ELSE LET x == Max(u) IN Op(f[u \ {x}], library[x])]
           step == [p \in (1..n) \X Seq(S) |-> Op(p[2], library[p[1]])]
<1>1. DOMAIN library = 1..n /\ n \in Nat
  OBVIOUS
<1>2. WithTables(added, ref, found, library, most) = it[DOMAIN library]
  BY DEF WithTables, TakesTable, FoldLeft, MapThenFoldSet
<1>3. it = body(it)
  <2>1. step \in [(1..n) \X Seq(S) -> Seq(S)] /\ added \in Seq(S)
    OBVIOUS
  <2>2. PICK f \in [SUBSET (1..n) -> Seq(S)] : Folding(n, added, step, f)
    <3> HIDE DEF step, n
    <3> QED BY <1>1, <2>1, FoldingExists
  <2>3. f = body(f)
    <3> SUFFICES ASSUME NEW u \in SUBSET (1..n), u # {}
                 PROVE  step[<<Max(u), f[u \ {Max(u)}]>>] = Op(f[u \ {Max(u)}], library[Max(u)])
      BY <1>1, <2>2 DEF Folding
    <3>1. Max(u) \in 1..n /\ f[u \ {Max(u)}] \in Seq(S)
      BY <1>1, LastIsIn
    <3> HIDE DEF Op
    <3> QED BY <3>1
  <2> HIDE DEF step
  <2> QED BY <2>3
<1>4. \A u \in SUBSET (1..n) : it[u] = IF u = {} THEN added ELSE Op(it[u \ {Max(u)}], library[Max(u)])
  <2> HIDE DEF it
  <2> QED BY <1>1, <1>3
<1> HIDE DEF it, n
<1> DEFINE g == [k \in 0..n |-> it[1..k]]
<1>5. \A k \in 0..(n - 1) : g[k + 1] = Op(g[k], library[k + 1])
  <2> SUFFICES ASSUME NEW k \in 0..(n - 1) PROVE it[1..(k + 1)] = Op(it[1..k], library[k + 1])
    BY <1>1
  <2>1. /\ Max(1..(k + 1)) = k + 1 /\ (1..(k + 1)) \ {k + 1} = 1..k
        /\ 1..(k + 1) \in SUBSET (1..n) /\ 1..(k + 1) # {}
    BY <1>1, LastPlace
  <2> HIDE DEF Op
  <2> QED BY <1>4, <2>1
<1>6. g[0] = added /\ g[n] = it[DOMAIN library]
  <2>1. 1..0 = {} /\ {} \in SUBSET (1..n) /\ 0 \in 0..n /\ n \in 0..n
    BY <1>1
  <2>2. g[0] = it[1..0] /\ g[n] = it[1..n]
    BY <2>1
  <2>3. it[{}] = added
    BY <1>4
  <2> QED BY <1>1, <2>1, <2>2, <2>3
<1> HIDE DEF g
<1> QED BY <1>2, <1>5, <1>6 DEF n, TableFold

LEMMA StillThere ==
    ASSUME NEW c, NEW found, NEW added, NEW more, ToSet(added) \subseteq ToSet(more), IsThere(c, found, added)
    PROVE  IsThere(c, found, more)
BY DEF IsThere

LEMMA WithTablesIs ==
    ASSUME NEW S, NEW library \in Seq(S), NEW most \in Nat, NEW added \in Seq(S), Len(added) <= most, NEW ref, NEW found
    PROVE  /\ WithTables(added, ref, found, library, most) \in Seq(S)
           /\ Len(WithTables(added, ref, found, library, most)) <= most
           /\ Len(added) <= Len(WithTables(added, ref, found, library, most))
           /\ ToSet(added) \subseteq ToSet(WithTables(added, ref, found, library, most))
           /\ Len(WithTables(added, ref, found, library, most)) < most =>
                \A c \in ToSet(library) : TableBeside(c, ref) => IsThere(c, found, WithTables(added, ref, found, library, most))
<1> DEFINE n == Len(library)
<1>1. n \in Nat /\ DOMAIN library = 1..n /\ \A k \in 1..n : library[k] \in S
  OBVIOUS
<1>0. PICK g : TableFold(added, ref, found, library, most, g)
  BY TableSteps
<1>2. /\ g[0] = added /\ WithTables(added, ref, found, library, most) = g[n]
               /\ \A k \in 0..(n - 1) :
                    g[k + 1] = (IF TakesTable(library[k + 1], g[k], ref, found, most)
                                THEN Append(g[k], library[k + 1]) ELSE g[k])
  BY <1>0 DEF TableFold
<1> DEFINE Has(k) == \A i \in 1..k : TableBeside(library[i], ref) => IsThere(library[i], found, g[k])
           Holds == {k \in 0..n : /\ g[k] \in Seq(S) /\ Len(g[k]) <= most /\ Len(added) <= Len(g[k])
                                  /\ ToSet(added) \subseteq ToSet(g[k])
                                  /\ Len(g[k]) < most => Has(k)}
<1> HIDE DEF n
<1>3. 0 \in Holds
  BY <1>1, <1>2
<1>4. ASSUME NEW k \in 0..(n - 1), k \in Holds PROVE k + 1 \in Holds
  <2> DEFINE c == library[k + 1]
  <2>1. k + 1 \in 1..n /\ k + 1 \in 0..n /\ c \in S /\ \A i \in 1..(k + 1) : i \in 1..k \/ i = k + 1
    BY <1>1
  <2>2. /\ g[k] \in Seq(S) /\ Len(g[k]) <= most /\ Len(added) <= Len(g[k]) /\ ToSet(added) \subseteq ToSet(g[k])
        /\ Len(g[k]) < most => Has(k)
    BY <1>4
  <2>3. g[k + 1] = (IF TakesTable(c, g[k], ref, found, most) THEN Append(g[k], c) ELSE g[k])
    BY <1>2
  <2> HIDE DEF c
  <2>4. CASE TakesTable(c, g[k], ref, found, most)
    <3>1. Len(g[k]) < most /\ g[k + 1] = Append(g[k], c)
      BY <2>3, <2>4 DEF TakesTable
    <3>2. g[k + 1] \in Seq(S) /\ Len(g[k + 1]) = Len(g[k]) + 1 /\ ToSet(g[k + 1]) = ToSet(g[k]) \union {c}
      BY <2>1, <2>2, <3>1, AppendedSet
    <3>3. Len(g[k]) \in Nat /\ Len(added) \in Nat
      BY <2>2
    <3>4. IsThere(c, found, g[k + 1])
      BY <3>2 DEF IsThere, IsAt
    <3>5. \A i \in 1..k : TableBeside(library[i], ref) => IsThere(library[i], found, g[k + 1])
      BY <2>2, <3>1, <3>2, StillThere
    <3>6. Has(k + 1)
      BY <2>1, <3>4, <3>5 DEF c
    <3> HIDE DEF Has
    <3>7. Len(g[k + 1]) <= most /\ Len(added) <= Len(g[k + 1])
      BY <2>2, <3>1, <3>2, <3>3
    <3>8. ToSet(added) \subseteq ToSet(g[k + 1])
      BY <2>2, <3>2
    <3> QED BY <2>1, <3>2, <3>6, <3>7, <3>8
  <2>5. CASE ~TakesTable(c, g[k], ref, found, most)
    <3>1. g[k + 1] = g[k]
      BY <2>3, <2>5
    <3>2. Len(g[k]) < most /\ TableBeside(c, ref) => IsThere(c, found, g[k])
      BY <2>5 DEF TakesTable
    <3>3. Len(g[k]) < most => Has(k + 1)
      BY <2>1, <2>2, <3>1, <3>2 DEF c
    <3> HIDE DEF Has
    <3> QED BY <2>1, <2>2, <3>1, <3>3
  <2> QED BY <2>4, <2>5
<1>5. n \in Holds
  <2> HIDE DEF Holds
  <2>1. \A k \in 0..n : k \in Holds
    BY <1>1, <1>3, <1>4, UpTo
  <2> QED BY <1>1, <2>1
<1>6. Len(g[n]) < most => \A c \in ToSet(library) : TableBeside(c, ref) => IsThere(c, found, g[n])
  BY <1>1, <1>5 DEF ToSet
<1> QED BY <1>2, <1>5, <1>6

AllTableFold(found, library, failing, most, g) ==
    /\ g[0] = <<>> /\ TablesOf(found, library, failing, most) = g[Len(found)]
    /\ \A k \in 0..(Len(found) - 1) :
          g[k + 1] = (IF AsksForTables(found[k + 1], failing)
                      THEN WithTables(g[k], found[k + 1], found, library, most) ELSE g[k])
LEMMA AllTableSteps ==
    ASSUME NEW S, NEW library \in Seq(S), NEW R, NEW found \in Seq(R), NEW failing, NEW most \in Nat
    PROVE  \E g : AllTableFold(found, library, failing, most, g)
<1> DEFINE n == Len(found)
           Op(out, h) == (IF AsksForTables(h, failing) THEN WithTables(out, h, found, library, most) ELSE out)
           it[u \in SUBSET (DOMAIN found)] == IF u = {} THEN <<>> ELSE LET x == Max(u) IN Op(it[u \ {x}], found[x])
           body(f) == [u \in SUBSET (DOMAIN found) |->
                           IF u = {} THEN <<>> ELSE LET x == Max(u) IN Op(f[u \ {x}], found[x])]
           step == [p \in (1..n) \X UpToMost(S, most) |-> Op(p[2], found[p[1]])]
<1>1. DOMAIN found = 1..n /\ n \in Nat
  OBVIOUS
<1>2. TablesOf(found, library, failing, most) = it[DOMAIN found]
  BY DEF TablesOf, FoldLeft, MapThenFoldSet
<1>3. it = body(it)
  <2>1. step \in [(1..n) \X UpToMost(S, most) -> UpToMost(S, most)] /\ <<>> \in UpToMost(S, most)
    <3>1. <<>> \in UpToMost(S, most)
      BY DEF UpToMost
    <3>2. \A v \in UpToMost(S, most), ref \in R : WithTables(v, ref, found, library, most) \in UpToMost(S, most)
      BY WithTablesIs DEF UpToMost
    <3>3. \A p \in (1..n) \X UpToMost(S, most) : found[p[1]] \in R /\ p[2] \in UpToMost(S, most)
      OBVIOUS
    <3> QED BY <3>1, <3>2, <3>3
  <2>2. PICK f \in [SUBSET (1..n) -> UpToMost(S, most)] : Folding(n, <<>>, step, f)
    <3> HIDE DEF step, n
    <3> QED BY <1>1, <2>1, FoldingExists
  <2>3. f = body(f)
    <3> SUFFICES ASSUME NEW u \in SUBSET (1..n), u # {}
                 PROVE  step[<<Max(u), f[u \ {Max(u)}]>>] = Op(f[u \ {Max(u)}], found[Max(u)])
      BY <1>1, <2>2 DEF Folding
    <3>1. Max(u) \in 1..n /\ f[u \ {Max(u)}] \in UpToMost(S, most)
      BY <1>1, LastIsIn
    <3> HIDE DEF Op
    <3> QED BY <3>1
  <2> HIDE DEF step
  <2> QED BY <2>3
<1>4. \A u \in SUBSET (1..n) : it[u] = IF u = {} THEN <<>> ELSE Op(it[u \ {Max(u)}], found[Max(u)])
  <2> HIDE DEF it
  <2> QED BY <1>1, <1>3
<1> HIDE DEF it, n
<1> DEFINE g == [k \in 0..n |-> it[1..k]]
<1>5. \A k \in 0..(n - 1) : g[k + 1] = Op(g[k], found[k + 1])
  <2> SUFFICES ASSUME NEW k \in 0..(n - 1) PROVE it[1..(k + 1)] = Op(it[1..k], found[k + 1])
    BY <1>1
  <2>1. /\ Max(1..(k + 1)) = k + 1 /\ (1..(k + 1)) \ {k + 1} = 1..k
        /\ 1..(k + 1) \in SUBSET (1..n) /\ 1..(k + 1) # {}
    BY <1>1, LastPlace
  <2> HIDE DEF Op
  <2> QED BY <1>4, <2>1
<1>6. g[0] = <<>> /\ g[n] = it[DOMAIN found]
  <2>1. 1..0 = {} /\ {} \in SUBSET (1..n) /\ 0 \in 0..n /\ n \in 0..n
    BY <1>1
  <2>2. g[0] = it[1..0] /\ g[n] = it[1..n]
    BY <2>1
  <2>3. it[{}] = <<>>
    BY <1>4
  <2> QED BY <1>1, <2>1, <2>2, <2>3
<1> HIDE DEF g
<1> QED BY <1>2, <1>5, <1>6 DEF n, AllTableFold

LEMMA AllTablesAre ==
    ASSUME NEW S, NEW library \in Seq(S), NEW R, NEW found \in Seq(R), NEW failing, NEW most \in Nat
    PROVE  /\ TablesOf(found, library, failing, most) \in Seq(S)
           /\ Len(TablesOf(found, library, failing, most)) < most =>
                \A ref \in ToSet(found), c \in ToSet(library) :
                    AsksForTables(ref, failing) /\ TableBeside(c, ref)
                        => IsThere(c, found, TablesOf(found, library, failing, most))
<1> DEFINE n == Len(found)
<1>1. n \in Nat /\ DOMAIN found = 1..n /\ \A k \in 1..n : found[k] \in R
  OBVIOUS
<1>0. PICK g : AllTableFold(found, library, failing, most, g)
  BY AllTableSteps
<1>2. /\ g[0] = <<>> /\ TablesOf(found, library, failing, most) = g[n]
               /\ \A k \in 0..(n - 1) :
                    g[k + 1] = (IF AsksForTables(found[k + 1], failing)
                                THEN WithTables(g[k], found[k + 1], found, library, most) ELSE g[k])
  BY <1>0 DEF AllTableFold
<1> DEFINE Has(k) == \A i \in 1..k : AsksForTables(found[i], failing) =>
                        \A c \in ToSet(library) : TableBeside(c, found[i]) => IsThere(c, found, g[k])
           Holds == {k \in 0..n : g[k] \in Seq(S) /\ Len(g[k]) <= most /\ (Len(g[k]) < most => Has(k))}
<1> HIDE DEF n
<1>3. 0 \in Holds
  <2>1. g[0] = <<>> /\ Len(<<>>) = 0 /\ <<>> \in Seq(S) /\ 0 \in 0..n /\ 0 <= most
    BY <1>1, <1>2
  <2>2. \A i \in 1..0 : FALSE
    OBVIOUS
  <2>3. Has(0)
    BY <2>2
  <2> HIDE DEF Has
  <2> QED BY <2>1, <2>3
<1>4. ASSUME NEW k \in 0..(n - 1), k \in Holds PROVE k + 1 \in Holds
  <2> DEFINE r == found[k + 1]
  <2>1. k + 1 \in 1..n /\ k + 1 \in 0..n /\ r \in R /\ \A i \in 1..(k + 1) : i \in 1..k \/ i = k + 1
    BY <1>1
  <2>2. g[k] \in Seq(S) /\ Len(g[k]) <= most /\ (Len(g[k]) < most => Has(k)) /\ Len(g[k]) \in Nat
    BY <1>4
  <2>3. g[k + 1] = (IF AsksForTables(r, failing) THEN WithTables(g[k], r, found, library, most) ELSE g[k])
    BY <1>2
  <2> HIDE DEF r
  <2>4. CASE AsksForTables(r, failing)
    <3>1. g[k + 1] = WithTables(g[k], r, found, library, most)
      BY <2>3, <2>4
    <3>2. /\ g[k + 1] \in Seq(S) /\ Len(g[k + 1]) <= most /\ Len(g[k]) <= Len(g[k + 1]) /\ ToSet(g[k]) \subseteq ToSet(g[k + 1])
          /\ Len(g[k + 1]) < most => \A c \in ToSet(library) : TableBeside(c, r) => IsThere(c, found, g[k + 1])
      BY <2>2, <3>1, WithTablesIs
    <3>3. Len(g[k + 1]) \in Nat
      BY <3>2
    <3>4. ASSUME Len(g[k + 1]) < most PROVE Has(k + 1)
      <4>1. Has(k)
        BY <2>2, <3>2, <3>3, <3>4
      <4>2. \A i \in 1..k : AsksForTables(found[i], failing) =>
                \A c \in ToSet(library) : TableBeside(c, found[i]) => IsThere(c, found, g[k + 1])
        BY <3>2, <4>1, StillThere
      <4> QED BY <2>1, <3>2, <3>4, <4>2 DEF r
    <3> HIDE DEF Has
    <3> QED BY <2>1, <3>2, <3>4
  <2>5. CASE ~AsksForTables(r, failing)
    <3>1. g[k + 1] = g[k]
      BY <2>3, <2>5
    <3>2. Len(g[k]) < most => Has(k + 1)
      BY <2>1, <2>2, <2>5, <3>1 DEF r
    <3> HIDE DEF Has
    <3> QED BY <2>1, <2>2, <3>1, <3>2
  <2> QED BY <2>4, <2>5
<1>5. n \in Holds
  <2> HIDE DEF Holds
  <2>1. \A k \in 0..n : k \in Holds
    BY <1>1, <1>3, <1>4, UpTo
  <2> QED BY <1>1, <2>1
<1>6. Len(g[n]) < most => \A ref \in ToSet(found), c \in ToSet(library) :
                            AsksForTables(ref, failing) /\ TableBeside(c, ref) => IsThere(c, found, g[n])
  BY <1>1, <1>5 DEF ToSet
<1> QED BY <1>2, <1>5, <1>6

LEMMA ChunksOfQuery ==
    ASSUME NEW q, NEW calls, NEW library, NEW most \in Nat, IsTurn(q), IsList(library)
    PROVE  /\ FoundChunks(q, calls, library, most) \in Seq(ToSet(q.found) \union ToSet(library))
           /\ (/\ q.domain # "pipe" /\ \E i \in DOMAIN calls : calls[i].name = "call_query_agent"
               /\ Len(FoundChunks(q, calls, library, most)) < Len(q.found) + most
               /\ \A c \in ToSet(library), k \in ToSet(q.found \o library) : IsAt(k, c) => k.id = c.id) =>
                \A ref \in ToSet(q.found), c \in ToSet(library) :
                    AsksForTables(ref, q.failing) /\ TableBeside(c, ref)
                        => \E k \in ToSet(FoundChunks(q, calls, library, most)) : k.id = c.id
<1> DEFINE R == ToSet(q.found)
           S == ToSet(library)
           tables == TablesOf(q.found, library, q.failing, most)
<1>1. q.found \in Seq(R) /\ library \in Seq(S)
  BY DEF IsTurn, IsList
<1>2. /\ tables \in Seq(S)
      /\ Len(tables) < most => \A ref \in R, c \in S : AsksForTables(ref, q.failing) /\ TableBeside(c, ref) => IsThere(c, q.found, tables)
  <2> DEFINE found == q.found
  <2>1. found \in Seq(R)
    BY <1>1
  <2> HIDE DEF found, R, S
  <2> QED BY <1>1, <2>1, AllTablesAre DEF found, R, S
<1>3. CASE q.domain # "pipe" /\ \E i \in DOMAIN calls : calls[i].name = "call_query_agent"
  <2>1. FoundChunks(q, calls, library, most) = q.found \o tables
    BY <1>3 DEF FoundChunks, ExpandTableNeighbors
  <2> HIDE DEF tables
  <2>2. /\ q.found \o tables \in Seq(R \union S) /\ Len(q.found \o tables) = Len(q.found) + Len(tables)
        /\ Len(q.found) \in Nat /\ Len(tables) \in Nat
    <3> HIDE DEF R, S
    <3>1. q.found \in Seq(R \union S) /\ tables \in Seq(R \union S)
      BY <1>1, <1>2
    <3> QED BY <3>1
  <2>3. \A k \in ToSet(tables) : k \in ToSet(q.found \o tables) /\ k \in S
    <3> SUFFICES ASSUME NEW i \in DOMAIN tables PROVE tables[i] \in ToSet(q.found \o tables) /\ tables[i] \in S
      BY DEF ToSet
    <3>1. i \in 1..Len(tables) /\ Len(q.found) + i \in 1..(Len(q.found) + Len(tables)) /\ tables[i] \in S
      BY <1>2, <2>2
    <3>2. (q.found \o tables)[Len(q.found) + i] = tables[i] /\ DOMAIN (q.found \o tables) = 1..(Len(q.found) + Len(tables))
      <4> HIDE DEF R, S
      <4> QED BY <1>1, <1>2, <3>1
    <3>3. tables[i] \in ToSet(q.found \o tables)
      BY <3>1, <3>2 DEF ToSet
    <3> QED BY <3>1, <3>3
  <2>4. \A k \in R : k \in ToSet(q.found \o tables) /\ k \in ToSet(q.found \o library)
    <3> SUFFICES ASSUME NEW i \in DOMAIN q.found PROVE q.found[i] \in ToSet(q.found \o tables) /\ q.found[i] \in ToSet(q.found \o library)
      BY DEF ToSet
    <3>1. i \in 1..Len(q.found)
      BY <1>1
    <3>2. /\ (q.found \o tables)[i] = q.found[i] /\ DOMAIN (q.found \o tables) = 1..(Len(q.found) + Len(tables))
          /\ (q.found \o library)[i] = q.found[i] /\ DOMAIN (q.found \o library) = 1..(Len(q.found) + Len(library))
          /\ Len(library) \in Nat
      <4> HIDE DEF R, S
      <4> QED BY <1>1, <1>2, <3>1
    <3>3. i \in 1..(Len(q.found) + Len(tables)) /\ i \in 1..(Len(q.found) + Len(library))
      BY <2>2, <3>1, <3>2
    <3> QED BY <3>2, <3>3 DEF ToSet
  <2>5. \A k \in S : k \in ToSet(q.found \o library)
    <3> SUFFICES ASSUME NEW i \in DOMAIN library PROVE library[i] \in ToSet(q.found \o library)
      BY DEF ToSet
    <3>1. /\ i \in 1..Len(library) /\ (q.found \o library)[Len(q.found) + i] = library[i]
          /\ DOMAIN (q.found \o library) = 1..(Len(q.found) + Len(library))
      <4> HIDE DEF R, S
      <4> QED BY <1>1
    <3>2. Len(q.found) + i \in 1..(Len(q.found) + Len(library))
      BY <1>1, <2>2, <3>1
    <3> QED BY <3>1, <3>2 DEF ToSet
  <2>6. ASSUME Len(q.found \o tables) < Len(q.found) + most,
               \A c \in S, k \in ToSet(q.found \o library) : IsAt(k, c) => k.id = c.id,
               NEW ref \in R, NEW c \in S, AsksForTables(ref, q.failing), TableBeside(c, ref)
        PROVE  \E k \in ToSet(q.found \o tables) : k.id = c.id
    <3>1. IsThere(c, q.found, tables)
      BY <1>2, <2>2, <2>6
    <3>2. PICK k \in ToSet(tables) \union R : IsAt(k, c)
      BY <3>1 DEF IsThere
    <3>3. k \in ToSet(q.found \o library) /\ k \in ToSet(q.found \o tables)
      BY <2>3, <2>4, <2>5
    <3> QED BY <2>6, <3>2, <3>3
  <2> HIDE DEF R, S
  <2> QED BY <2>1, <2>2, <2>6 DEF R, S
<1>4. CASE ~(q.domain # "pipe" /\ \E i \in DOMAIN calls : calls[i].name = "call_query_agent")
  <2>1. FoundChunks(q, calls, library, most) = q.found
    BY <1>4 DEF FoundChunks
  <2> HIDE DEF R, S, tables
  <2>2. q.found \in Seq(R \union S)
    BY <1>1
  <2> QED BY <1>4, <2>1, <2>2 DEF R, S
<1> QED BY <1>3, <1>4

------------------------------------------------------------------------------
(* The answer is what the tools have added to it, one after another.        *)

AnsweredBy(q, names, found) == FoldLeft(LAMBDA acc, name : AddBlock(q, acc, name, found), Blank, names)
AnswerFold(q, names, found, g) ==
    /\ g[0] = Blank /\ AnsweredBy(q, names, found) = g[Len(names)]
    /\ \A k \in 0..(Len(names) - 1) : g[k + 1] = AddBlock(q, g[k], names[k + 1], found)
AnswerBody(q, names, found, k, f) ==
    f = [u \in SUBSET (1..k) |-> IF u = {} THEN Blank ELSE AddBlock(q, f[u \ {Max(u)}], names[Max(u)], found)]

LEMMA AnswerBodyExists ==
    ASSUME NEW q, NEW names, NEW found, NEW n \in Nat
    PROVE  \E f : AnswerBody(q, names, found, n, f)
<1> DEFINE S == {k \in Nat : \E f : AnswerBody(q, names, found, k, f)}
<1>1. 0 \in S
  <2> DEFINE f == [u \in SUBSET (1..0) |-> Blank]
  <2>1. SUBSET (1..0) = {{}}
    OBVIOUS
  <2>2. \A u \in SUBSET (1..0) : u = {}
    BY <2>1
  <2>3. f = [u \in SUBSET (1..0) |-> IF u = {} THEN Blank ELSE AddBlock(q, f[u \ {Max(u)}], names[Max(u)], found)]
    BY <2>2
  <2> HIDE DEF f
  <2>4. AnswerBody(q, names, found, 0, f)
    BY <2>3 DEF AnswerBody
  <2> QED BY <2>4
<1>2. ASSUME NEW k \in 0..(n - 1), k \in S PROVE k + 1 \in S
  <2>1. PICK f : AnswerBody(q, names, found, k, f)
    BY <1>2
  <2>a. /\ DOMAIN f = SUBSET (1..k)
        /\ \A u \in SUBSET (1..k) : f[u] = IF u = {} THEN Blank ELSE AddBlock(q, f[u \ {Max(u)}], names[Max(u)], found)
    BY <2>1 DEF AnswerBody
  <2> DEFINE g == [u \in SUBSET (1..(k + 1)) |->
                      IF k + 1 \in u THEN AddBlock(q, f[u \ {k + 1}], names[k + 1], found) ELSE f[u]]
  <2>2. ASSUME NEW u \in SUBSET (1..(k + 1)) PROVE u \ {k + 1} \in SUBSET (1..k) /\ (k + 1 \notin u => u \in SUBSET (1..k))
    OBVIOUS
  <2>4. ASSUME NEW u \in SUBSET (1..(k + 1))
        PROVE  g[u] = IF u = {} THEN Blank ELSE AddBlock(q, g[u \ {Max(u)}], names[Max(u)], found)
    <3>1. CASE k + 1 \in u
      <4>1. Max(u) = k + 1
        BY <3>1, LastOfUpTo
      <4>2. u \ {k + 1} \in SUBSET (1..(k + 1)) /\ k + 1 \notin u \ {k + 1}
        OBVIOUS
      <4>3. g[u \ {k + 1}] = f[u \ {k + 1}]
        BY <4>2
      <4>4. g[u] = AddBlock(q, f[u \ {k + 1}], names[k + 1], found)
        BY <3>1
      <4>5. u # {}
        BY <3>1
      <4> HIDE DEF g
      <4> QED BY <4>1, <4>3, <4>4, <4>5
    <3>2. CASE k + 1 \notin u
      <4>1. u \in SUBSET (1..k) /\ g[u] = f[u]
        BY <2>2, <3>2
      <4>2. f[u] = IF u = {} THEN Blank ELSE AddBlock(q, f[u \ {Max(u)}], names[Max(u)], found)
        BY <2>a, <4>1
      <4>3. g[u \ {Max(u)}] = f[u \ {Max(u)}]
        BY <3>2
      <4> HIDE DEF g
      <4> QED BY <4>1, <4>2, <4>3
    <3> QED BY <3>1, <3>2
  <2>5. g = [u \in DOMAIN g |-> g[u]] /\ DOMAIN g = SUBSET (1..(k + 1))
    OBVIOUS
  <2> HIDE DEF g
  <2>6. AnswerBody(q, names, found, k + 1, g)
    BY <2>4, <2>5 DEF AnswerBody
  <2> QED BY <2>6
<1>3. \A k \in 0..n : k \in S
  <2> HIDE DEF S
  <2> QED BY <1>1, <1>2, UpTo
<1> HIDE DEF S
<1>4. n \in S
  BY <1>3
<1> QED BY <1>4 DEF S

LEMMA AnswerSteps ==
    ASSUME NEW q, NEW found, NEW S, NEW names \in Seq(S)
    PROVE  \E g : AnswerFold(q, names, found, g)
<1> DEFINE n == Len(names)
           it[u \in SUBSET (DOMAIN names)] ==
               IF u = {} THEN Blank ELSE LET x == Max(u) IN AddBlock(q, it[u \ {x}], names[x], found)
           body(f) == [u \in SUBSET (DOMAIN names) |->
                           IF u = {} THEN Blank ELSE LET x == Max(u) IN AddBlock(q, f[u \ {x}], names[x], found)]
<1>1. DOMAIN names = 1..n /\ n \in Nat
  OBVIOUS
<1>2. AnsweredBy(q, names, found) = it[DOMAIN names]
  BY DEF AnsweredBy, FoldLeft, MapThenFoldSet
<1>3. it = body(it)
  <2>1. PICK f : AnswerBody(q, names, found, n, f)
    <3> HIDE DEF n
    <3> QED BY <1>1, AnswerBodyExists
  <2>2. f = body(f)
    BY <1>1, <2>1 DEF AnswerBody
  <2> QED BY <2>2
<1>4. \A u \in SUBSET (1..n) : it[u] = IF u = {} THEN Blank ELSE AddBlock(q, it[u \ {Max(u)}], names[Max(u)], found)
  <2> HIDE DEF it
  <2> QED BY <1>1, <1>3
<1> HIDE DEF it, n
<1> DEFINE g == [k \in 0..n |-> it[1..k]]
<1>5. \A k \in 0..(n - 1) : g[k + 1] = AddBlock(q, g[k], names[k + 1], found)
  <2> SUFFICES ASSUME NEW k \in 0..(n - 1) PROVE it[1..(k + 1)] = AddBlock(q, it[1..k], names[k + 1], found)
    BY <1>1
  <2>1. /\ Max(1..(k + 1)) = k + 1 /\ (1..(k + 1)) \ {k + 1} = 1..k
        /\ 1..(k + 1) \in SUBSET (1..n) /\ 1..(k + 1) # {}
    BY <1>1, LastPlace
  <2> QED BY <1>4, <2>1
<1>6. g[0] = Blank /\ g[n] = it[DOMAIN names]
  <2>1. 1..0 = {} /\ {} \in SUBSET (1..n) /\ 0 \in 0..n /\ n \in 0..n
    BY <1>1
  <2>2. g[0] = it[1..0] /\ g[n] = it[1..n]
    BY <2>1
  <2>3. it[{}] = Blank
    BY <1>4
  <2> QED BY <1>1, <2>1, <2>2, <2>3
<1> HIDE DEF g
<1> QED BY <1>2, <1>5, <1>6 DEF n, AnswerFold

------------------------------------------------------------------------------
(* What each tool adds: its laws, the references of its fixes, and whether  *)
(* the question was answered without a tool.                                *)

AnswerFields == {"says", "step", "laws", "violations", "pending"}
ToolNames == {"direct", "none", "call_query_agent", "call_review_agent", "call_action_agent", "get_cad_entity_info",
              "validate_after_fix"}
RefsOf(laws) == {<<>>} \union {laws[i].id : i \in DOMAIN laws}
AnswerHolds(q, direct, found, s) ==
    /\ DOMAIN s = AnswerFields
    /\ s.laws = <<>> \/ s.laws = LawReferences(found) \/ s.laws = LawReferences(q.report.refs)
    /\ s.says = "direct" => direct
    /\ s.says = "query" => s.laws = LawReferences(found)
    /\ s.says = "review" => \A i \in DOMAIN s.pending : s.pending[i].ref \in RefsOf(s.laws)

LEMMA LeastIsIn == ASSUME NEW u \in SUBSET Nat, u # {} PROVE Min(u) \in u
<1>1. PICK x \in u : \A y \in u : ~ (<<y, x>> \in OpToRel(<, Nat))
  BY NatLessThanWellFounded, WFMin
<1>2. \A y \in u : x <= y
  <2> SUFFICES ASSUME NEW y \in u, ~(x <= y) PROVE FALSE
    OBVIOUS
  <2>1. <<y, x>> \in OpToRel(<, Nat)
    BY DEF OpToRel
  <2> QED BY <1>1, <2>1
<1> QED BY <1>1, <1>2 DEF Min

LEMMA RefIsOfLaw == ASSUME NEW rule, NEW laws, DOMAIN laws \subseteq Nat PROVE RefChunkId(rule, laws) \in RefsOf(laws)
<1> DEFINE Fits(law) == law.name # {} /\ (law.name \subseteq rule \/ rule \subseteq law.name) /\ law.id # <<>>
           fitting == {i \in DOMAIN laws : Fits(laws[i])}
<1>1. RefChunkId(rule, laws) = IF rule = {} \/ fitting = {} THEN <<>> ELSE laws[Min(fitting)].id
  BY DEF RefChunkId
<1>2. fitting \subseteq DOMAIN laws
  OBVIOUS
<1> HIDE DEF fitting
<1>3. fitting # {} => Min(fitting) \in DOMAIN laws
  BY <1>2, LeastIsIn
<1> QED BY <1>1, <1>3 DEF RefsOf

LEMMA ReviewLawsAre ==
    ASSUME NEW q, NEW laws
    PROVE  ReviewLaws(q, laws) = laws \/ ReviewLaws(q, laws) = LawReferences(q.report.refs)
BY DEF ReviewLaws

LEMMA PendingRefs ==
    ASSUME NEW q, NEW fixes, NEW items, NEW laws, DOMAIN laws \subseteq Nat
    PROVE  LET pending == BuildPendingFixes(q, fixes, items, laws) IN
           \A i \in DOMAIN pending : pending[i].ref \in RefsOf(laws)
<1> DEFINE pending == BuildPendingFixes(q, fixes, items, laws)
<1> SUFFICES ASSUME NEW i \in DOMAIN pending PROVE pending[i].ref \in RefsOf(laws)
  OBVIOUS
<1> DEFINE finding == FindingOfFix(q, fixes[i], items)
<1>1. pending[i] = PendingFix(q, fixes[i], finding, laws)
  BY DEF BuildPendingFixes
<1> HIDE DEF pending, finding
<1>2. pending[i].ref = IF finding = <<>> THEN <<>> ELSE RefChunkId(finding[1].rule, laws)
  <2> DEFINE eq == fixes[i].eq
             type == IF finding # <<>> THEN finding[1].type ELSE IF q.domain = "elec" THEN "" ELSE fixes[i].type
             ref == IF finding = <<>> THEN <<>> ELSE RefChunkId(finding[1].rule, laws)
  <2>1. pending[i] = [eq |-> eq, type |-> type, ref |-> ref]
    BY <1>1 DEF PendingFix
  <2> HIDE DEF eq, type, ref
  <2>2. pending[i].ref = ref
    BY <2>1
  <2> QED BY <2>2 DEF ref
<1>3. RefChunkId(finding[1].rule, laws) \in RefsOf(laws)
  BY RefIsOfLaw
<1> QED BY <1>2, <1>3 DEF RefsOf

LEMMA ReviewAnswerIs ==
    ASSUME NEW q, NEW direct, NEW found, NEW s, NEW visible, AnswerHolds(q, direct, found, s),
           DOMAIN found \subseteq Nat, DOMAIN q.report.refs \subseteq Nat
    PROVE  AnswerHolds(q, direct, found, ReviewAnswer(q, s, visible))
<1> DEFINE laws == ReviewLaws(q, s.laws)
           violations == ViolationsFrom(visible \o q.report.low)
           pending == BuildPendingFixes(q, q.report.fixes, visible, laws)
           out == ReviewAnswer(q, s, visible)
<1>1. out = [s EXCEPT !.says = "review", !.step = "pending_fix_review", !.laws = laws,
                      !.violations = violations, !.pending = pending]
  BY DEF ReviewAnswer
<1>2. laws = <<>> \/ laws = LawReferences(found) \/ laws = LawReferences(q.report.refs)
  BY ReviewLawsAre DEF AnswerHolds
<1>3. DOMAIN laws \subseteq Nat
  <2>1. DOMAIN <<>> \subseteq Nat
    OBVIOUS
  <2> HIDE DEF laws
  <2> QED BY <1>2, <2>1 DEF LawReferences
<1>4. \A i \in DOMAIN pending : pending[i].ref \in RefsOf(laws)
  <2> HIDE DEF laws
  <2> QED BY <1>3, PendingRefs
<1> HIDE DEF laws, violations, pending, out
<1>5. /\ DOMAIN out = AnswerFields /\ out.says = "review" /\ out.laws = laws /\ out.pending = pending
  BY <1>1 DEF AnswerHolds, AnswerFields
<1> QED BY <1>2, <1>4, <1>5 DEF AnswerHolds, out

LEMMA ActionAnswerIs ==
    ASSUME NEW q, NEW direct, NEW found, NEW s, AnswerHolds(q, direct, found, s)
    PROVE  AnswerHolds(q, direct, found, ActionAnswer(q, s))
<1> DEFINE out == ActionAnswer(q, s)
<1>1. DOMAIN s = AnswerFields
  BY DEF AnswerHolds
<1>2. DOMAIN out = AnswerFields /\ out.says = "action" /\ out.laws = s.laws
  <2>1. CASE q.domain = "arch"
    <3>1. out = [s EXCEPT !.says = "action", !.step = "action_ready"]
      BY <2>1 DEF ActionAnswer
    <3> HIDE DEF out
    <3> QED BY <1>1, <3>1 DEF AnswerFields
  <2>2. CASE q.domain # "arch"
    <3> DEFINE before == IF q.domain = "pipe" THEN s ELSE [s EXCEPT !.violations = <<>>, !.pending = <<>>]
               violations == before.violations \o ViolationsFrom(q.fixes)
               pending == before.pending \o ActionFixes(q)
    <3>1. out = [before EXCEPT !.says = "action", !.step = "pending_fix_review",
                               !.violations = violations, !.pending = pending]
      BY <2>2 DEF ActionAnswer
    <3>2. DOMAIN before = AnswerFields /\ before.laws = s.laws
      BY <1>1 DEF AnswerFields
    <3> HIDE DEF before, violations, pending, out
    <3> QED BY <3>1, <3>2 DEF AnswerFields
  <2> QED BY <2>1, <2>2
<1> HIDE DEF out
<1> QED BY <1>2 DEF AnswerHolds, out

LEMMA BlockAdds ==
    ASSUME NEW q, NEW direct, NEW found, NEW s, NEW name \in ToolNames, AnswerHolds(q, direct, found, s),
           DOMAIN found \subseteq Nat, DOMAIN q.report.refs \subseteq Nat, name = "direct" => direct
    PROVE  AnswerHolds(q, direct, found, AddBlock(q, s, name, found))
<1>1. CASE name = "call_query_agent"
  <2> DEFINE laws == LawReferences(found)
  <2>1. AddBlock(q, s, name, found) = [s EXCEPT !.says = "query", !.step = "query_completed", !.laws = laws]
    BY <1>1 DEF AddBlock
  <2> HIDE DEF laws
  <2>2. LET out == AddBlock(q, s, name, found) IN DOMAIN out = AnswerFields /\ out.says = "query" /\ out.laws = laws
    BY <2>1 DEF AnswerHolds, AnswerFields
  <2> QED BY <2>2 DEF AnswerHolds, laws
<1>2. CASE name = "call_review_agent"
  <2> DEFINE visible == q.report.items \o NotReported(q.report.issues, q.report.items)
  <2>1. AddBlock(q, s, name, found) = ReviewAnswer(q, s, visible)
    BY <1>2 DEF AddBlock
  <2> HIDE DEF visible
  <2> QED BY <2>1, ReviewAnswerIs
<1>3. CASE name = "call_action_agent"
  <2>1. AddBlock(q, s, name, found) = ActionAnswer(q, s)
    BY <1>3 DEF AddBlock
  <2> QED BY <2>1, ActionAnswerIs
<1>4. CASE name = "get_cad_entity_info"
  <2>1. AddBlock(q, s, name, found) = [s EXCEPT !.says = "cad_info", !.step = "agent_completed"]
    BY <1>4 DEF AddBlock
  <2>2. LET out == AddBlock(q, s, name, found) IN DOMAIN out = AnswerFields /\ out.says = "cad_info" /\ out.laws = s.laws
    BY <2>1 DEF AnswerHolds, AnswerFields
  <2> QED BY <2>2 DEF AnswerHolds
<1>5. CASE name = "direct"
  <2>1. AddBlock(q, s, name, found) = [s EXCEPT !.says = "direct", !.step = "agent_completed"]
    BY <1>5 DEF AddBlock
  <2>2. LET out == AddBlock(q, s, name, found) IN DOMAIN out = AnswerFields /\ out.says = "direct" /\ out.laws = s.laws
    BY <2>1 DEF AnswerHolds, AnswerFields
  <2> QED BY <1>5, <2>2 DEF AnswerHolds
<1>6. CASE name \in {"validate_after_fix", "none"}
  BY <1>6 DEF AddBlock
<1> QED BY <1>1, <1>2, <1>3, <1>4, <1>5, <1>6 DEF ToolNames

LEMMA AnsweredHolds ==
    ASSUME NEW q, NEW found, NEW names \in Seq(ToolNames), DOMAIN found \subseteq Nat, DOMAIN q.report.refs \subseteq Nat
    PROVE  AnswerHolds(q, "direct" \in ToSet(names), found, AnsweredBy(q, names, found))
<1> DEFINE n == Len(names)
           direct == "direct" \in ToSet(names)
<1>1. n \in Nat /\ DOMAIN names = 1..n /\ \A k \in 1..n : names[k] \in ToolNames
  OBVIOUS
<1>0. PICK g : AnswerFold(q, names, found, g)
  BY AnswerSteps
<1>2. /\ g[0] = Blank /\ AnsweredBy(q, names, found) = g[n]
      /\ \A k \in 0..(n - 1) : g[k + 1] = AddBlock(q, g[k], names[k + 1], found)
  BY <1>0 DEF AnswerFold
<1> HIDE DEF n
<1>3. \A k \in 1..n : names[k] = "direct" => direct
  BY <1>1 DEF ToSet
<1> HIDE DEF direct
<1> DEFINE Holds == {k \in 0..n : AnswerHolds(q, direct, found, g[k])}
<1>4. 0 \in Holds
  <2>1. /\ DOMAIN Blank = AnswerFields /\ Blank.says = "default" /\ Blank.laws = <<>>
    BY DEF Blank, AnswerFields
  <2>2. AnswerHolds(q, direct, found, Blank)
    BY <2>1 DEF AnswerHolds
  <2> QED BY <1>1, <1>2, <2>2
<1>5. ASSUME NEW k \in 0..(n - 1), k \in Holds PROVE k + 1 \in Holds
  <2>1. k + 1 \in 1..n /\ k + 1 \in 0..n /\ names[k + 1] \in ToolNames /\ AnswerHolds(q, direct, found, g[k])
    BY <1>1, <1>5
  <2>2. g[k + 1] = AddBlock(q, g[k], names[k + 1], found)
    BY <1>2
  <2>3. names[k + 1] = "direct" => direct
    BY <1>3, <2>1
  <2>4. AnswerHolds(q, direct, found, g[k + 1])
    BY <2>1, <2>2, <2>3, BlockAdds
  <2> QED BY <2>1, <2>4
<1>6. n \in Holds
  <2> HIDE DEF Holds
  <2>1. \A k \in 0..n : k \in Holds
    BY <1>1, <1>4, <1>5, UpTo
  <2> QED BY <1>1, <2>1
<1> QED BY <1>2, <1>6 DEF direct

LEMMA FormatKeeps ==
    ASSUME NEW q, NEW direct, NEW found, NEW names, AnswerHolds(q, direct, found, AnsweredBy(q, names, found))
    PROVE  AnswerHolds(q, direct, found, FormatState(q, names, found))
<1> DEFINE s == AnsweredBy(q, names, found)
           violations == IF s.violations = <<>> THEN ViolationsFrom(s.pending) ELSE s.violations
           out == FormatState(q, names, found)
<1>1. out = [s EXCEPT !.violations = violations]
  BY DEF FormatState, AnsweredBy
<1>2. AnswerHolds(q, direct, found, s)
  OBVIOUS
<1> HIDE DEF s, violations, out
<1>3. /\ DOMAIN out = AnswerFields /\ out.says = s.says /\ out.laws = s.laws /\ out.pending = s.pending
  BY <1>1, <1>2 DEF AnswerHolds, AnswerFields
<1> QED BY <1>2, <1>3 DEF AnswerHolds, out

LEMMA HandledNames ==
    ASSUME NEW q, NEW calls, NEW intent, q.domain \in DOMAIN Offered, IsList(calls)
    PROVE  LET names == HandleToolCalls(q, calls, intent) IN
           /\ names \in Seq(ToolNames) /\ DOMAIN names = DOMAIN calls
           /\ "direct" \in ToSet(names) => \E i \in DOMAIN calls : calls[i].name = "direct"
<1> DEFINE Runs(call) == RunsAs(q, call, intent) \in {"direct"} \union Offered[q.domain]
           name(i) == IF Runs(calls[i]) THEN RunsAs(q, calls[i], intent) ELSE "none"
           names == HandleToolCalls(q, calls, intent)
<1>1. names = [i \in DOMAIN calls |-> name(i)]
  BY DEF HandleToolCalls
<1>2. Offered[q.domain] \subseteq ToolNames
  BY DEF Offered, ToolNames
<1>3. \A i \in DOMAIN calls : /\ name(i) \in ToolNames
                              /\ name(i) = "direct" => calls[i].name = "direct"
  BY <1>2 DEF RunsAs, ToolNames
<1> HIDE DEF Runs, name, names
<1>4. DOMAIN calls = 1..Len(calls) /\ Len(calls) \in Nat
  BY DEF IsList
<1>5. names \in Seq(ToolNames) /\ DOMAIN names = DOMAIN calls
  BY <1>1, <1>3, <1>4
<1>6. "direct" \in ToSet(names) => \E i \in DOMAIN calls : calls[i].name = "direct"
  BY <1>1, <1>3 DEF ToSet
<1> QED BY <1>5, <1>6 DEF names

------------------------------------------------------------------------------
(* The tools that are called, and what is retrieved for them.               *)

Indirect(calls) == IsList(calls) /\ \A i \in DOMAIN calls : calls[i].name # "direct"

LEMMA OneIsList == ASSUME NEW x PROVE IsList(<<x>>) /\ DOMAIN <<x>> = {1}
<1>1. DOMAIN <<x>> = 1..1 /\ <<x>>[1] = x /\ 1..1 = {1}
  OBVIOUS
<1>2. x \in ToSet(<<x>>)
  BY <1>1 DEF ToSet
<1> DEFINE S == ToSet(<<x>>)
<1> HIDE DEF S
<1>3. <<x>> \in Seq(S)
  BY <1>2 DEF S
<1> QED BY <1>1, <1>3 DEF IsList, S

LEMMA OneIsIndirect == ASSUME NEW x, x.name # "direct" PROVE Indirect(<<x>>)
<1>1. <<x>>[1] = x
  OBVIOUS
<1> QED BY <1>1, OneIsList DEF Indirect

LEMMA QueryIsIndirect == Indirect(Query)
<1>1. Tool("call_query_agent").name # "direct"
  BY DEF Tool
<1> QED BY <1>1, OneIsIndirect DEF Query

LEMMA FallbackIsIndirect == ASSUME NEW q, NEW d, NEW intent PROVE Indirect(Fallback(q, d, intent))
<1> DEFINE review(target) == [name |-> "call_review_agent", target |-> target]
           target == IF q.domain # "arch" /\ Cardinality(q.selected) = 1 THEN q.selected ELSE {}
<1>1. \/ Fallback(q, d, intent) = <<review(target)>>
      \/ Fallback(q, d, intent) = <<Tool("call_action_agent")>>
      \/ Fallback(q, d, intent) = Query
  BY DEF Fallback
<1>2. review(target).name # "direct" /\ Tool("call_action_agent").name # "direct"
  BY DEF Tool
<1> HIDE DEF review, target
<1> QED BY <1>1, <1>2, OneIsIndirect, QueryIsIndirect

LookedUp(q, intent) ==
    IF q.domain = "pipe" THEN ~IsPipeRagQuestion(q) ELSE intent # "answer" \/ Casual(q) \/ Greets(q)

LEMMA ChoiceIs ==
    ASSUME NEW q, NEW d, NEW intent, IsTurn(q)
    PROVE  \/ Indirect(ToolCalls(q, d, intent))
           \/ ToolCalls(q, d, intent) = Direct /\ LookedUp(q, intent)
<1>1. q.domain \in {"pipe", "elec", "arch", "fire"} /\ q.reply \in {"text", "tools", "nothing"}
  BY DEF IsTurn, Offered
<1>2. CASE q.domain = "pipe" /\ q.hint = "review" /\ HasDrawing(d)
  <2>1. ToolCalls(q, d, intent) = <<Tool("call_review_agent")>> /\ Tool("call_review_agent").name # "direct"
    BY <1>2 DEF ToolCalls, Tool
  <2> QED BY <2>1, OneIsIndirect
<1>3. CASE q.domain = "arch" /\ intent = "answer" /\ Casual(q) /\ q.chats
  BY <1>3 DEF ToolCalls, LookedUp
<1>4. CASE ~(q.domain = "pipe" /\ q.hint = "review" /\ HasDrawing(d)) /\ ~(q.domain = "arch" /\ intent = "answer" /\ Casual(q) /\ q.chats)
  <2>1. CASE q.reply = "text"
    <3>1. ToolCalls(q, d, intent) = OnText(q, d, intent)
      BY <1>4, <2>1 DEF ToolCalls
    <3>2. \/ OnText(q, d, intent) = Query \/ OnText(q, d, intent) = Fallback(q, d, intent)
          \/ OnText(q, d, intent) = Direct /\ LookedUp(q, intent)
      BY <1>1 DEF OnText, LookedUp
    <3> QED BY <3>1, <3>2, QueryIsIndirect, FallbackIsIndirect
  <2>2. CASE q.reply = "tools"
    <3>1. ToolCalls(q, d, intent) = q.calls
      BY <1>4, <2>2 DEF ToolCalls
    <3>2. Indirect(q.calls)
      BY DEF IsTurn, Indirect, ToSet
    <3> QED BY <3>1, <3>2
  <2>3. CASE q.reply = "nothing"
    <3>1. ToolCalls(q, d, intent) = OnNothing(q, d, intent)
      BY <1>4, <2>3 DEF ToolCalls
    <3>2. \/ OnNothing(q, d, intent) = Fallback(q, d, intent)
          \/ OnNothing(q, d, intent) = Direct /\ LookedUp(q, intent)
      BY DEF OnNothing, LookedUp
    <3> QED BY <3>1, <3>2, FallbackIsIndirect
  <2> QED BY <1>1, <2>1, <2>2, <2>3
<1> QED BY <1>2, <1>3, <1>4

LEMMA LengthOfLaws ==
    ASSUME NEW R, NEW found \in Seq(R)
    PROVE  /\ DOMAIN LawReferences(found) = DOMAIN found /\ Len(LawReferences(found)) = Len(found)
           /\ \A i \in DOMAIN found : LawReferences(found)[i] = LawReference(found[i])
<1>1. DOMAIN found = 1..Len(found) /\ Len(found) \in Nat
  OBVIOUS
<1>2. LawReferences(found) = [i \in 1..Len(found) |-> LawReference(found[i])]
  BY <1>1 DEF LawReferences
<1> DEFINE n == Len(found)
<1> HIDE DEF n
<1>3. \A f : f = [i \in 1..n |-> LawReference(found[i])] /\ n \in Nat =>
            DOMAIN f = 1..n /\ Len(f) = n /\ \A i \in 1..n : f[i] = LawReference(found[i])
  <2> SUFFICES ASSUME n \in Nat
               PROVE  /\ DOMAIN [i \in 1..n |-> LawReference(found[i])] = 1..n
                      /\ Len([i \in 1..n |-> LawReference(found[i])]) = n
                      /\ \A i \in 1..n : [j \in 1..n |-> LawReference(found[j])][i] = LawReference(found[i])
    OBVIOUS
  <2> QED OBVIOUS
<1> QED BY <1>1, <1>2, <1>3 DEF n

LEMMA LawHasId == ASSUME NEW c, c.id # <<>> PROVE LawReference(c).id = c.id
<1> DEFINE id == CASE c.id # <<>> -> c.id
                   [] c.id = <<>> /\ c.section # {} -> c.number
                   [] OTHER -> IF c.at = 0 THEN <<>> ELSE <<c.at>>
           name == IF c.section # {} THEN c.section ELSE c.title
<1>1. LawReference(c) = [id |-> id, name |-> name]
  BY DEF LawReference
<1>2. id = c.id
  OBVIOUS
<1> HIDE DEF id, name
<1>3. LawReference(c).id = id
  BY <1>1
<1> QED BY <1>2, <1>3

LEMMA RefIsOfChunk ==
    ASSUME NEW R, NEW found \in Seq(R), NEW ref \in RefsOf(LawReferences(found)), ref # <<>>,
           \A c \in ToSet(found) : c.id # <<>>
    PROVE  \E c \in ToSet(found) : c.id = ref
<1>1. PICK i \in DOMAIN found : ref = LawReference(found[i]).id
  BY LengthOfLaws DEF RefsOf
<1>2. found[i] \in ToSet(found)
  BY DEF ToSet
<1> QED BY <1>1, <1>2, LawHasId

LEMMA JoinedSet ==
    ASSUME NEW S, NEW a \in Seq(S), NEW b \in Seq(S)
    PROVE  a \o b \in Seq(S) /\ ToSet(a \o b) = ToSet(a) \union ToSet(b)
<1>1. /\ a \o b \in Seq(S) /\ Len(a \o b) = Len(a) + Len(b) /\ Len(a) \in Nat /\ Len(b) \in Nat
      /\ DOMAIN (a \o b) = 1..(Len(a) + Len(b)) /\ DOMAIN a = 1..Len(a) /\ DOMAIN b = 1..Len(b)
      /\ \A k \in 1..(Len(a) + Len(b)) : (a \o b)[k] = IF k <= Len(a) THEN a[k] ELSE b[k - Len(a)]
  BY ConcatProperties
<1> DEFINE c == a \o b
<1> HIDE DEF c
<1>2. \A k \in DOMAIN c : c[k] \in ToSet(a) \union ToSet(b)
  <2> SUFFICES ASSUME NEW k \in 1..(Len(a) + Len(b)) PROVE c[k] \in ToSet(a) \union ToSet(b)
    BY <1>1 DEF c
  <2>1. CASE k <= Len(a)
    <3>1. k \in 1..Len(a) /\ c[k] = a[k]
      BY <1>1, <2>1 DEF c
    <3> QED BY <1>1, <3>1 DEF ToSet
  <2>2. CASE ~(k <= Len(a))
    <3>1. k - Len(a) \in 1..Len(b) /\ c[k] = b[k - Len(a)]
      BY <1>1, <2>2 DEF c
    <3> QED BY <1>1, <3>1 DEF ToSet
  <2> QED BY <2>1, <2>2
<1>3. \A k \in DOMAIN a : a[k] \in ToSet(c)
  <2> SUFFICES ASSUME NEW k \in 1..Len(a) PROVE a[k] \in ToSet(c)
    BY <1>1
  <2>1. k \in DOMAIN c /\ c[k] = a[k]
    BY <1>1 DEF c
  <2> QED BY <2>1 DEF ToSet
<1>4. \A k \in DOMAIN b : b[k] \in ToSet(c)
  <2> SUFFICES ASSUME NEW k \in 1..Len(b) PROVE b[k] \in ToSet(c)
    BY <1>1
  <2>1. Len(a) + k \in DOMAIN c /\ c[Len(a) + k] = b[k]
    BY <1>1 DEF c
  <2> QED BY <2>1 DEF ToSet
<1>5. ToSet(c) = ToSet(a) \union ToSet(b)
  BY <1>2, <1>3, <1>4 DEF ToSet
<1> QED BY <1>1, <1>5 DEF c

\* An answer cites the tables beside its text, its fixes refer to chunks that were
\* retrieved, and a question of rules is looked up.
LEMMA AnswerIsGrounded ==
    ASSUME NEW q, NEW d, NEW g, NEW pending, NEW out, IsTurn(q), ~q.broken,
           IsLibrary(Script.library, Script.requests), q \in ToSet(Script.requests),
           out = ReviewNode(q, pending, ToolCalls(q, d, g.intent), g.intent, Script.library, MaxAdded)
    PROVE  TablesAreCited(q, ToolCalls(q, d, g.intent), out) /\ RefsAreRetrieved(q, out) /\ IsLookedUp(q, g, out)
<1> DEFINE calls == ToolCalls(q, d, g.intent)
           names == HandleToolCalls(q, calls, g.intent)
           library == Script.library
           found == FoundChunks(q, calls, library, MaxAdded)
           direct == "direct" \in ToSet(names)
           C == ToSet(q.found) \union ToSet(library)
<1>1. out = FormatState(q, names, found)
  BY DEF ReviewNode
<1>2. q.domain \in DOMAIN Offered /\ q.found \in Seq(ToSet(q.found)) /\ q.report.refs \in Seq(ToSet(q.report.refs))
  BY DEF IsTurn, IsList
<1>3. /\ library \in Seq(ToSet(library)) /\ IsList(library) /\ \A c \in ToSet(library) : c.id # <<>>
      /\ \A c \in ToSet(library), k \in ToSet(q.found \o library) : IsAt(k, c) => k.id = c.id
  BY DEF IsLibrary, IsList
<1>4. Indirect(calls) \/ (calls = Direct /\ LookedUp(q, g.intent))
  BY ChoiceIs
<1>5. IsList(Direct)
  BY OneIsList DEF Direct
<1> HIDE DEF calls
<1>6. IsList(calls)
  BY <1>4, <1>5 DEF Indirect
<1>7. names \in Seq(ToolNames) /\ (direct => \E i \in DOMAIN calls : calls[i].name = "direct")
  BY <1>2, <1>6, HandledNames
<1> HIDE DEF names
<1>8. /\ found \in Seq(C)
      /\ (/\ q.domain # "pipe" /\ \E i \in DOMAIN calls : calls[i].name = "call_query_agent"
          /\ Len(found) < Len(q.found) + MaxAdded) =>
            \A ref \in ToSet(q.found), c \in ToSet(library) :
                AsksForTables(ref, q.failing) /\ TableBeside(c, ref) => \E k \in ToSet(found) : k.id = c.id
  <2> HIDE DEF library
  <2> QED BY <1>3, BoundsAssumption, ChunksOfQuery
<1> HIDE DEF found, library, C
<1>9. AnswerHolds(q, direct, found, out)
  <2>1. DOMAIN found \subseteq Nat /\ DOMAIN q.report.refs \subseteq Nat
    <3> DEFINE refs == q.report.refs
               R == ToSet(refs)
    <3>1. refs \in Seq(R)
      BY <1>2
    <3> HIDE DEF refs, R
    <3>2. DOMAIN refs \subseteq Nat /\ DOMAIN found \subseteq Nat
      BY <1>8, <3>1
    <3> QED BY <3>2 DEF refs
  <2>2. AnswerHolds(q, direct, found, AnsweredBy(q, names, found))
    BY <1>7, <2>1, AnsweredHolds
  <2> QED BY <1>1, <2>2, FormatKeeps
<1> HIDE DEF direct
<1>10. TablesAreCited(q, calls, out)
  <2> SUFFICES ASSUME out.says = "query", q.domain # "pipe", Len(out.laws) < Len(q.found) + MaxAdded,
                      \E i \in DOMAIN calls : calls[i].name = "call_query_agent",
                      NEW c \in ToSet(q.found), NEW table \in ToSet(library),
                      ~c.table, c.refers, c.doc \notin q.failing, TableBeside(table, c)
               PROVE  \E law \in ToSet(out.laws) : law.id = table.id
    BY DEF TablesAreCited, library
  <2>1. out.laws = LawReferences(found)
    BY <1>9 DEF AnswerHolds
  <2>2. /\ DOMAIN out.laws = DOMAIN found /\ Len(out.laws) = Len(found)
        /\ \A i \in DOMAIN found : out.laws[i] = LawReference(found[i])
    BY <1>8, <2>1, LengthOfLaws
  <2>3. PICK k \in ToSet(found) : k.id = table.id
    BY <1>8, <2>2 DEF AsksForTables
  <2>4. PICK i \in DOMAIN found : found[i] = k
    BY DEF ToSet
  <2>5. LawReference(k).id = table.id
    BY <1>3, <2>3, LawHasId
  <2> QED BY <2>2, <2>4, <2>5 DEF ToSet
<1>11. RefsAreRetrieved(q, out)
  <2> DEFINE chunks == ToSet(q.report.refs \o q.found \o library)
  <2>1. chunks = ToSet(q.report.refs) \union ToSet(q.found) \union ToSet(library)
    <3> DEFINE A == ToSet(q.report.refs)
               B == ToSet(q.found)
               D == ToSet(library)
               S == A \union B \union D
               refs == q.report.refs
               own == q.found
    <3>1. refs \in Seq(A) /\ own \in Seq(B) /\ library \in Seq(D)
      BY <1>2, <1>3
    <3>2. chunks = ToSet((refs \o own) \o library) /\ A = ToSet(refs) /\ B = ToSet(own) /\ D = ToSet(library)
      OBVIOUS
    <3> HIDE DEF chunks, A, B, D, refs, own
    <3>3. refs \in Seq(S) /\ own \in Seq(S) /\ library \in Seq(S)
      BY <3>1
    <3> HIDE DEF S
    <3>4. refs \o own \in Seq(S) /\ ToSet(refs \o own) = A \union B
      BY <3>2, <3>3, JoinedSet
    <3> DEFINE both == refs \o own
    <3>a. both \in Seq(S) /\ ToSet(both) = A \union B
      BY <3>4
    <3> HIDE DEF both
    <3>b. ToSet(both \o library) = ToSet(both) \union ToSet(library)
      BY <3>3, <3>a, JoinedSet
    <3>5. ToSet((refs \o own) \o library) = (A \union B) \union D
      BY <3>2, <3>a, <3>b DEF both
    <3> QED BY <3>2, <3>5 DEF A, B, D
  <2> SUFFICES ASSUME out.says = "review", \A c \in chunks : c.id # <<>>, NEW p \in ToSet(out.pending), p.ref # <<>>
               PROVE  \E c \in chunks : c.id = p.ref
    BY DEF RefsAreRetrieved, library
  <2> HIDE DEF chunks
  <2>2. p.ref \in RefsOf(out.laws)
    BY <1>9 DEF AnswerHolds, ToSet
  <2>3. CASE out.laws = <<>>
    <3>1. DOMAIN <<>> = {}
      OBVIOUS
    <3> QED BY <2>2, <2>3, <3>1 DEF RefsOf
  <2>4. CASE out.laws = LawReferences(found)
    <3>1. \A c \in ToSet(found) : c \in chunks
      BY <1>8, <2>1 DEF ToSet, C
    <3> QED BY <1>8, <2>2, <2>4, <3>1, RefIsOfChunk
  <2>5. CASE out.laws = LawReferences(q.report.refs)
    <3>1. \A c \in ToSet(q.report.refs) : c \in chunks
      BY <2>1
    <3> DEFINE refs == q.report.refs
    <3>2. refs \in Seq(ToSet(refs)) /\ p.ref \in RefsOf(LawReferences(refs)) /\ \A c \in ToSet(refs) : c \in chunks
      BY <1>2, <2>2, <2>5, <3>1
    <3> HIDE DEF refs
    <3> QED BY <3>2, RefIsOfChunk
  <2> QED BY <1>9, <2>3, <2>4, <2>5 DEF AnswerHolds
<1>12. IsLookedUp(q, g, out)
  <2> SUFFICES ASSUME out.says = "direct" PROVE LookedUp(q, g.intent)
    BY DEF IsLookedUp, LookedUp
  <2>1. \E i \in DOMAIN calls : calls[i].name = "direct"
    BY <1>7, <1>9 DEF AnswerHolds
  <2> QED BY <1>4, <2>1 DEF Indirect
<1> QED BY <1>10, <1>11, <1>12 DEF calls

------------------------------------------------------------------------------
(* The ground of the answers: what was saved, drawn and named is what a turn *)
(* has under it, until its answer is given.                                 *)

RuleFields == {"db", "cached", "failed", "saving"}
RulesHold(rules) ==
    DOMAIN rules = RuleFields /\ (rules.cached # <<>> /\ ~rules.failed /\ ~rules.saving => rules.cached[1] = rules.db)
IsNamed(script, key, names) ==
    \E e \in ToSet(script.drawings), r \in ToSet(script.requests) :
        Fingerprint(e) = key /\ names = PipeNames(e, r.namer)
DrawingOf(script, i) == IF i = 0 THEN Empty ELSE script.drawings[i]
GroundFits(script, way, q, d, g) ==
    /\ g.layout = Layout(q, d, OrgRoles(way, g.under), g.intent)
    /\ RulesHold(g.under) /\ (Fetches(way, q, d, g.intent) => g.under.cached # <<>>)
    /\ q.domain = "pipe" /\ Reviewing(g.intent) /\ HasDrawing(d) => IsNamed(script, Fingerprint(d), g.names)
IsAnswerOf(script, q, d, t) ==
    \E pending : t.out = ReviewNode(q, pending, ToolCalls(q, d, t.ground.intent), t.ground.intent, script.library, MaxAdded)
WayGround(script, way, t) ==
    /\ t.at \in {"node", "tools", "answered"} => t.drawing \in 0..Len(script.drawings)
    /\ t.at \in {"tools", "answered"} =>
            GroundFits(script, way, script.requests[t.turn], DrawingOf(script, t.drawing), t.ground)
    /\ t.at = "answered" => IsAnswerOf(script, script.requests[t.turn], DrawingOf(script, t.drawing), t)
CacheHolds(script, cache) == \A c \in cache : IsNamed(script, c.key, c.names)

\* The roles in the cache are those that were saved unless a save is under way or has
\* failed, the names in the cache are those of their drawing, and each turn that has
\* read something has read this.
GroundInv ==
    /\ dialog.drawing \in 1..Len(dialog.script.drawings)
    /\ RulesHold(dialog.rules) /\ (dialog.rules.saving => dialog.saved)
    /\ CacheHolds(dialog.script, dialog.cache)
    /\ \A way \in Ways : WayGround(dialog.script, way, dialog[way])

\* What a step does to the state that the answers rest on.
GroundStep(way, t2, drawing2, rules2, saved2, cache2) ==
    /\ dialog'.script = dialog.script
    /\ dialog'[way] = t2 /\ \A o \in Ways \ {way} : dialog'[o] = dialog[o]
    /\ dialog'.drawing = drawing2 /\ dialog'.rules = rules2 /\ dialog'.saved = saved2 /\ dialog'.cache = cache2

LEMMA GroundStays ==
    ASSUME GroundInv, NEW way \in Ways, NEW t2, NEW drawing2, NEW rules2, NEW saved2, NEW cache2,
           GroundStep(way, t2, drawing2, rules2, saved2, cache2),
           drawing2 \in 1..Len(dialog.script.drawings), RulesHold(rules2), rules2.saving => saved2,
           CacheHolds(dialog.script, cache2), WayGround(dialog.script, way, t2)
    PROVE  GroundInv'
<1>1. Ways' = Ways
  BY DEF Ways
<1>2. \A o \in Ways : WayGround(dialog.script, o, dialog'[o])
  <2> SUFFICES ASSUME NEW o \in Ways PROVE WayGround(dialog.script, o, dialog'[o])
    OBVIOUS
  <2>1. CASE o = way
    BY <2>1 DEF GroundStep
  <2>2. CASE o # way
    BY <2>2 DEF GroundStep, GroundInv
  <2> QED BY <2>1, <2>2
<1> QED BY <1>1, <1>2 DEF GroundInv, GroundStep

\* A turn that has not come to a drawing, or has committed something.
LEMMA Grounds ==
    ASSUME GroundInv, NEW way \in Ways, NEW t2, t2.at \in {"rest", "load", "store"},
           GroundStep(way, t2, dialog.drawing, dialog.rules, dialog.saved, dialog.cache)
    PROVE  GroundInv'
<1>1. WayGround(dialog.script, way, t2)
  BY DEF WayGround
<1> QED BY <1>1, GroundStays DEF GroundInv

LEMMA DrawingsFit ==
    ASSUME NEW i \in DOMAIN Scripts
    PROVE  /\ Len(Scripts[i].drawings) \in Nat /\ Len(Scripts[i].drawings) # 0
           /\ \A k \in 1..Len(Scripts[i].drawings) :
                Scripts[i].drawings[k] \in ToSet(Scripts[i].drawings) /\ IsDrawing(Scripts[i].drawings[k])
<1> DEFINE drawings == Scripts[i].drawings
           S == ToSet(drawings)
<1>1. drawings \in Seq(S) /\ drawings # <<>> /\ \A d \in S : IsDrawing(d)
  BY ScriptsAssumption DEF IsScript, IsList
<1>2. \A k \in 1..Len(drawings) : drawings[k] \in S
  BY <1>1
<1>3. Len(drawings) \in Nat /\ Len(drawings) # 0
  <2> HIDE DEF drawings, S
  <2> QED BY <1>1
<1> QED BY <1>1, <1>2, <1>3

LEMMA SavingRules ==
    ASSUME DialogShape, GroundInv, SaveRules
    PROVE  GroundInv'
<1> DEFINE batch == dialog.script.batch
           known == \A i \in DOMAIN batch : batch[i].known
           db2 == IF known THEN Upserted(dialog.rules.db, batch) ELSE dialog.rules.db
           rules2 == [dialog.rules EXCEPT !.db = db2, !.saving = known]
<1>1. RulesHold(dialog.rules) /\ (dialog.rules.saving => dialog.saved) /\ ~dialog.saved
  BY DEF GroundInv, SaveRules
<1>2. DOMAIN dialog = Fields
  BY DEF DialogShape
<1>3. dialog' = [dialog EXCEPT !.saved = TRUE, !.rules.db = db2, !.rules.saving = known]
  BY DEF SaveRules, Script
<1>a. ~known => db2 = dialog.rules.db
  OBVIOUS
<1> HIDE DEF known, db2
<1>4. dialog' = [dialog EXCEPT !.saved = TRUE, !.rules = rules2]
  BY <1>1, <1>2, <1>3 DEF RulesHold, RuleFields, Fields
<1>5. /\ DOMAIN rules2 = RuleFields /\ rules2.db = db2 /\ rules2.saving = known
      /\ rules2.cached = dialog.rules.cached /\ rules2.failed = dialog.rules.failed
  BY <1>1 DEF RulesHold, RuleFields
<1> HIDE DEF rules2
<1>6. RulesHold(rules2)
  BY <1>1, <1>5, <1>a DEF RulesHold
<1>7. GroundStep("chat", dialog.chat, dialog.drawing, rules2, TRUE, dialog.cache)
  BY <1>2, <1>4 DEF GroundStep, Fields, Ways
<1> QED BY <1>6, <1>7, GroundStays DEF GroundInv, Ways

LEMMA InvalidatingKeeps ==
    ASSUME DialogShape, GroundInv, InvalidateMappingCache
    PROVE  GroundInv'
<1> DEFINE rules2 == Invalidated(dialog.rules)
<1>1. RulesHold(dialog.rules)
  BY DEF GroundInv
<1>2. /\ DOMAIN rules2 = RuleFields /\ rules2.cached = <<>> /\ ~rules2.saving
  BY <1>1 DEF RulesHold, RuleFields, Invalidated
<1>3. dialog' = [dialog EXCEPT !.rules = rules2]
  BY DEF InvalidateMappingCache
<1> HIDE DEF rules2
<1>4. RulesHold(rules2)
  BY <1>2 DEF RulesHold
<1>5. GroundStep("chat", dialog.chat, dialog.drawing, rules2, dialog.saved, dialog.cache)
  BY <1>3 DEF GroundStep, Fields, Ways, DialogShape
<1> QED BY <1>2, <1>4, <1>5, GroundStays DEF GroundInv, Ways

LEMMA EditKeeps ==
    ASSUME DialogShape, GroundInv, Edit
    PROVE  GroundInv'
<1> DEFINE drawing2 == dialog.drawing + 1
<1>1. PICK i \in DOMAIN Scripts : dialog.script = Scripts[i]
  BY DEF DialogShape
<1>2. Len(dialog.script.drawings) \in Nat
  BY <1>1, DrawingsFit
<1>3. drawing2 \in 1..Len(dialog.script.drawings)
  BY <1>2 DEF Edit, GroundInv, Script
<1>4. dialog' = [dialog EXCEPT !.drawing = drawing2]
  BY DEF Edit
<1> HIDE DEF drawing2
<1>5. GroundStep("chat", dialog.chat, drawing2, dialog.rules, dialog.saved, dialog.cache)
  BY <1>4 DEF GroundStep, Fields, Ways, DialogShape
<1> QED BY <1>3, <1>5, GroundStays DEF GroundInv, Ways

LEMMA StartGrounds ==
    ASSUME DialogShape, DialogTurns, GroundInv, StartTurn
    PROVE  GroundInv'
<1> DEFINE way == dialog.script.requests[dialog.next].by
           t2 == [at |-> "load", turn |-> dialog.next]
<1>1. dialog' = [dialog EXCEPT ![way] = t2, !.next = @ + 1] /\ dialog.next <= Len(dialog.script.requests)
  BY DEF StartTurn, Request, Script
<1>2. PICK i \in DOMAIN Scripts : dialog.script = Scripts[i]
  BY DEF DialogShape
<1>a. Len(dialog.script.requests) \in Nat
  BY <1>2, RequestsFit
<1>b. dialog.next \in Nat \ {0}
  BY DEF DialogShape
<1>c. dialog.next <= Len(dialog.script.requests)
  BY <1>1
<1>3. dialog.next \in 1..Len(dialog.script.requests)
  <2> HIDE DEF way, t2
  <2> QED BY <1>a, <1>b, <1>c
<1>4. way \in Ways
  BY <1>2, <1>3, RequestsFit DEF Ways
<1>5. t2.at = "load"
  OBVIOUS
<1> HIDE DEF way, t2
<1>6. GroundStep(way, t2, dialog.drawing, dialog.rules, dialog.saved, dialog.cache)
  BY <1>1, <1>4 DEF GroundStep, Fields, Ways, DialogShape
<1> QED BY <1>4, <1>5, <1>6, Grounds

LEMMA LoadsGround ==
    ASSUME DialogShape, GroundInv, NEW way \in Ways, NEW memoryFails \in BOOLEAN, NEW drawingFails \in BOOLEAN,
           GroundStep(way, Loaded(way, memoryFails, drawingFails), dialog.drawing, dialog.rules, dialog.saved, dialog.cache)
    PROVE  GroundInv'
<1> DEFINE t2 == Loaded(way, memoryFails, drawingFails)
<1>1. PICK i \in DOMAIN Scripts : dialog.script = Scripts[i]
  BY DEF DialogShape
<1>2. Len(dialog.script.drawings) \in Nat
  BY <1>1, DrawingsFit
<1>3. t2.at = "node" /\ (t2.drawing = 0 \/ t2.drawing = dialog.drawing)
  BY DEF Loaded
<1>a. GroundStep(way, t2, dialog.drawing, dialog.rules, dialog.saved, dialog.cache)
  OBVIOUS
<1> HIDE DEF t2
<1>4. t2.drawing \in 0..Len(dialog.script.drawings)
  BY <1>2, <1>3 DEF GroundInv
<1>5. WayGround(dialog.script, way, t2)
  BY <1>3, <1>4 DEF WayGround
<1> QED BY <1>a, <1>5, GroundStays DEF GroundInv

LEMMA LoadingGround ==
    ASSUME DialogShape, GroundInv, LoadChat \/ LoadExecute
    PROVE  GroundInv'
<1>1. CASE LoadChat
  <2>1. PICK memoryFails \in BOOLEAN, drawingFails \in BOOLEAN :
          \E lapses : dialog' = [dialog EXCEPT !.chat = Loaded("chat", memoryFails, drawingFails), !.lapses = lapses]
    BY <1>1 DEF LoadChat
  <2> DEFINE t2 == Loaded("chat", memoryFails, drawingFails)
  <2>2. PICK lapses : dialog' = [dialog EXCEPT !.chat = t2, !.lapses = lapses]
    BY <2>1
  <2> HIDE DEF t2
  <2>3. GroundStep("chat", t2, dialog.drawing, dialog.rules, dialog.saved, dialog.cache)
    BY <2>2 DEF GroundStep, Fields, Ways, DialogShape
  <2> QED BY <2>3, LoadsGround DEF t2, Ways
<1>2. CASE LoadExecute
  <2> DEFINE t2 == Loaded("execute", FALSE, FALSE)
             told2 == Append(dialog.transcript, <<dialog.execute.turn, "user">>)
  <2>1. dialog' = [dialog EXCEPT !.execute = t2, !.transcript = told2]
    BY <1>2 DEF LoadExecute
  <2> HIDE DEF t2, told2
  <2>3. GroundStep("execute", t2, dialog.drawing, dialog.rules, dialog.saved, dialog.cache)
    BY <2>1 DEF GroundStep, Fields, Ways, DialogShape
  <2> QED BY <2>3, LoadsGround DEF t2, Ways
<1> QED BY <1>1, <1>2

LEMMA OverGround ==
    ASSUME DialogShape, GroundInv, StopChat \/ \E way \in Ways : CompressFails(way)
    PROVE  GroundInv'
<1>1. CASE StopChat
  <2> DEFINE lost == dialog.spoiled \/ Torn(dialog.chat)
  <2>1. dialog' = [dialog EXCEPT !.chat = Rest, !.spoiled = lost]
    BY <1>1 DEF StopChat, GiveUp
  <2> HIDE DEF lost
  <2>2. GroundStep("chat", Rest, dialog.drawing, dialog.rules, dialog.saved, dialog.cache)
    BY <2>1 DEF GroundStep, Fields, Ways, DialogShape
  <2> QED BY <2>2, RestIsRest, Grounds DEF Ways
<1>2. ASSUME NEW way \in Ways, CompressFails(way) PROVE GroundInv'
  <2>1. dialog' = [dialog EXCEPT ![way] = Rest, !.lapses = @ + 1]
    BY <1>2 DEF CompressFails
  <2>2. GroundStep(way, Rest, dialog.drawing, dialog.rules, dialog.saved, dialog.cache)
    BY <2>1 DEF GroundStep, Fields, Ways, DialogShape
  <2> QED BY <2>2, RestIsRest, Grounds
<1> QED BY <1>1, <1>2

------------------------------------------------------------------------------
(* A turn that loads, asks its model, answers and commits.                  *)

\* The turn of a way is a request of the script, and its drawing one of those of the
\* script, or none.
LEMMA TurnIsOf ==
    ASSUME DialogShape, DialogTurns, GroundInv, NEW way \in Ways, dialog[way].at \in {"node", "tools", "answered"}
    PROVE  LET t == dialog[way]
               q == dialog.script.requests[t.turn]
               d == DrawingOf(dialog.script, t.drawing)
           IN  /\ Request(t.turn) = q /\ DrawingAt(t.drawing) = d
               /\ q \in ToSet(dialog.script.requests) /\ IsTurn(q)
               /\ HasDrawing(d) => IsDrawing(d) /\ d \in ToSet(dialog.script.drawings)
               /\ IsLibrary(dialog.script.library, dialog.script.requests)
<1> DEFINE t == dialog[way]
           q == dialog.script.requests[t.turn]
           d == DrawingOf(dialog.script, t.drawing)
<1>1. PICK i \in DOMAIN Scripts : dialog.script = Scripts[i]
  BY DEF DialogShape
<1>2. WayFits(t, dialog.kept, dialog.next) /\ t.at # "rest"
  BY DEF DialogTurns
<1>3. t.turn \in Nat \ {0} /\ t.turn < dialog.next
  BY <1>2 DEF WayFits, TurnFits
<1>4. /\ dialog.script.requests \in Seq(ToSet(dialog.script.requests))
      /\ \A r \in ToSet(dialog.script.requests) : IsTurn(r)
      /\ IsLibrary(dialog.script.library, dialog.script.requests)
  BY <1>1, ScriptsAssumption DEF IsScript, IsList
<1>5. t.turn \in 1..Len(dialog.script.requests)
  <2>1. Len(dialog.script.requests) \in Nat
    BY <1>1, RequestsFit
  <2>2. dialog.next \in Nat /\ dialog.next <= Len(dialog.script.requests) + 1
    BY DEF DialogShape
  <2> QED BY <1>3, <2>1, <2>2
<1>6. q \in ToSet(dialog.script.requests)
  BY <1>4, <1>5
<1>7. t.drawing \in 0..Len(dialog.script.drawings)
  BY DEF GroundInv, WayGround
<1>8. HasDrawing(d) => IsDrawing(d) /\ d \in ToSet(dialog.script.drawings)
  <2> SUFFICES ASSUME HasDrawing(d) PROVE IsDrawing(d) /\ d \in ToSet(dialog.script.drawings)
    OBVIOUS
  <2>1. t.drawing # 0
    <3>1. Empty.list = <<>>
      BY DEF Empty
    <3> QED BY <3>1 DEF DrawingOf, HasDrawing
  <2>2. d = dialog.script.drawings[t.drawing]
    BY <2>1 DEF DrawingOf
  <2>3. t.drawing \in 1..Len(dialog.script.drawings)
    BY <1>1, <1>7, <2>1, DrawingsFit
  <2> HIDE DEF d
  <2> QED BY <1>1, <2>2, <2>3, DrawingsFit
<1>9. Request(t.turn) = q /\ DrawingAt(t.drawing) = d
  BY DEF Request, Script, DrawingAt, DrawingOf
<1> HIDE DEF t, q, d
<1> QED BY <1>4, <1>6, <1>8, <1>9 DEF t, q, d

LEMMA FetchedRules ==
    ASSUME NEW rules, RulesHold(rules), NEW fails \in BOOLEAN
    PROVE  /\ RulesHold(FetchRules(rules, fails)) /\ FetchRules(rules, fails).cached # <<>>
           /\ FetchRules(rules, fails).saving = rules.saving
<1> DEFINE rules2 == FetchRules(rules, fails)
           read == IF fails THEN <<>> ELSE rules.db
<1>1. CASE rules.cached # <<>>
  BY <1>1 DEF FetchRules
<1>2. CASE rules.cached = <<>>
  <2>1. rules2 = [rules EXCEPT !.cached = <<read>>, !.failed = fails]
    BY <1>2 DEF FetchRules
  <2>2. ~fails => read = rules.db
    OBVIOUS
  <2> HIDE DEF rules2, read
  <2>3. /\ DOMAIN rules2 = RuleFields /\ rules2.cached = <<read>> /\ rules2.failed = fails
        /\ rules2.db = rules.db /\ rules2.saving = rules.saving
    BY <2>1 DEF RulesHold, RuleFields
  <2>4. <<read>> # <<>> /\ <<read>>[1] = read
    OBVIOUS
  <2>5. RulesHold(rules2)
    BY <2>2, <2>3, <2>4 DEF RulesHold
  <2> QED BY <2>3, <2>4, <2>5 DEF rules2
<1> QED BY <1>1, <1>2

LEMMA RulesStay ==
    ASSUME GroundInv, NEW way, NEW q, NEW d, NEW intent, NEW fails \in BOOLEAN
    PROVE  LET rules2 == Rules(way, q, d, intent, fails) IN
           /\ RulesHold(rules2) /\ rules2.saving = dialog.rules.saving
           /\ Fetches(way, q, d, intent) => rules2.cached # <<>>
<1>1. RulesHold(dialog.rules)
  BY DEF GroundInv
<1> QED BY <1>1, FetchedRules DEF Rules

LEMMA NamesStay ==
    ASSUME GroundInv, NEW q \in ToSet(dialog.script.requests), NEW d, NEW intent, NEW down \in BOOLEAN,
           HasDrawing(d) => d \in ToSet(dialog.script.drawings)
    PROVE  LET names == Names(q, d, intent, down) IN
           /\ q.domain = "pipe" /\ Reviewing(intent) /\ HasDrawing(d) => IsNamed(dialog.script, Fingerprint(d), names)
           /\ CacheHolds(dialog.script, CacheWith(q, d, intent, down, names))
<1> DEFINE names == Names(q, d, intent, down)
           hits == {c \in dialog.cache : Keeps(q, d, intent, down) /\ c.key = Key(d)}
<1>0. CacheHolds(dialog.script, dialog.cache)
  BY DEF GroundInv
<1>1. ASSUME q.domain = "pipe", Reviewing(intent), HasDrawing(d) PROVE IsNamed(dialog.script, Fingerprint(d), names)
  <2>1. CASE hits # {}
    <3> DEFINE c == CHOOSE x \in hits : TRUE
    <3>1. c \in hits /\ names = c.names
      BY <2>1 DEF Names
    <3> HIDE DEF c, names
    <3>2. c \in dialog.cache /\ c.key = Fingerprint(d)
      BY <3>1 DEF Key
    <3> QED BY <1>0, <3>1, <3>2 DEF CacheHolds
  <2>2. CASE hits = {}
    <3>a. names = NamesMapped(q, d, intent)
      BY <2>2 DEF Names
    <3>b. NamesMapped(q, d, intent) = PipeNames(d, q.namer)
      BY <1>1 DEF NamesMapped
    <3>1. names = PipeNames(d, q.namer)
      BY <3>a, <3>b
    <3> HIDE DEF names
    <3> QED BY <1>1, <3>1 DEF IsNamed
  <2> QED BY <2>1, <2>2
<1> HIDE DEF names, hits
<1>2. CacheHolds(dialog.script, CacheWith(q, d, intent, down, names))
  <2>1. CASE Keeps(q, d, intent, down) /\ names # <<>> /\ \A c \in dialog.cache : c.key # Key(d)
    <3> DEFINE new == [key |-> Key(d), names |-> names]
    <3>1. CacheWith(q, d, intent, down, names) = dialog.cache \union {new}
      BY <2>1 DEF CacheWith
    <3>2. new.key = Fingerprint(d) /\ new.names = names
      BY DEF Key
    <3> HIDE DEF new
    <3>3. IsNamed(dialog.script, new.key, new.names)
      BY <1>1, <2>1, <3>2 DEF Keeps
    <3> QED BY <1>0, <3>1, <3>3 DEF CacheHolds
  <2>2. CASE ~(Keeps(q, d, intent, down) /\ names # <<>> /\ \A c \in dialog.cache : c.key # Key(d))
    <3>1. CacheWith(q, d, intent, down, names) = dialog.cache
      BY <2>2 DEF CacheWith
    <3> QED BY <1>0, <3>1
  <2> QED BY <2>1, <2>2
<1> QED BY <1>1, <1>2 DEF names

LEMMA GroundIs ==
    ASSUME NEW way, NEW q, NEW d, NEW intent, NEW rules, NEW names
    PROVE  LET g == Ground(way, q, d, intent, rules, names) IN
           /\ g.intent = intent /\ g.names = names /\ g.under = rules
           /\ g.layout = Layout(q, d, OrgRoles(way, rules), intent)
<1> DEFINE layout == Layout(q, d, OrgRoles(way, rules), intent)
<1>1. Ground(way, q, d, intent, rules, names) = [intent |-> intent, names |-> names, under |-> rules, layout |-> layout]
  BY DEF Ground
<1> HIDE DEF layout
<1> QED BY <1>1 DEF layout

LEMMA PreparingGround ==
    ASSUME DialogShape, DialogTurns, GroundInv, NEW way \in Ways, Prepares(way)
    PROVE  GroundInv'
<1> DEFINE t == dialog[way]
           q == dialog.script.requests[t.turn]
           d == DrawingOf(dialog.script, t.drawing)
<1>1. t.at = "node"
  BY DEF Prepares
<1>2. /\ Request(t.turn) = q /\ DrawingAt(t.drawing) = d
      /\ q \in ToSet(dialog.script.requests)
      /\ HasDrawing(d) => d \in ToSet(dialog.script.drawings)
  BY <1>1, TurnIsOf
<1>a. t.drawing \in 0..Len(dialog.script.drawings)
  BY <1>1 DEF GroundInv, WayGround
<1> DEFINE intent == RequestIntent(q, d)
<1>3. PICK slip : Prepared(way, q, d, intent, Rules(way, q, d, intent, slip = "rules"), Names(q, d, intent, slip = "redis"), slip)
  BY <1>2 DEF Prepares
<1> DEFINE fails == slip = "rules"
           down == slip = "redis"
           rules2 == Rules(way, q, d, intent, fails)
           names == Names(q, d, intent, down)
           cache2 == CacheWith(q, d, intent, down, names)
           g == Ground(way, q, d, intent, rules2, names)
           t2 == Grounded(t, g)
           lapses2 == IF slip = "none" THEN dialog.lapses ELSE dialog.lapses + 1
<1>4. dialog' = [dialog EXCEPT ![way] = t2, !.rules = rules2, !.cache = cache2, !.lapses = lapses2]
  BY <1>3 DEF Prepared
<1>b. fails \in BOOLEAN /\ down \in BOOLEAN
  OBVIOUS
<1> HIDE DEF intent, fails, down, q, d
<1>5. /\ RulesHold(rules2) /\ rules2.saving = dialog.rules.saving
      /\ Fetches(way, q, d, intent) => rules2.cached # <<>>
  BY <1>b, RulesStay
<1>6. /\ q.domain = "pipe" /\ Reviewing(intent) /\ HasDrawing(d) => IsNamed(dialog.script, Fingerprint(d), names)
      /\ CacheHolds(dialog.script, cache2)
  BY <1>2, <1>b, NamesStay
<1> HIDE DEF rules2, names, cache2, lapses2
<1>7. /\ g.intent = intent /\ g.names = names /\ g.under = rules2
      /\ g.layout = Layout(q, d, OrgRoles(way, rules2), intent)
  BY GroundIs
<1>8. GroundFits(dialog.script, way, q, d, g)
  <2> HIDE DEF g
  <2> QED BY <1>5, <1>6, <1>7 DEF GroundFits
<1> HIDE DEF g
<1>9. t2.at = "tools" /\ t2.turn = t.turn /\ t2.drawing = t.drawing /\ t2.ground = g
  BY DEF Grounded
<1> HIDE DEF t2
<1>10. WayGround(dialog.script, way, t2)
  BY <1>a, <1>8, <1>9 DEF WayGround, q, d
<1>11. GroundStep(way, t2, dialog.drawing, rules2, dialog.saved, cache2)
  BY <1>4 DEF GroundStep, Fields, Ways, DialogShape
<1> QED BY <1>5, <1>6, <1>10, <1>11, GroundStays DEF GroundInv

LEMMA RespondingGround ==
    ASSUME DialogShape, DialogTurns, GroundInv, NEW way \in Ways, Responds(way)
    PROVE  GroundInv'
<1> DEFINE t == dialog[way]
           q == dialog.script.requests[t.turn]
           d == DrawingOf(dialog.script, t.drawing)
           out == ReviewNode(q, t.pending, ToolCalls(q, d, t.ground.intent), t.ground.intent, dialog.script.library, MaxAdded)
           t2 == Stored(way, t, out, MemorySummary(t.mem, t.turn))
<1>1. t.at = "tools"
  BY DEF Responds
<1>2. Request(t.turn) = q /\ DrawingAt(t.drawing) = d
  BY <1>1, TurnIsOf
<1>3. dialog' = [dialog EXCEPT ![way] = t2]
  BY <1>2 DEF Responds, Script
<1>4. /\ t.drawing \in 0..Len(dialog.script.drawings)
      /\ GroundFits(dialog.script, way, q, d, t.ground)
  BY <1>1 DEF GroundInv, WayGround
<1>5. IsAnswerOf(dialog.script, q, d, [out |-> out, ground |-> t.ground])
  BY DEF IsAnswerOf
<1> HIDE DEF out, q, d
<1>6. t2.at = "answered" /\ t2.turn = t.turn /\ t2.drawing = t.drawing /\ t2.ground = t.ground /\ t2.out = out
  BY DEF Stored
<1> HIDE DEF t2
<1>7. IsAnswerOf(dialog.script, q, d, t2)
  BY <1>5, <1>6 DEF IsAnswerOf
<1>8. WayGround(dialog.script, way, t2)
  BY <1>4, <1>6, <1>7 DEF WayGround, q, d
<1>9. GroundStep(way, t2, dialog.drawing, dialog.rules, dialog.saved, dialog.cache)
  BY <1>3 DEF GroundStep, Fields, Ways, DialogShape
<1> QED BY <1>8, <1>9, GroundStays DEF GroundInv

LEMMA CommittingGround ==
    ASSUME DialogShape, DialogTurns, GroundInv, NEW way \in Ways, Commit(way)
    PROVE  GroundInv'
<1> DEFINE t == dialog[way]
           w == Write(way, t)
<1>1. t.at \in {"answered", "store"} /\ dialog' = [w EXCEPT ![way] = Committed(@)]
  BY DEF Commit, Storing
<1>2. WayFits(t, dialog.kept, dialog.next) /\ Stores(t)
  BY <1>1 DEF DialogTurns, Stores
<1>3. DOMAIN t = StoreFields /\ Head(t.todo) \in Kinds
  <2>1. t.todo \in Todos
    BY <1>2 DEF WayFits, TurnFits
  <2>2. Head(t.todo) \in Kinds
    BY <2>1, EarlyOnes, LaterOnes DEF Todos, Kinds
  <2> QED BY <1>2, <2>2 DEF WayFits
<1>4. /\ DOMAIN w = Fields /\ DOMAIN w[way] = StoreFields
      /\ w.script = dialog.script /\ w.drawing = dialog.drawing /\ w.rules = dialog.rules
      /\ w.saved = dialog.saved /\ w.cache = dialog.cache /\ \A o \in Ways \ {way} : w[o] = dialog[o]
  <2>1. CASE Head(t.todo) \in {"user", "assistant"}
    <3> DEFINE told2 == Append(dialog.transcript, <<t.turn, Head(t.todo)>>)
    <3>1. w = [dialog EXCEPT !.transcript = told2]
      BY <2>1, WritesTo
    <3> HIDE DEF told2, w
    <3> QED BY <1>3, <3>1 DEF Fields, Ways, DialogShape
  <2>2. CASE Head(t.todo) = "rows"
    <3> DEFINE rows2 == SyncPendingFixes(dialog.rows, t.out.pending)
    <3>1. w = [dialog EXCEPT !.rows = rows2]
      BY <2>2, WritesTo
    <3> HIDE DEF rows2, w
    <3> QED BY <1>3, <3>1 DEF Fields, Ways, DialogShape
  <2>3. CASE Head(t.todo) = "summary"
    <3>1. DOMAIN w = Fields /\ \A f \in Fields : f \notin {"memory", "spoiled"} => w[f] = dialog[f]
      BY <2>3, SummaryIsWritten
    <3> HIDE DEF w
    <3> QED BY <1>3, <3>1 DEF Fields, Ways
  <2>4. CASE Head(t.todo) = "recent"
    <3> DEFINE m2 == [dialog.memory EXCEPT !.recent = t.new.recent]
               kept2 == KeptWith(t)
               t1 == [t EXCEPT !.base = kept2]
    <3>1. /\ DOMAIN w = Fields /\ w.memory = m2
          /\ w.spoiled = (dialog.spoiled \/ Clobbers(way, t))
          /\ w.kept = kept2 /\ w[way] = t1
          /\ \A f \in Fields : f \notin {"memory", "spoiled", "kept", way} => w[f] = dialog[f]
      BY <2>4, RecentIsWritten
    <3> HIDE DEF w, m2, kept2
    <3>2. DOMAIN w[way] = StoreFields
      BY <1>3, <3>1
    <3> QED BY <3>1, <3>2 DEF Fields, Ways
  <2> QED BY <1>3, <2>1, <2>2, <2>3, <2>4 DEF Kinds
<1> DEFINE left == Committed(w[way])
<1>5. dialog' = [w EXCEPT ![way] = left]
  BY <1>1
<1> HIDE DEF w
<1>6. left.at \in {"rest", "store"}
  BY <1>4, CommittedIs, RestIsRest
<1> HIDE DEF left
<1>7. GroundStep(way, left, dialog.drawing, dialog.rules, dialog.saved, dialog.cache)
  BY <1>4, <1>5 DEF GroundStep, Fields, Ways
<1> QED BY <1>6, <1>7, Grounds

LEMMA FailingGround ==
    ASSUME DialogShape, DialogTurns, GroundInv, NEW way \in Ways, CommitFails(way)
    PROVE  GroundInv'
<1> DEFINE t == dialog[way]
           goesOn == way = "chat" /\ Len(t.todo) > Len(Saves) /\ t.out.pending # <<>>
<1>1. t.at \in {"answered", "store"}
  BY DEF CommitFails, Storing
<1>2. CASE goesOn
  <2>1. dialog' = [dialog EXCEPT ![way].todo = Saves, !.lapses = @ + 1,
                                 ![way].new = IF Head(t.todo) \in {"user", "assistant"} THEN t.mem ELSE @]
    BY <1>2 DEF CommitFails
  <2> DEFINE t2 == dialog'[way]
  <2>2. WayFits(t, dialog.kept, dialog.next) /\ Stores(t)
    BY <1>1 DEF DialogTurns, Stores
  <2>3. DOMAIN t = StoreFields
    BY <2>2 DEF WayFits
  <2>4. /\ t2.at = t.at /\ t2.turn = t.turn /\ t2.drawing = t.drawing /\ t2.ground = t.ground /\ t2.out = t.out
    BY <2>1, <2>3 DEF StoreFields, DialogShape, Fields, Ways
  <2>5. GroundStep(way, t2, dialog.drawing, dialog.rules, dialog.saved, dialog.cache)
    BY <2>1 DEF GroundStep, DialogShape, Fields, Ways
  <2> HIDE DEF t2
  <2>6. WayGround(dialog.script, way, t)
    BY DEF GroundInv
  <2>7. WayGround(dialog.script, way, t2)
    <3> HIDE DEF t
    <3> QED BY <2>4, <2>6 DEF WayGround, IsAnswerOf
  <2> QED BY <2>5, <2>7, GroundStays DEF GroundInv
<1>3. CASE ~goesOn
  <2> DEFINE lost == dialog.spoiled \/ Torn(t)
  <2>1. dialog' = [dialog EXCEPT ![way] = Rest, !.lapses = @ + 1, !.spoiled = lost]
    BY <1>3 DEF CommitFails
  <2> HIDE DEF lost
  <2>2. GroundStep(way, Rest, dialog.drawing, dialog.rules, dialog.saved, dialog.cache)
    BY <2>1 DEF GroundStep, DialogShape, Fields, Ways
  <2> QED BY <2>2, RestIsRest, Grounds
<1> QED BY <1>2, <1>3

------------------------------------------------------------------------------
(* The ground is kept by every step, and answers rest on it.                *)

LEMMA GroundBegins ==
    ASSUME dialog = NoDialog, NEW i \in DOMAIN Scripts, BeginDialog(Scripts[i])
    PROVE  GroundInv'
<1> DEFINE s == Scripts[i]
<1>1. /\ dialog'.script = s /\ dialog'.drawing = 1 /\ dialog'.rules = NoRules /\ dialog'.saved = FALSE
      /\ dialog'.cache = {} /\ \A way \in Ways : dialog'[way] = Rest
  BY DEF BeginDialog, Ways
<1>2. 1 \in 1..Len(s.drawings)
  BY DrawingsFit
<1>3. RulesHold(NoRules) /\ ~NoRules.saving
  BY DEF RulesHold, RuleFields, NoRules
<1>4. \A way : WayGround(s, way, Rest)
  BY RestIsRest DEF WayGround
<1>5. Ways' = Ways
  BY DEF Ways
<1> HIDE DEF s
<1>6. CacheHolds(s, {})
  BY DEF CacheHolds
<1> QED BY <1>1, <1>2, <1>3, <1>4, <1>5, <1>6 DEF GroundInv

LEMMA GroundKeeps == DialogInv /\ (dialog # NoDialog => GroundInv) /\ [DialogNext]_dialog => (dialog # NoDialog => GroundInv)'
<1> SUFFICES ASSUME DialogInv, dialog # NoDialog => GroundInv, [DialogNext]_dialog, (dialog # NoDialog)' PROVE GroundInv'
  OBVIOUS
<1>1. CASE UNCHANGED dialog
  <2>1. dialog # NoDialog
    BY <1>1 DEF NoDialog
  <2>2. Ways' = Ways
    BY DEF Ways
  <2> QED BY <1>1, <2>1, <2>2 DEF GroundInv
<1>2. CASE dialog = NoDialog /\ \E i \in DOMAIN Scripts : BeginDialog(Scripts[i])
  BY <1>2, GroundBegins
<1>3. CASE dialog.at = "on" /\ dialog # NoDialog
  <2>1. DialogShape /\ DialogTurns /\ GroundInv
    BY <1>3 DEF DialogInv
  <2>2. CASE StartTurn
    BY <2>1, <2>2, StartGrounds
  <2>3. CASE SaveRules
    BY <2>1, <2>3, SavingRules
  <2>4. CASE InvalidateMappingCache
    BY <2>1, <2>4, InvalidatingKeeps
  <2>5. CASE Edit
    BY <2>1, <2>5, EditKeeps
  <2>6. CASE LoadChat \/ LoadExecute
    BY <2>1, <2>6, LoadingGround
  <2>7. CASE StopChat \/ \E way \in Ways : CompressFails(way)
    BY <2>1, <2>7, OverGround
  <2>8. ASSUME NEW way \in Ways, Prepares(way) \/ Responds(way) \/ Commit(way) \/ CommitFails(way) PROVE GroundInv'
    BY <2>1, <2>8, PreparingGround, RespondingGround, CommittingGround, FailingGround
  <2> QED BY <1>1, <1>3, <2>2, <2>3, <2>4, <2>5, <2>6, <2>7, <2>8 DEF DialogNext
<1>4. NoDialog.at # "on"
  BY DEF NoDialog
<1> QED BY <1>1, <1>2, <1>3, <1>4 DEF DialogNext

LEMMA GroundFollows == DialogInv /\ (dialog # NoDialog => GroundInv) => DialogHasGround
<1> SUFFICES ASSUME DialogInv, dialog # NoDialog => GroundInv, dialog.at = "on", NEW way \in Ways, dialog[way].at = "answered"
             PROVE  LET t == dialog[way] IN HasGround(way, Request(t.turn), DrawingAt(t.drawing), t.ground, t.out)
  BY DEF DialogHasGround, Begun
<1> DEFINE t == dialog[way]
           q == dialog.script.requests[t.turn]
           d == DrawingOf(dialog.script, t.drawing)
           g == t.ground
<1>1. dialog # NoDialog
  BY DEF NoDialog
<1>2. DialogShape /\ DialogTurns /\ GroundInv
  BY <1>1 DEF DialogInv
<1>3. /\ Request(t.turn) = q /\ DrawingAt(t.drawing) = d
      /\ q \in ToSet(dialog.script.requests) /\ IsTurn(q)
      /\ HasDrawing(d) => IsDrawing(d) /\ d \in ToSet(dialog.script.drawings)
      /\ IsLibrary(dialog.script.library, dialog.script.requests)
  BY <1>2, TurnIsOf
<1>4. GroundFits(dialog.script, way, q, d, g) /\ IsAnswerOf(dialog.script, q, d, t)
  BY <1>2 DEF GroundInv, WayGround
<1> HIDE DEF q, d
<1>5. g.layout = Layout(q, d, OrgRoles(way, g.under), g.intent)
  BY <1>4 DEF GroundFits
<1>6. PICK pending : t.out = ReviewNode(q, pending, ToolCalls(q, d, g.intent), g.intent, dialog.script.library, MaxAdded)
  BY <1>4 DEF IsAnswerOf
<1>7. HintsAreNearest(d, g.layout)
  <2> DEFINE org    == OrgRoles(way, g.under)
             intent == g.intent
             layout == g.layout
  <2>1. layout = Layout(q, d, org, intent)
    BY <1>5
  <2> HIDE DEF org, intent, layout, g
  <2>2. HasDrawing(d) => IsDrawing(d)
    BY <1>3
  <2>3. HintsAreNearest(d, Layout(q, d, org, intent))
    BY <2>2, LayoutHints
  <2>4. HintsAreNearest(d, layout)
    BY <2>1, <2>3
  <2> QED BY <2>4 DEF layout
<1>8. RolesAreSaved(way, q, d, g)
  <2> SUFFICES ASSUME way = "execute", q.domain = "pipe", HasDrawing(d), g.intent # "answer", ~g.under.failed, ~g.under.saving
               PROVE  g.layout.roles = [name \in {d.ent[h].layer : h \in ToSet(d.list)} |->
                                            ClassifyLayer(name, d.layer[name], g.under.db)]
    BY DEF RolesAreSaved
  <2> DEFINE org == OrgRoles(way, g.under)
  <2>1. g.under.cached # <<>> /\ g.under.cached[1] = g.under.db
    BY <1>4 DEF GroundFits, Fetches, RulesHold
  <2>2. org = g.under.db
    BY <2>1 DEF OrgRoles
  <2>3. Layout(q, d, org, g.intent).roles
            = [name \in {d.ent[h].layer : h \in ToSet(d.list)} |-> ClassifyLayer(name, d.layer[name], org)]
    <3> HIDE DEF org
    <3> QED BY <1>3, LayoutHints
  <2> QED BY <1>5, <2>2, <2>3
<1>9. NamesAreOfTheDrawing(q, d, g)
  BY <1>4 DEF NamesAreOfTheDrawing, GroundFits, IsNamed, Script
<1>10. ~q.broken => TablesAreCited(q, ToolCalls(q, d, g.intent), t.out) /\ RefsAreRetrieved(q, t.out) /\ IsLookedUp(q, g, t.out)
  BY <1>3, <1>6, AnswerIsGrounded DEF Script
<1> HIDE DEF g
<1>11. HasGround(way, q, d, g, t.out)
  BY <1>7, <1>8, <1>9, <1>10 DEF HasGround
<1> QED BY <1>3, <1>11 DEF g

\* An answer rests on what was saved, drawn and retrieved: the roles of the layers,
\* the nearest walls, the names of the blocks, the tables, the references of the
\* fixes; and a question of rules is looked up (mapping.py 79-175 and cad_interop.py
\* 146-147; pipe_review_node.py 112-145 and 374-425; elec_review_node.py 470-486 and
\* 1737-1871; pipe_review_node.py 2187-2204 and 489-512).
THEOREM ConversationHasGround == DialogSpec => []DialogHasGround
<1>1. DialogInit => DialogInv /\ (dialog # NoDialog => GroundInv)
  BY DEF DialogInit, DialogInv
<1> QED BY <1>1, DialogKeeps, GroundKeeps, GroundFollows, PTL DEF DialogSpec

==============================================================================
