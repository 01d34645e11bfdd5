------------------------ MODULE ReviewSession_proofs --------------------------
(* For any number of reviews, findings, decisions and lost messages: the    *)
(* types, and that no entry of a list is carried out twice.                 *)
EXTENDS ReviewSession, FiniteSetTheorems, SequenceTheorems, TLAPS

------------------------------------------------------------------------------
(* Sequences and the sets of what they hold.                                *)

LEMMA AppendRange ==
    ASSUME NEW S, NEW q \in Seq(S), NEW m \in S
    PROVE  Append(q, m) \in Seq(S) /\ Range(Append(q, m)) = Range(q) \cup {m}
<1>1. /\ Append(q, m) \in Seq(S) /\ Len(Append(q, m)) = Len(q) + 1
      /\ \A i \in 1..Len(q) : Append(q, m)[i] = q[i]
      /\ Append(q, m)[Len(q) + 1] = m
  BY AppendProperties
<1>2. Len(q) \in Nat
  BY LenProperties
<1>3. Range(q) = {q[i] : i \in 1..Len(q)}
  BY RangeEquality
<1>4. Range(Append(q, m)) = {Append(q, m)[i] : i \in 1..(Len(q) + 1)}
  BY <1>1, RangeEquality
<1>5. 1..(Len(q) + 1) = 1..Len(q) \cup {Len(q) + 1}
  BY <1>2
<1> QED BY <1>1, <1>3, <1>4, <1>5

LEMMA TailRange ==
    ASSUME NEW S, NEW q \in Seq(S), q # <<>>
    PROVE  /\ Head(q) \in S /\ Tail(q) \in Seq(S)
           /\ Range(q) = {Head(q)} \cup Range(Tail(q))
<1>1. /\ Head(q) \in S /\ Tail(q) \in Seq(S) /\ Len(Tail(q)) = Len(q) - 1
      /\ \A i \in 1..Len(Tail(q)) : Tail(q)[i] = q[i + 1]
  BY HeadTailProperties
<1>2. Len(q) \in Nat \ {0}
  BY EmptySeq
<1>3. Head(q) = q[1]
  OBVIOUS
<1>4. Range(q) = {q[i] : i \in 1..Len(q)}
  BY RangeEquality
<1>5. Range(Tail(q)) = {Tail(q)[i] : i \in 1..Len(Tail(q))}
  BY <1>1, RangeEquality
<1>6. ASSUME NEW i \in 1..Len(q) PROVE q[i] \in {Head(q)} \cup Range(Tail(q))
  <2>1. CASE i = 1
    BY <2>1, <1>3
  <2>2. CASE i # 1
    <3>1. i - 1 \in 1..Len(Tail(q)) /\ (i - 1) + 1 = i
      BY <2>2, <1>1, <1>2
    <3>2. Tail(q)[i - 1] = q[i]
      BY <3>1, <1>1
    <3> QED BY <3>1, <3>2, <1>5
  <2> QED BY <2>1, <2>2
<1>7. ASSUME NEW i \in 1..Len(Tail(q)) PROVE Tail(q)[i] \in Range(q)
  <2>1. i + 1 \in 1..Len(q)
    BY <1>1, <1>2
  <2> QED BY <2>1, <1>1, <1>4
<1>8. Head(q) \in Range(q)
  BY <1>2, <1>3, <1>4
<1> QED BY <1>1, <1>4, <1>5, <1>6, <1>7, <1>8

\* A sequence has nothing in it only when it is empty.
LEMMA EmptyRange ==
    ASSUME NEW S, NEW q \in Seq(S)
    PROVE  Range(q) \in SUBSET S /\ (Range(q) = {} <=> q = <<>>)
<1>1. Range(q) = {q[i] : i \in 1..Len(q)} /\ Range(q) \in SUBSET S
  BY RangeEquality, RangeOfSeq
<1>2. CASE q = <<>>
  BY <1>1, <1>2
<1>3. CASE q # <<>>
  <2>1. Len(q) \in Nat \ {0}
    BY <1>3, EmptySeq
  <2>2. 1 \in 1..Len(q)
    BY <2>1
  <2> QED BY <1>1, <1>3, <2>2
<1> QED BY <1>2, <1>3

\* SetToSeq lists a finite set: all of it, each member once.
LEMMA SetToSeqLists ==
    ASSUME NEW S, IsFiniteSet(S)
    PROVE  /\ SetToSeq(S) \in Seq(S) /\ Range(SetToSeq(S)) = S
           /\ \A i, j \in DOMAIN SetToSeq(S) : SetToSeq(S)[i] = SetToSeq(S)[j] => i = j
<1> DEFINE n == Cardinality(S)
           f == SetToSeq(S)
<1>1. n \in Nat /\ ExistsBijection(1..n, S)
  BY FS_CardinalityType
<1>2. \E g \in [1..n -> S] : IsInjective(g)
  BY <1>1 DEF ExistsBijection, Bijection, Injection
<1>3. f \in [1..n -> S] /\ IsInjective(f)
  BY <1>2, Zenon DEF SetToSeq
<1>4. f \in Seq(S) /\ DOMAIN f = 1..n
  BY <1>1, <1>3, SeqDef
<1>5. f \in Surjection(1..n, S)
  <2>1. IsFiniteSet(1..n) /\ Cardinality(1..n) = n
    BY <1>1, FS_Interval
  <2>2. f \in Injection(1..n, S)
    BY <1>3 DEF Injection
  <2> QED BY <2>1, <2>2, FS_Injection
<1>6. Range(f) = S
  BY <1>5, <1>3, <1>4 DEF Surjection, Range
<1> QED BY <1>3, <1>4, <1>6 DEF IsInjective

\* A set of numbers from 1 on that is not empty has a least one: of the sets of
\* what lies below each, one has no smaller one within it.
LEMMA HasLeast ==
    ASSUME NEW n \in Nat, NEW S \in SUBSET (1..n), S # {}
    PROVE  \E x \in S : \A m \in S : x <= m
<1> DEFINE Below(x) == {m \in S : m < x}
           family == {Below(x) : x \in S}
<1>1. IsFiniteSet(S)
  <2>1. IsFiniteSet(1..n)
    BY FS_Interval
  <2> QED BY <2>1, FS_Subset
<1>2. IsWellFoundedOn(StrictSubsetOrdering(S), SUBSET S)
  BY <1>1, FS_StrictSubsetOrderingWellFounded, FS_FiniteSubsetsOfFinite
<1>3. family \subseteq SUBSET S /\ family # {}
  BY Zenon
<1>4. PICK T \in family : \A U \in family : <<U, T>> \notin StrictSubsetOrdering(S)
  <2> HIDE DEF family
  <2> QED BY <1>2, <1>3, WFMin, Zenon
<1>5. PICK x \in S : T = Below(x)
  BY <1>4
<1>6. \A m \in S : x <= m
  <2> SUFFICES ASSUME NEW m \in S, m < x PROVE FALSE
    OBVIOUS
  <2>1. Below(m) \in family
    OBVIOUS
  <2>2. ASSUME NEW k \in Below(m) PROVE k \in Below(x)
    OBVIOUS
  <2>3. m \in Below(x) /\ m \notin Below(m)
    OBVIOUS
  <2>4. <<Below(m), T>> \in StrictSubsetOrdering(S)
    BY <2>2, <2>3, <1>5 DEF StrictSubsetOrdering
  <2> QED BY <2>1, <2>4, <1>4
<1> QED BY <1>6

------------------------------------------------------------------------------
(* The rows.                                                                *)

Row == [finding : Findings, status : Statuses]
ToServer(ids) == [verb : {"cancel", "approve", "reject"}, ids : SUBSET ids, all : BOOLEAN]
ToUi(ids) == [kind : {"started", "ended", "result"}, ids : SUBSET ids]
EntriesOf(ids) == [row : ids, review : Reviews, again : BOOLEAN]
ToCad(ids) == [verb : {"approve", "reject"}, ids : SUBSET ids, all : BOOLEAN]
              \cup [verb : {"result"}, entries : SUBSET EntriesOf(ids)]
Counted == taken \in Nat /\ cancels \in Nat /\ lost \in Nat /\ taken + cancels + lost <= MaxEvents
FromCad(ids) == [ids : SUBSET ids, all : BOOLEAN, success : BOOLEAN]

\* The old rows keep their place and finding; the pending ones are deleted and
\* the new ones follow as pending.
LEMMA SyncedRows ==
    ASSUME rows \in Seq(Row), NEW found \in Seq(Findings)
    PROVE  /\ Synced(found) \in Seq(Row) /\ DOMAIN Synced(found) = 1..(Len(rows) + Len(found))
           /\ Ids \subseteq DOMAIN Synced(found)
           /\ \A i \in Ids : /\ Synced(found)[i].finding = rows[i].finding
                             /\ Synced(found)[i].status =
                                  IF rows[i].status = "PENDING" THEN "DELETED" ELSE rows[i].status
           /\ \A i \in DOMAIN Synced(found) \ Ids :
                  /\ i - Len(rows) \in DOMAIN found
                  /\ Synced(found)[i] = [finding |-> found[i - Len(rows)], status |-> "PENDING"]
           /\ \A k \in DOMAIN found : Len(rows) + k \in DOMAIN Synced(found) \ Ids
<1> DEFINE old == [i \in Ids |-> IF rows[i].status = "PENDING" THEN [rows[i] EXCEPT !.status = "DELETED"] ELSE rows[i]]
           new == [i \in DOMAIN found |-> [finding |-> found[i], status |-> "PENDING"]]
<1>1. /\ Len(rows) \in Nat /\ Ids = 1..Len(rows) /\ \A i \in Ids : rows[i] \in Row
      /\ Len(found) \in Nat /\ DOMAIN found = 1..Len(found) /\ \A i \in DOMAIN found : found[i] \in Findings
  BY LenProperties DEF Ids
<1>2. \A i \in Ids : old[i] \in Row
  BY <1>1 DEF Row, Statuses
<1>3. \A i \in DOMAIN found : new[i] \in Row
  BY <1>1 DEF Row, Statuses
<1>4. old \in Seq(Row) /\ Len(old) = Len(rows)
  <2>1. old \in [1..Len(rows) -> Row]
    BY <1>1, <1>2
  <2> QED BY <2>1, <1>1, SeqDef
<1>5. new \in Seq(Row) /\ Len(new) = Len(found)
  <2>1. new \in [1..Len(found) -> Row]
    BY <1>1, <1>3
  <2> QED BY <2>1, <1>1, SeqDef
<1>6. Synced(found) = old \o new
  BY DEF Synced
<1>7. /\ old \o new \in Seq(Row) /\ Len(old \o new) = Len(rows) + Len(found)
      /\ \A i \in 1..(Len(rows) + Len(found)) :
             (old \o new)[i] = IF i <= Len(rows) THEN old[i] ELSE new[i - Len(rows)]
  <2> HIDE DEF old, new
  <2> QED BY <1>4, <1>5, ConcatProperties
<1>8. DOMAIN (old \o new) = 1..(Len(rows) + Len(found))
  <2> HIDE DEF old, new
  <2> QED BY <1>7, LenProperties
<1>9. \A i \in Ids : /\ old[i].finding = rows[i].finding
                     /\ old[i].status = IF rows[i].status = "PENDING" THEN "DELETED" ELSE rows[i].status
  BY <1>1 DEF Row
<1>10. \A i \in 1..(Len(rows) + Len(found)) : i \notin Ids =>
          i - Len(rows) \in DOMAIN found /\ new[i - Len(rows)] = [finding |-> found[i - Len(rows)], status |-> "PENDING"]
  BY <1>1
<1>11. \A i \in Ids : i \in 1..(Len(rows) + Len(found)) /\ i <= Len(rows)
  BY <1>1
<1>12. \A i \in 1..(Len(rows) + Len(found)) : i \notin Ids => ~ (i <= Len(rows))
  BY <1>1
<1>13. \A k \in DOMAIN found : Len(rows) + k \in 1..(Len(rows) + Len(found)) /\ Len(rows) + k \notin Ids
  BY <1>1
<1> HIDE DEF old, new
<1> QED BY <1>6, <1>7, <1>8, <1>9, <1>10, <1>11, <1>12, <1>13

\* An update changes the status of the rows it selects and nothing else.
LEMMA UpdatedRows ==
    ASSUME rows \in Seq(Row), NEW ids, NEW from, NEW status \in Statuses
    PROVE  /\ Updated(ids, from, status) \in Seq(Row) /\ DOMAIN Updated(ids, from, status) = Ids
           /\ \A i \in Ids : /\ Updated(ids, from, status)[i].finding = rows[i].finding
                             /\ Updated(ids, from, status)[i].status =
                                  IF i \in ids /\ rows[i].status \in from THEN status ELSE rows[i].status
<1>1. Len(rows) \in Nat /\ Ids = 1..Len(rows) /\ \A i \in Ids : rows[i] \in Row
  BY LenProperties DEF Ids
<1>2. Updated(ids, from, status) \in [1..Len(rows) -> Row]
  BY <1>1 DEF Updated, Row
<1>3. Updated(ids, from, status) \in Seq(Row)
  BY <1>1, <1>2, SeqDef
<1> QED BY <1>1, <1>3 DEF Updated, Row

\* A confirmation decides every pending row.
LEMMA ConfirmedRows ==
    ASSUME rows \in Seq(Row), NEW ids
    PROVE  /\ Confirmed(ids) \in Seq(Row) /\ DOMAIN Confirmed(ids) = Ids
           /\ \A i \in Ids : /\ Confirmed(ids)[i].finding = rows[i].finding
                             /\ Confirmed(ids)[i].status =
                                  IF rows[i].status # "PENDING" THEN rows[i].status
                                  ELSE IF i \in ids THEN "CONFIRMED" ELSE "REJECTED"
<1>1. Len(rows) \in Nat /\ Ids = 1..Len(rows) /\ \A i \in Ids : rows[i] \in Row
  BY LenProperties DEF Ids
<1>2. Confirmed(ids) \in [1..Len(rows) -> Row]
  BY <1>1 DEF Confirmed, Row, Statuses
<1>3. Confirmed(ids) \in Seq(Row)
  BY <1>1, <1>2, SeqDef
<1> QED BY <1>1, <1>3 DEF Confirmed, Row

\* A finding with an open row is listed under an open row of its own.
LEMMA RowOfIsOpen ==
    ASSUME NEW table \in Seq(Row), NEW f, IsOpen(table, f)
    PROVE  RowOf(table, f) \in DOMAIN table /\ table[RowOf(table, f)].status \in Open
<1> DEFINE its == {i \in DOMAIN table : table[i].finding = f /\ table[i].status \in Open}
<1>1. Len(table) \in Nat /\ DOMAIN table = 1..Len(table)
  BY LenProperties
<1>2. PICK i \in its : \A j \in its : i <= j
  <2>1. its \in SUBSET (1..Len(table)) /\ its # {}
    BY <1>1 DEF IsOpen
  <2> HIDE DEF its
  <2> QED BY <2>1, <1>1, HasLeast
<1>3. \A j \in 1..(i - 1) : table[j].finding = f => table[j].status \notin Open
  BY <1>1, <1>2
<1>4. \E k \in DOMAIN table :
          /\ table[k].finding = f /\ table[k].status \in Open
          /\ \A j \in 1..(k - 1) : table[j].finding = f => table[j].status \notin Open
  BY <1>2, <1>3
<1> QED BY <1>4 DEF RowOf

------------------------------------------------------------------------------
(* Types.                                                                   *)

\* What is known of the ids stays true when rows are added.
LEMMA WiderTypes ==
    ASSUME TypeOK, NEW J, Ids \subseteq J
    PROVE  /\ listed \in SUBSET J /\ resolved \in SUBSET J
           /\ deciding \in [verb : {"none", "approve", "reject"}, ids : SUBSET J, answered : BOOLEAN]
           /\ toServer \in Seq(ToServer(J)) /\ toUi \in Seq(ToUi(J))
           /\ toCad \in Seq(ToCad(J)) /\ fromCad \in Seq(FromCad(J))
           /\ shows \in [Reviews -> SUBSET EntriesOf(J)]
           /\ pending \in SUBSET EntriesOf(J) /\ applied \in Seq(EntriesOf(J)) /\ waived \in SUBSET J
<1>1. toServer \in Seq(ToServer(J))
  <2>1. toServer \in Seq(ToServer(Ids)) /\ ToServer(Ids) \subseteq ToServer(J)
    BY DEF TypeOK, ToServer
  <2> QED BY <2>1, SeqMonotonic
<1>2. toUi \in Seq(ToUi(J))
  <2>1. toUi \in Seq(ToUi(Ids)) /\ ToUi(Ids) \subseteq ToUi(J)
    BY DEF TypeOK, ToUi
  <2> QED BY <2>1, SeqMonotonic
<1>3. toCad \in Seq(ToCad(J))
  <2>1. toCad \in Seq(ToCad(Ids)) /\ ToCad(Ids) \subseteq ToCad(J)
    BY DEF TypeOK, ToCad, Entries, EntriesOf
  <2> QED BY <2>1, SeqMonotonic
<1>4. fromCad \in Seq(FromCad(J))
  <2>1. fromCad \in Seq(FromCad(Ids)) /\ FromCad(Ids) \subseteq FromCad(J)
    BY DEF TypeOK, FromCad
  <2> QED BY <2>1, SeqMonotonic
<1>5. applied \in Seq(EntriesOf(J))
  <2>1. applied \in Seq(EntriesOf(Ids)) /\ EntriesOf(Ids) \subseteq EntriesOf(J)
    BY DEF TypeOK, Entries, EntriesOf
  <2> QED BY <2>1, SeqMonotonic
<1> QED BY <1>1, <1>2, <1>3, <1>4, <1>5 DEF TypeOK, Entries, EntriesOf

\* TypeOK in terms of the sets of messages.
LEMMA TypeIs ==
    TypeOK <=>
      /\ analyzing \in BOOLEAN /\ listed \in SUBSET Ids /\ resolved \in SUBSET Ids
      /\ deciding \in [verb : {"none", "approve", "reject"}, ids : SUBSET Ids, answered : BOOLEAN]
      /\ Counted
      /\ toServer \in Seq(ToServer(Ids)) /\ toUi \in Seq(ToUi(Ids))
      /\ toCad \in Seq(ToCad(Ids)) /\ fromCad \in Seq(FromCad(Ids))
      /\ stage \in [Reviews -> Stages] /\ held \in [Reviews -> Seq(Findings)]
      /\ shows \in [Reviews -> SUBSET EntriesOf(Ids)]
      /\ cancelled \in BOOLEAN /\ rows \in Seq(Row)
      /\ pending \in SUBSET EntriesOf(Ids) /\ applied \in Seq(EntriesOf(Ids)) /\ waived \in SUBSET Ids
      /\ calm \in BOOLEAN
BY DEF TypeOK, ToServer, ToUi, ToCad, FromCad, Row, Entries, EntriesOf, Counted

\* Ids are finite in number, and so is what is picked among them.
LEMMA IdsFinite ==
    ASSUME rows \in Seq(Row)
    PROVE  /\ Len(rows) \in Nat /\ Ids = 1..Len(rows) /\ \A i \in Ids : rows[i] \in Row
           /\ \A S \in SUBSET Ids : IsFiniteSet(S)
<1>1. Len(rows) \in Nat /\ Ids = 1..Len(rows) /\ \A i \in Ids : rows[i] \in Row
  BY LenProperties DEF Ids
<1>2. IsFiniteSet(1..Len(rows))
  BY <1>1, FS_Interval
<1> QED BY <1>1, <1>2, FS_Subset

LEMMA TypeInit == ASSUME Init PROVE TypeOK
<1>1. Ids = {} /\ rows \in Seq(Row)
  BY DEF Init, Ids
<1>2. /\ toServer \in Seq(ToServer(Ids)) /\ toUi \in Seq(ToUi(Ids)) /\ applied \in Seq(EntriesOf(Ids))
      /\ toCad \in Seq(ToCad(Ids)) /\ fromCad \in Seq(FromCad(Ids))
  BY DEF Init
<1>3. Counted
  BY BoundsAreNat DEF Init, Counted
<1>4. held \in [Reviews -> Seq(Findings)] /\ stage \in [Reviews -> Stages]
  BY DEF Init, Stages
<1> QED BY <1>1, <1>2, <1>3, <1>4, TypeIs DEF Init, Idle

LEMMA TypeIsNext ==
    ASSUME
        analyzing' \in BOOLEAN, listed' \in SUBSET Ids', resolved' \in SUBSET Ids',
        deciding' \in [verb : {"none", "approve", "reject"}, ids : SUBSET Ids', answered : BOOLEAN],
        Counted',
        toServer' \in Seq(ToServer(Ids')), toUi' \in Seq(ToUi(Ids')),
        toCad' \in Seq(ToCad(Ids')), fromCad' \in Seq(FromCad(Ids')),
        stage' \in [Reviews -> Stages], held' \in [Reviews -> Seq(Findings)],
        shows' \in [Reviews -> SUBSET EntriesOf(Ids')], calm' \in BOOLEAN,
        cancelled' \in BOOLEAN, rows' \in Seq(Row),
        pending' \in SUBSET EntriesOf(Ids'), applied' \in Seq(EntriesOf(Ids')), waived' \in SUBSET Ids'
    PROVE TypeOK'
BY DEF TypeOK, ToServer, ToUi, ToCad, FromCad, Row, Ids, Entries, EntriesOf, Counted

\* What the server sends has the types of its wires.
LEMMA RelayTypes ==
    ASSUME TypeOK, NEW m \in ToCad(Ids), Relay(m)
    PROVE  /\ toCad' \in Seq(ToCad(Ids)) /\ lost' \in Nat /\ (taken + cancels + lost <= MaxEvents => taken + cancels + lost' <= MaxEvents)
           /\ toCad' \in {toCad, Append(toCad, m)}
<1>1. toCad \in Seq(ToCad(Ids)) /\ Counted
  BY TypeIs
<1>2. Append(toCad, m) \in Seq(ToCad(Ids))
  BY <1>1, AppendRange
<1> QED BY <1>1, <1>2, BoundsAreNat DEF Relay, Room, Counted

LEMMA TellTypes ==
    ASSUME TypeOK, NEW kind \in {"started", "ended", "result"}, NEW ids \in SUBSET Ids, Tell(kind, ids)
    PROVE  /\ toUi' \in Seq(ToUi(Ids))
           /\ Range(toUi') = Range(toUi) \cup {[kind |-> kind, ids |-> ids]}
<1>1. toUi \in Seq(ToUi(Ids)) /\ [kind |-> kind, ids |-> ids] \in ToUi(Ids)
  BY TypeIs DEF ToUi
<1> QED BY <1>1, AppendRange DEF Tell

\* A request is under way for a verb.
DecidesVerb == deciding = Idle \/ deciding.verb # "none"

LEMMA BrowserTypes ==
    ASSUME TypeOK, DecidesVerb,
           \/ \E r \in Reviews : StartReview(r)
           \/ CancelReview \/ AllDecided \/ UiReceives \/ ConfirmFixes
           \/ \E verb \in {"approve", "reject"} : DecideAll(verb) \/ \E id \in Undecided : DecideOne(verb, id)
    PROVE  TypeOK'
<1> USE TypeIs DEF browser, wires, server, plugin, Counted
<1>1. ASSUME NEW r \in Reviews, StartReview(r) PROVE TypeOK'
  <2>1. stage' \in [Reviews -> Stages] /\ Ids' = Ids
    BY <1>1 DEF StartReview, Stages, Ids
  <2> QED BY <1>1, <2>1, TypeIsNext DEF StartReview
<1>2. CASE CancelReview
  <2>1. [verb |-> "cancel", ids |-> {}, all |-> FALSE] \in ToServer(Ids)
    BY DEF ToServer
  <2>2. toServer' \in Seq(ToServer(Ids)) /\ Ids' = Ids /\ Counted'
    BY <1>2, <2>1, AppendRange, BoundsAreNat DEF CancelReview, Send, Ids, Room
  <2> QED BY <1>2, <2>2, TypeIsNext DEF CancelReview
<1>3. CASE AllDecided
  <2>1. deciding.verb \in {"approve", "reject"}
    BY <1>3 DEF AllDecided, DecidesVerb, Idle
  <2>2. [verb |-> deciding.verb, ids |-> {}, all |-> TRUE] \in ToServer(Ids)
    BY <2>1 DEF ToServer
  <2>3. toServer' \in Seq(ToServer(Ids)) /\ Ids' = Ids
    BY <1>3, <2>2, AppendRange DEF AllDecided, Send, Ids
  <2>4. deciding' \in [verb : {"none", "approve", "reject"}, ids : SUBSET Ids, answered : BOOLEAN]
    BY <1>3 DEF AllDecided, Idle
  <2> QED BY <1>3, <2>3, <2>4, TypeIsNext DEF AllDecided
<1>4. CASE UiReceives
  <2>1. Head(toUi) \in ToUi(Ids) /\ Tail(toUi) \in Seq(ToUi(Ids))
    BY <1>4, TailRange DEF UiReceives
  <2>2. listed' \in SUBSET Ids /\ analyzing' \in BOOLEAN /\ Ids' = Ids
    BY <1>4, <2>1 DEF UiReceives, ToUi, Ids
  <2> QED BY <1>4, <2>1, <2>2, TypeIsNext DEF UiReceives
<1>5. CASE ConfirmFixes
  <2>1. rows' \in Seq(Row) /\ Ids' = Ids
    BY <1>5, ConfirmedRows DEF ConfirmFixes, Ids
  <2>2. deciding' \in [verb : {"none", "approve", "reject"}, ids : SUBSET Ids, answered : BOOLEAN]
    <3>1. CASE deciding' = [deciding EXCEPT !.answered = TRUE]
      BY <3>1
    <3>2. CASE deciding' = Idle
      BY <3>2 DEF Idle
    <3> QED BY <1>5, <3>1, <3>2 DEF ConfirmFixes
  <2> QED BY <1>5, <2>1, <2>2, TypeIsNext DEF ConfirmFixes
<1>6. ASSUME NEW verb \in {"approve", "reject"}, DecideAll(verb) PROVE TypeOK'
  <2>1. deciding' \in [verb : {"none", "approve", "reject"}, ids : SUBSET Ids, answered : BOOLEAN] /\ Ids' = Ids /\ Counted'
    BY <1>6, BoundsAreNat DEF DecideAll, Ids, Room
  <2> QED BY <1>6, <2>1, TypeIsNext DEF DecideAll
<1>7. ASSUME NEW verb \in {"approve", "reject"}, NEW id \in Undecided, DecideOne(verb, id) PROVE TypeOK'
  <2>1. id \in Ids
    BY DEF Undecided
  <2>2. [verb |-> verb, ids |-> {id}, all |-> FALSE] \in ToServer(Ids)
    BY <2>1 DEF ToServer
  <2>3. toServer' \in Seq(ToServer(Ids)) /\ Ids' = Ids
    BY <1>7, <2>2, AppendRange DEF DecideOne, Send, Ids
  <2>4. waived' \in SUBSET Ids /\ resolved' \in SUBSET Ids /\ Counted'
    BY <1>7, <2>1, BoundsAreNat DEF DecideOne, Room
  <2> QED BY <1>7, <2>3, <2>4, TypeIsNext DEF DecideOne
<1> QED BY <1>1, <1>2, <1>3, <1>4, <1>5, <1>6, <1>7

\* A finished review lists rows that there are, as entries of its own.
LEMMA SavesShow ==
    ASSUME TypeOK, NEW r \in Reviews, NEW found \in SUBSET Findings, TaskSaves(r, found)
    PROVE  /\ SetToSeq(found) \in Seq(Findings) /\ rows' = Synced(SetToSeq(found))
           /\ rows' \in Seq(Row) /\ Ids \subseteq Ids'
           /\ shows' \in [Reviews -> SUBSET EntriesOf(Ids')]
           /\ \A s \in Reviews : s # r => shows'[s] = shows[s]
           /\ \A e \in shows'[r] : e.review = r
<1> DEFINE seq == SetToSeq(found)
           its(f) == RowOf(rows', f)
           listing == IF found # {} THEN found ELSE {g \in Findings : IsOpen(rows', g)}
<1>1. IsFiniteSet(found)
  BY FiniteFindings, FS_Subset
<1>2. seq \in Seq(found) /\ Range(seq) = found
  BY <1>1, SetToSeqLists
<1>3. seq \in Seq(Findings)
  BY <1>2, SeqMonotonic
<1>4. rows \in Seq(Row) /\ rows' = Synced(seq) /\ shows \in [Reviews -> SUBSET EntriesOf(Ids)]
  BY TypeIs DEF TaskSaves
<1>5. rows' \in Seq(Row) /\ Ids \subseteq DOMAIN rows'
  <2> HIDE DEF seq
  <2> QED BY <1>3, <1>4, SyncedRows
<1>6. ASSUME NEW f \in found PROVE IsOpen(rows', f)
  <2>1. PICK k \in DOMAIN seq : seq[k] = f
    BY <1>2 DEF Range
  <2>2. /\ Len(rows) + k \in DOMAIN rows' \ Ids
        /\ rows'[Len(rows) + k] = [finding |-> seq[(Len(rows) + k) - Len(rows)], status |-> "PENDING"]
    <3> HIDE DEF seq
    <3> QED BY <2>1, <1>3, <1>4, SyncedRows
  <2>3. (Len(rows) + k) - Len(rows) = k
    <3>1. Len(rows) \in Nat /\ DOMAIN seq = 1..Len(seq) /\ Len(seq) \in Nat
      BY <1>3, <1>4, LenProperties
    <3> QED BY <2>1, <3>1
  <2> QED BY <2>1, <2>2, <2>3 DEF IsOpen, Open
<1>7. /\ \A f \in listing : its(f) \in DOMAIN rows'
      /\ \A f \in found : its(f) \in DOMAIN rows'
  BY <1>5, <1>6, RowOfIsOpen
<1>8. PICK more \in SUBSET found :
          shows' = [shows EXCEPT ![r] = {[row |-> its(f), review |-> r, again |-> FALSE] : f \in listing}
                                        \cup {[row |-> its(f), review |-> r, again |-> TRUE] : f \in more}]
  BY DEF TaskSaves
<1> DEFINE mine == {[row |-> its(f), review |-> r, again |-> FALSE] : f \in listing}
                   \cup {[row |-> its(f), review |-> r, again |-> TRUE] : f \in more}
<1>9. mine \subseteq EntriesOf(Ids') /\ \A e \in mine : e.review = r
  <2>1. ASSUME NEW f \in listing \cup found, NEW b \in BOOLEAN
        PROVE  [row |-> its(f), review |-> r, again |-> b] \in EntriesOf(Ids')
    <3> HIDE DEF its, listing
    <3> QED BY <1>7, <2>1 DEF EntriesOf, Ids
  <2>2. TRUE \in BOOLEAN /\ FALSE \in BOOLEAN
    OBVIOUS
  <2> HIDE DEF its, listing
  <2>3. \A f \in listing : [row |-> its(f), review |-> r, again |-> FALSE] \in EntriesOf(Ids')
    BY <2>1, <2>2
  <2>4. \A f \in more : [row |-> its(f), review |-> r, again |-> TRUE] \in EntriesOf(Ids')
    BY <2>1, <2>2, <1>8
  <2> QED BY <2>3, <2>4
<1>10. EntriesOf(Ids) \subseteq EntriesOf(Ids')
  BY <1>5 DEF EntriesOf, Ids
<1>11. shows' = [shows EXCEPT ![r] = mine]
  BY <1>8
<1> HIDE DEF mine
<1>12. /\ shows' \in [Reviews -> SUBSET EntriesOf(Ids')] /\ shows'[r] = mine
       /\ \A s \in Reviews : s # r => shows'[s] = shows[s]
  BY <1>4, <1>9, <1>10, <1>11
<1> QED BY <1>3, <1>4, <1>5, <1>9, <1>12 DEF Ids

LEMMA EmptyIsSeq == <<>> \in Seq(Findings)
OBVIOUS

LEMMA HandlerTypes ==
    ASSUME TypeOK, NEW r \in Reviews, Handler(r)
    PROVE  TypeOK' /\ Ids \subseteq Ids'
<1> USE TypeIs DEF browser, wires, server, plugin, Counted, Goes
<1>1. CASE StartLoads(r)
  <2> DEFINE read == SetToSeq(OpenIds)
             its == [n \in DOMAIN read |-> rows[read[n]].finding]
  <2>1. /\ IsFiniteSet(OpenIds) /\ \A i \in OpenIds : rows[i].finding \in Findings
    BY IdsFinite DEF OpenIds, Row
  <2>2. read \in Seq(OpenIds)
    BY <2>1, SetToSeqLists
  <2>3. Len(read) \in Nat /\ DOMAIN read = 1..Len(read) /\ \A n \in 1..Len(read) : read[n] \in OpenIds
    <3> HIDE DEF read
    <3> QED BY <2>2, LenProperties, ElementOfSeq
  <2>4. its \in [1..Len(read) -> Findings]
    <3> HIDE DEF read
    <3> QED BY <2>1, <2>3
  <2>5. its \in Seq(Findings)
    BY <2>3, <2>4, SeqDef
  <2>6. held' = [held EXCEPT ![r] = its]
    BY <1>1 DEF StartLoads
  <2>7. held' \in [Reviews -> Seq(Findings)]
    <3> HIDE DEF its
    <3> QED BY <2>5, <2>6
  <2>8. stage' \in [Reviews -> Stages] /\ Ids' = Ids
    BY <1>1 DEF StartLoads, Stages, Ids
  <2> QED BY <1>1, <2>7, <2>8, TypeIsNext DEF StartLoads
<1>2. CASE StartFails(r)
  <2>1. stage' \in [Reviews -> Stages] /\ Ids' = Ids /\ held' \in [Reviews -> Seq(Findings)]
    BY <1>2, EmptyIsSeq DEF StartFails, Stages, Ids
  <2> QED BY <1>2, <2>1, TypeIsNext DEF StartFails
<1>3. CASE StartSaves(r)
  <2>1. stage' \in [Reviews -> Stages] /\ held' \in [Reviews -> Seq(Findings)]
    BY <1>3, EmptyIsSeq DEF StartSaves, Stages
  <2>2. rows' \in Seq(Row) /\ Ids \subseteq Ids'
    <3>1. held[r] \in Seq(Findings) /\ rows \in Seq(Row)
      OBVIOUS
    <3>2. Synced(held[r]) \in Seq(Row) /\ Ids \subseteq DOMAIN Synced(held[r])
      BY <3>1, SyncedRows
    <3> QED BY <1>3, <3>1, <3>2 DEF StartSaves, Ids
  <2>3. toUi' \in Seq(ToUi(Ids'))
    <3>1. toUi \in Seq(ToUi(Ids')) /\ [kind |-> "started", ids |-> {}] \in ToUi(Ids')
      BY <2>2, WiderTypes DEF ToUi
    <3> QED BY <1>3, <3>1, AppendRange DEF StartSaves, Tell
  <2>4. /\ listed \in SUBSET Ids' /\ resolved \in SUBSET Ids'
        /\ deciding \in [verb : {"none", "approve", "reject"}, ids : SUBSET Ids', answered : BOOLEAN]
        /\ toServer \in Seq(ToServer(Ids')) /\ toCad \in Seq(ToCad(Ids')) /\ fromCad \in Seq(FromCad(Ids'))
        /\ shows \in [Reviews -> SUBSET EntriesOf(Ids')]
        /\ pending \in SUBSET EntriesOf(Ids') /\ applied \in Seq(EntriesOf(Ids')) /\ waived \in SUBSET Ids'
    BY <2>2, WiderTypes
  <2> QED BY <1>3, <2>1, <2>2, <2>3, <2>4, TypeIsNext DEF StartSaves
<1> QED BY <1>1, <1>2, <1>3 DEF Handler, Ids, StartLoads, StartFails, TypeOK

LEMMA TaskTypes ==
    ASSUME TypeOK, NEW r \in Reviews, Task(r)
    PROVE  TypeOK' /\ Ids \subseteq Ids'
<1> USE TypeIs DEF browser, wires, server, plugin, Counted, Goes
<1>1. CASE Mismatch(r) \/ TaskBegins(r) \/ TaskGivesUp(r)
  <2>1. \E kind \in {"started", "ended"} : Tell(kind, {})
    BY <1>1 DEF Mismatch, TaskBegins, TaskGivesUp
  <2>2. toUi' \in Seq(ToUi(Ids))
    BY <2>1, TellTypes
  <2>3. stage' \in [Reviews -> Stages] /\ Ids' = Ids /\ shows' \in [Reviews -> SUBSET EntriesOf(Ids)]
    BY <1>1 DEF Mismatch, TaskBegins, TaskGivesUp, Stages, Ids
  <2> QED BY <1>1, <2>2, <2>3, TypeIsNext DEF Mismatch, TaskBegins, TaskGivesUp
<1>2. CASE TaskStops(r) \/ TaskRuns(r) \/ AgentAnswers(r)
  <2>1. stage' \in [Reviews -> Stages] /\ Ids' = Ids
    BY <1>2 DEF TaskStops, TaskRuns, AgentAnswers, Stages, Ids
  <2> QED BY <1>2, <2>1, TypeIsNext DEF TaskStops, TaskRuns, AgentAnswers
<1>3. CASE Progress(r)
  <2>1. toUi' \in Seq(ToUi(Ids))
    BY <1>3, TellTypes DEF Progress
  <2>2. Counted' /\ Ids' = Ids
    BY <1>3, BoundsAreNat DEF Progress, Ids, Room
  <2> QED BY <1>3, <2>1, <2>2, TypeIsNext DEF Progress
<1>4. ASSUME NEW found \in SUBSET Findings, TaskSaves(r, found) PROVE TypeOK' /\ Ids \subseteq Ids'
  <2>1. stage' \in [Reviews -> Stages]
    BY <1>4 DEF TaskSaves, Stages
  <2>2. rows' \in Seq(Row) /\ Ids \subseteq Ids' /\ shows' \in [Reviews -> SUBSET EntriesOf(Ids')]
    BY <1>4, SavesShow
  <2>3. /\ listed \in SUBSET Ids' /\ resolved \in SUBSET Ids'
        /\ deciding \in [verb : {"none", "approve", "reject"}, ids : SUBSET Ids', answered : BOOLEAN]
        /\ toServer \in Seq(ToServer(Ids')) /\ toCad \in Seq(ToCad(Ids')) /\ fromCad \in Seq(FromCad(Ids'))
        /\ toUi \in Seq(ToUi(Ids'))
        /\ pending \in SUBSET EntriesOf(Ids') /\ applied \in Seq(EntriesOf(Ids')) /\ waived \in SUBSET Ids'
    BY <2>2, WiderTypes
  <2> QED BY <1>4, <2>1, <2>2, <2>3, TypeIsNext DEF TaskSaves
<1>5. CASE TaskPublishes(r)
  <2>1. [verb |-> "result", entries |-> shows[r]] \in ToCad(Ids) /\ RowsOf(shows[r]) \in SUBSET Ids
    BY DEF ToCad, EntriesOf, RowsOf
  <2>2. toCad' \in Seq(ToCad(Ids)) /\ Counted'
    BY <1>5, <2>1, RelayTypes DEF TaskPublishes
  <2>3. toUi' \in Seq(ToUi(Ids))
    BY <1>5, <2>1, TellTypes DEF TaskPublishes
  <2>4. stage' \in [Reviews -> Stages] /\ Ids' = Ids /\ shows' \in [Reviews -> SUBSET EntriesOf(Ids)]
    BY <1>5 DEF TaskPublishes, Stages, Ids
  <2> QED BY <1>5, <2>2, <2>3, <2>4, TypeIsNext DEF TaskPublishes
<1> QED
  BY <1>1, <1>2, <1>3, <1>4, <1>5
  DEF Task, Ids, Mismatch, TaskBegins, TaskStops, TaskRuns, TaskGivesUp, Progress, AgentAnswers, TaskPublishes

LEMMA SocketTypes ==
    ASSUME TypeOK, Socket \/ ServerMarks
    PROVE  TypeOK' /\ Ids' = Ids
<1> USE TypeIs DEF browser, wires, server, plugin, Counted
<1>1. CASE ServerCancels
  <2>1. Tail(toServer) \in Seq(ToServer(Ids)) /\ toUi' \in Seq(ToUi(Ids))
    BY <1>1, TailRange, TellTypes DEF ServerCancels
  <2> QED BY <1>1, <2>1, TypeIsNext DEF ServerCancels, Ids
<1>2. ASSUME toServer # <<>>, Head(toServer).verb \in {"approve", "reject"}
      PROVE  Head(toServer) \in ToCad(Ids) /\ Head(toServer) \in ToServer(Ids) /\ Tail(toServer) \in Seq(ToServer(Ids))
  <2>1. Head(toServer) \in ToServer(Ids) /\ Tail(toServer) \in Seq(ToServer(Ids))
    BY <1>2, TailRange
  <2> QED BY <1>2, <2>1 DEF ToServer, ToCad
<1>3. CASE ServerRelaysApproval
  <2>1. toCad' \in Seq(ToCad(Ids)) /\ Counted'
    BY <1>2, <1>3, RelayTypes DEF ServerRelaysApproval
  <2> QED BY <1>2, <1>3, <2>1, TypeIsNext DEF ServerRelaysApproval, Ids
<1>4. CASE ServerRejects
  <2>1. toCad' \in Seq(ToCad(Ids)) /\ Counted'
    BY <1>2, <1>4, RelayTypes DEF ServerRejects
  <2>2. rows' \in Seq(Row) /\ Ids' = Ids
    <3>1. "REJECTED" \in Statuses
      BY DEF Statuses
    <3> QED BY <1>4, <3>1, ConfirmedRows, UpdatedRows DEF ServerRejects, Ids
  <2> QED BY <1>2, <1>4, <2>1, <2>2, TypeIsNext DEF ServerRejects
<1>5. CASE ServerMarks
  <2>1. Tail(fromCad) \in Seq(FromCad(Ids)) /\ toUi' \in Seq(ToUi(Ids))
    BY <1>5, TailRange, TellTypes DEF ServerMarks
  <2>2. rows' \in Seq(Row) /\ Ids' = Ids
    <3>1. "APPLIED" \in Statuses /\ "FAILED" \in Statuses
      BY DEF Statuses
    <3> QED BY <1>5, <3>1, UpdatedRows DEF ServerMarks, Marked, Ids
  <2> QED BY <1>5, <2>1, <2>2, TypeIsNext DEF ServerMarks
<1> QED BY <1>1, <1>3, <1>4, <1>5 DEF Socket, Ids, TypeOK

\* The list is finite: entries of finitely many rows.
LEMMA PendingFinite ==
    ASSUME TypeOK
    PROVE  IsFiniteSet(pending)
<1>1. IsFiniteSet(Ids) /\ IsFiniteSet(Reviews) /\ IsFiniteSet(BOOLEAN)
  <2>1. IsFiniteSet(Ids)
    BY IdsFinite, TypeIs
  <2>2. IsFiniteSet(Reviews)
    BY BoundsAreNat, FS_Interval DEF Reviews
  <2>3. IsFiniteSet({TRUE}) /\ IsFiniteSet({FALSE})
    BY FS_Singleton
  <2>4. BOOLEAN = {TRUE} \cup {FALSE}
    OBVIOUS
  <2> QED BY <2>1, <2>2, <2>3, <2>4, FS_Union
<1>2. IsFiniteSet((Ids \X Reviews) \X BOOLEAN)
  BY <1>1, FS_Product
<1> DEFINE Entry(t) == [row |-> t[1][1], review |-> t[1][2], again |-> t[2]]
           Triples == (Ids \X Reviews) \X BOOLEAN
           f == [t \in Triples |-> Entry(t)]
<1>3. IsFiniteSet({Entry(t) : t \in Triples})
  <2>1. f \in Surjection(Triples, {Entry(t) : t \in Triples})
    <3> HIDE DEF Entry, Triples
    <3> QED BY DEF Surjection
  <2> QED BY <2>1, <1>2, FS_Surjection
<1>4. ASSUME NEW e \in EntriesOf(Ids) PROVE e \in {Entry(t) : t \in (Ids \X Reviews) \X BOOLEAN}
  <2>1. <<<<e.row, e.review>>, e.again>> \in (Ids \X Reviews) \X BOOLEAN
    BY DEF EntriesOf
  <2>2. e = [row |-> e.row, review |-> e.review, again |-> e.again]
    BY DEF EntriesOf
  <2>3. Entry(<<<<e.row, e.review>>, e.again>>) = e
    BY <2>2
  <2> QED BY <2>1, <2>3
<1>5. pending \subseteq {Entry(t) : t \in (Ids \X Reviews) \X BOOLEAN}
  BY <1>4, TypeIs
<1> HIDE DEF Entry
<1> QED BY <1>3, <1>5, FS_Subset

\* What an approval does in the plugin: its targets leave the list, and some of
\* them are carried out, each once.
LEMMA ApprovalCarries ==
    ASSUME TypeOK, PluginApproves
    PROVE  \E targets \in SUBSET pending, done \in SUBSET pending :
              /\ done \subseteq targets
              /\ SetToSeq(done) \in Seq(EntriesOf(Ids)) /\ Range(SetToSeq(done)) = done
              /\ \A i, j \in DOMAIN SetToSeq(done) : SetToSeq(done)[i] = SetToSeq(done)[j] => i = j
              /\ applied' = applied \o SetToSeq(done)
              /\ pending' = pending \ targets
              /\ fromCad' = Append(fromCad, [ids |-> Head(toCad).ids, all |-> Head(toCad).all, success |-> targets # {}])
<1> DEFINE targets == Meant(Head(toCad))
           bulk == {e \in targets : rows[e.row].finding \in Bulk}
<1>1. PICK first \in IF bulk = {} THEN {{}} ELSE {{e} : e \in bulk} :
         \E done \in SUBSET ((targets \ bulk) \cup first) : applied' = applied \o SetToSeq(done)
  BY DEF PluginApproves
<1>2. PICK done \in SUBSET ((targets \ bulk) \cup first) : applied' = applied \o SetToSeq(done)
  BY <1>1
<1>3. targets \subseteq pending /\ first \subseteq targets
  BY <1>1 DEF Meant
<1>4. done \subseteq targets
  BY <1>2, <1>3
<1>5. pending \subseteq EntriesOf(Ids) /\ IsFiniteSet(pending)
  BY TypeIs, PendingFinite
<1>6. /\ SetToSeq(done) \in Seq(done) /\ Range(SetToSeq(done)) = done
      /\ \A i, j \in DOMAIN SetToSeq(done) : SetToSeq(done)[i] = SetToSeq(done)[j] => i = j
  <2>1. IsFiniteSet(done)
    BY <1>3, <1>4, <1>5, FS_Subset
  <2> QED BY <2>1, SetToSeqLists
<1>7. SetToSeq(done) \in Seq(EntriesOf(Ids))
  <2>1. done \subseteq EntriesOf(Ids)
    BY <1>3, <1>4, <1>5
  <2> QED BY <2>1, <1>6, SeqMonotonic
<1>8. /\ pending' = pending \ targets
      /\ fromCad' = Append(fromCad, [ids |-> Head(toCad).ids, all |-> Head(toCad).all, success |-> targets # {}])
  BY DEF PluginApproves, Leaves
<1>9. targets \in SUBSET pending /\ done \in SUBSET pending
  BY <1>3, <1>4
<1> HIDE DEF targets, bulk
<1> QED BY <1>2, <1>4, <1>6, <1>7, <1>8, <1>9

LEMMA PluginTypes ==
    ASSUME TypeOK, Plugin
    PROVE  TypeOK' /\ Ids' = Ids
<1> USE TypeIs DEF browser, wires, server, plugin, Counted
<1>1. toCad # <<>> /\ toCad' = Tail(toCad) /\ Ids' = Ids
  BY DEF Plugin, PluginShows, PluginApproves, PluginRejects, NextForPlugin, Ids
<1>2. Head(toCad) \in ToCad(Ids) /\ toCad' \in Seq(ToCad(Ids))
  BY <1>1, TailRange
<1>3. CASE PluginShows
  <2>1. pending' \in SUBSET EntriesOf(Ids)
    BY <1>2, <1>3 DEF PluginShows, NextForPlugin, ToCad
  <2> QED BY <1>1, <1>2, <1>3, <2>1, TypeIsNext DEF PluginShows
<1>4. CASE PluginApproves
  <2>1. PICK targets \in SUBSET pending, done \in SUBSET pending :
              /\ SetToSeq(done) \in Seq(EntriesOf(Ids))
              /\ applied' = applied \o SetToSeq(done)
              /\ pending' = pending \ targets
              /\ fromCad' = Append(fromCad, [ids |-> Head(toCad).ids, all |-> Head(toCad).all, success |-> targets # {}])
    BY <1>4, ApprovalCarries, Zenon
  <2>2. applied' \in Seq(EntriesOf(Ids))
    BY <2>1, ConcatProperties
  <2>3. fromCad' \in Seq(FromCad(Ids))
    <3>1. [ids |-> Head(toCad).ids, all |-> Head(toCad).all, success |-> targets # {}] \in FromCad(Ids)
      BY <1>2, <1>4 DEF ToCad, FromCad, PluginApproves, NextForPlugin
    <3> QED BY <2>1, <3>1, AppendRange
  <2>4. pending' \in SUBSET EntriesOf(Ids)
    BY <2>1
  <2> QED BY <1>1, <1>2, <1>4, <2>2, <2>3, <2>4, TypeIsNext DEF PluginApproves
<1>5. CASE PluginRejects
  <2>1. pending' \in SUBSET EntriesOf(Ids)
    BY <1>5 DEF PluginRejects, Keeps
  <2> QED BY <1>1, <1>2, <1>5, <2>1, TypeIsNext DEF PluginRejects
<1> QED BY <1>1, <1>3, <1>4, <1>5 DEF Plugin

TypeInv == TypeOK /\ DecidesVerb

LEMMA TypesKept == ASSUME TypeInv, [Next]_vars PROVE TypeInv' /\ Ids \subseteq Ids'
<1> USE DEF browser, wires, server, plugin
<1>1. TypeOK /\ DecidesVerb
  BY DEF TypeInv
<1>2. ASSUME UNCHANGED vars PROVE TypeOK' /\ Ids' = Ids
  <2>1. Ids' = Ids /\ (Counted <=> Counted') /\ rows' = rows
    BY <1>2 DEF vars, Ids, Counted
  <2> QED BY <1>1, <1>2, <2>1, TypeIs, TypeIsNext DEF vars
<1>3. ASSUME \/ \E r \in Reviews : StartReview(r)
             \/ CancelReview \/ AllDecided \/ UiReceives \/ ConfirmFixes
             \/ \E verb \in {"approve", "reject"} : DecideAll(verb) \/ \E id \in Undecided : DecideOne(verb, id)
      PROVE  TypeOK' /\ Ids' = Ids
  <2>1. rows' = rows \/ ConfirmFixes
    BY <1>3 DEF StartReview, CancelReview, AllDecided, UiReceives, DecideAll, DecideOne
  <2>2. DOMAIN rows' = DOMAIN rows
    BY <1>1, <2>1, TypeIs, ConfirmedRows DEF ConfirmFixes, Ids
  <2> QED BY <1>1, <1>3, <2>2, BrowserTypes DEF Ids
<1>4. TypeOK' /\ Ids \subseteq Ids'
  BY <1>1, <1>2, <1>3, HandlerTypes, TaskTypes, SocketTypes, PluginTypes DEF Next, User
<1>5. DecidesVerb'
  <2>1. CASE deciding' = deciding
    BY <1>1, <2>1 DEF DecidesVerb, Idle
  <2>2. CASE AllDecided
    BY <2>2 DEF AllDecided, DecidesVerb, Idle
  <2>3. CASE ConfirmFixes
    BY <1>1, <2>3, TypeIs DEF ConfirmFixes, DecidesVerb, Idle
  <2>4. ASSUME NEW verb \in {"approve", "reject"}, DecideAll(verb) PROVE DecidesVerb'
    BY <2>4 DEF DecideAll, DecidesVerb
  <2>5. \/ deciding' = deciding \/ AllDecided \/ ConfirmFixes
        \/ \E verb \in {"approve", "reject"} : DecideAll(verb)
    BY DEF Next, User, Handler, Task, Socket, Plugin, vars, StartReview, CancelReview, DecideOne, UiReceives,
           StartLoads, StartFails, StartSaves, Mismatch, TaskBegins, TaskStops, TaskRuns, TaskGivesUp, Progress,
           AgentAnswers, TaskSaves, TaskPublishes, ServerCancels, ServerRelaysApproval, ServerRejects, ServerMarks,
           PluginShows, PluginApproves, PluginRejects
  <2> QED BY <2>1, <2>2, <2>3, <2>4, <2>5
<1> QED BY <1>4, <1>5 DEF TypeInv

\* The types hold for every number of reviews and findings: ids are never given anew, so the cards of the browser, the
\* plugin's list and the messages under way go on naming rows
\* (state_service.py 205-244).
THEOREM SessionIsTyped == Spec => []TypeOK
<1>1. Init => TypeInv
  BY TypeInit DEF TypeInv, Init, DecidesVerb
<1>2. TypeInv /\ [Next]_vars => TypeInv'
  BY TypesKept
<1>3. TypeInv => TypeOK
  BY DEF TypeInv
<1> QED BY <1>1, <1>2, <1>3, PTL DEF Spec

------------------------------------------------------------------------------
(* Once.  A review works alone: all that came before it is settled.  Its    *)
------------------------------------------------------------------------------
(* Once.  Each entry names its review, a review lists entries once, when it *)
(* ends, and an entry is either coming to the plugin, or in its list, or    *)
(* was carried out, or is gone.                                             *)

Done(r) == stage[r] = "done"
Happened == Range(applied)
IsResult(m) == m.verb = "result"

ShownIsOwn == \A r \in Reviews : \A e \in shows[r] : e.review = r
ListedIsDone ==
    /\ \A e \in pending \cup Happened : Done(e.review)
    /\ \A m \in Range(toCad) : IsResult(m) => \A e \in m.entries : Done(e.review)
\* No entry is in two results, or in a result and in the plugin already.
Apart(q) == \A k, n \in DOMAIN q : IsResult(q[k]) /\ IsResult(q[n]) /\ k # n => q[k].entries \cap q[n].entries = {}
ComingIsNew == \A m \in Range(toCad) : IsResult(m) => m.entries \cap (pending \cup Happened) = {}

OnceInv ==
    /\ ShownIsOwn /\ ListedIsDone
    /\ Apart(toCad) /\ ComingIsNew
    /\ pending \cap Happened = {}
    /\ AppliedOnce

\* A sequence without repetitions, followed by one of other members.
LEMMA ConcatOnce ==
    ASSUME NEW S, NEW p \in Seq(S), NEW q \in Seq(S), Range(p) \cap Range(q) = {},
           \A i, j \in DOMAIN p : p[i] = p[j] => i = j,
           \A i, j \in DOMAIN q : q[i] = q[j] => i = j
    PROVE  /\ \A i, j \in DOMAIN (p \o q) : (p \o q)[i] = (p \o q)[j] => i = j
           /\ Range(p \o q) = Range(p) \cup Range(q)
<1>1. /\ p \o q \in Seq(S) /\ Len(p \o q) = Len(p) + Len(q)
      /\ \A i \in 1..(Len(p) + Len(q)) : (p \o q)[i] = IF i <= Len(p) THEN p[i] ELSE q[i - Len(p)]
  BY ConcatProperties
<1>2. /\ Len(p) \in Nat /\ Len(q) \in Nat /\ DOMAIN p = 1..Len(p) /\ DOMAIN q = 1..Len(q)
      /\ DOMAIN (p \o q) = 1..(Len(p) + Len(q))
  BY <1>1, LenProperties
<1>3. ASSUME NEW i \in 1..(Len(p) + Len(q)), i <= Len(p)
      PROVE  i \in DOMAIN p /\ (p \o q)[i] = p[i] /\ p[i] \in Range(p)
  BY <1>1, <1>2, <1>3 DEF Range
<1>4. ASSUME NEW i \in 1..(Len(p) + Len(q)), ~(i <= Len(p))
      PROVE  i - Len(p) \in DOMAIN q /\ (p \o q)[i] = q[i - Len(p)] /\ q[i - Len(p)] \in Range(q)
  <2>1. i - Len(p) \in DOMAIN q
    BY <1>2, <1>4
  <2> QED BY <2>1, <1>1, <1>4 DEF Range
<1>5. ASSUME NEW i \in 1..(Len(p) + Len(q)), NEW j \in 1..(Len(p) + Len(q)), (p \o q)[i] = (p \o q)[j]
      PROVE  i = j
  <2>1. CASE i <= Len(p) /\ j <= Len(p)
    BY <1>3, <1>5, <2>1
  <2>2. CASE ~(i <= Len(p)) /\ ~(j <= Len(p))
    <3>1. i - Len(p) = j - Len(p)
      BY <1>4, <1>5, <2>2
    <3> QED BY <3>1, <1>2
  <2>3. CASE (i <= Len(p)) # (j <= Len(p))
    BY <1>3, <1>4, <1>5, <2>3
  <2> QED BY <2>1, <2>2, <2>3
<1>6. Range(p \o q) = Range(p) \cup Range(q)
  BY RangeConcatenation
<1> QED BY <1>2, <1>5, <1>6

LEMMA TailApart ==
    ASSUME NEW S, NEW q \in Seq(S), q # <<>>, Apart(q)
    PROVE  /\ Apart(Tail(q))
           /\ IsResult(Head(q)) => \A m \in Range(Tail(q)) : IsResult(m) => m.entries \cap Head(q).entries = {}
<1>1. /\ Len(q) \in Nat \ {0} /\ DOMAIN q = 1..Len(q) /\ Head(q) = q[1]
      /\ Tail(q) \in Seq(S) /\ Len(Tail(q)) = Len(q) - 1 /\ DOMAIN Tail(q) = 1..(Len(q) - 1)
      /\ \A i \in 1..(Len(q) - 1) : Tail(q)[i] = q[i + 1]
  BY EmptySeq, LenProperties, HeadTailProperties
<1>2. ASSUME NEW k \in DOMAIN Tail(q), NEW n \in DOMAIN Tail(q), k # n, IsResult(Tail(q)[k]), IsResult(Tail(q)[n])
      PROVE  Tail(q)[k].entries \cap Tail(q)[n].entries = {}
  <2>1. k + 1 \in DOMAIN q /\ n + 1 \in DOMAIN q /\ k + 1 # n + 1 /\ Tail(q)[k] = q[k + 1] /\ Tail(q)[n] = q[n + 1]
    BY <1>1, <1>2
  <2> QED BY <2>1, <1>2 DEF Apart
<1>3. ASSUME NEW n \in DOMAIN Tail(q), IsResult(Head(q)), IsResult(Tail(q)[n])
      PROVE  Tail(q)[n].entries \cap Head(q).entries = {}
  <2>1. 1 \in DOMAIN q /\ n + 1 \in DOMAIN q /\ 1 # n + 1 /\ Tail(q)[n] = q[n + 1] /\ Head(q) = q[1]
    BY <1>1, <1>3
  <2> QED BY <2>1, <1>3 DEF Apart
<1> QED BY <1>2, <1>3 DEF Apart, Range

LEMMA AppendApart ==
    ASSUME NEW S, NEW q \in Seq(S), NEW m \in S, Apart(q),
           IsResult(m) => \A n \in Range(q) : IsResult(n) => n.entries \cap m.entries = {}
    PROVE  Apart(Append(q, m))
<1>1. /\ Len(q) \in Nat /\ DOMAIN q = 1..Len(q) /\ DOMAIN Append(q, m) = 1..(Len(q) + 1)
      /\ \A i \in 1..Len(q) : Append(q, m)[i] = q[i]
      /\ Append(q, m)[Len(q) + 1] = m
  BY LenProperties, AppendProperties
<1>2. SUFFICES ASSUME NEW k \in 1..(Len(q) + 1), NEW n \in 1..(Len(q) + 1), k # n,
                      IsResult(Append(q, m)[k]), IsResult(Append(q, m)[n])
               PROVE  Append(q, m)[k].entries \cap Append(q, m)[n].entries = {}
  BY <1>1 DEF Apart
<1>3. CASE k \in 1..Len(q) /\ n \in 1..Len(q)
  BY <1>1, <1>2, <1>3 DEF Apart
<1>4. CASE k = Len(q) + 1 /\ n \in 1..Len(q)
  BY <1>1, <1>2, <1>4 DEF Range
<1>5. CASE n = Len(q) + 1 /\ k \in 1..Len(q)
  BY <1>1, <1>2, <1>5 DEF Range
<1> QED BY <1>1, <1>2, <1>3, <1>4, <1>5

\* The entries in the plugin, and those that come to it, have a review.
LEMMA HaveReviews ==
    ASSUME TypeOK
    PROVE  /\ \A e \in pending \cup Happened : e.review \in Reviews
           /\ \A m \in Range(toCad) : IsResult(m) => \A e \in m.entries : e.review \in Reviews
<1>1. /\ pending \subseteq EntriesOf(Ids) /\ Happened \subseteq EntriesOf(Ids)
      /\ \A m \in Range(toCad) : m \in ToCad(Ids)
  BY TypeIs, EmptyRange DEF Happened
<1> QED BY <1>1 DEF EntriesOf, ToCad, IsResult

LEMMA EmptyHolds == Range(<<>>) = {}
BY DEF Range

\* A review that is done stays done, and lists are its own.
LEMMA DoneStays ==
    ASSUME TypeOK, OnceInv, [Next]_vars
    PROVE  (\A r \in Reviews : Done(r) => Done(r)') /\ ShownIsOwn'
<1> USE TypeIs DEF Goes, Done, browser, wires, server, plugin
<1>1. ASSUME NEW r \in Reviews, StartReview(r) \/ Handler(r)
      PROVE  (\A s \in Reviews : Done(s) => Done(s)') /\ shows' = shows
  BY <1>1 DEF StartReview, Handler, StartLoads, StartFails, StartSaves
<1>2. ASSUME NEW r \in Reviews, Mismatch(r) \/ TaskBegins(r) \/ TaskStops(r) \/ TaskRuns(r) \/ Progress(r) \/ AgentAnswers(r)
      PROVE  (\A s \in Reviews : Done(s) => Done(s)') /\ shows' = shows
  BY <1>2 DEF Mismatch, TaskBegins, TaskStops, TaskRuns, Progress, AgentAnswers
<1>3. ASSUME NEW r \in Reviews, TaskGivesUp(r) \/ TaskPublishes(r)
      PROVE  (\A s \in Reviews : Done(s) => Done(s)') /\ shows' = [shows EXCEPT ![r] = {}]
  BY <1>3 DEF TaskGivesUp, TaskPublishes
<1>4. ASSUME NEW r \in Reviews, NEW found \in SUBSET Findings, TaskSaves(r, found)
      PROVE  (\A s \in Reviews : Done(s) => Done(s)') /\ ShownIsOwn'
  <2>1. \A s \in Reviews : Done(s) => Done(s)'
    BY <1>4 DEF TaskSaves
  <2>2. /\ \A s \in Reviews : s # r => shows'[s] = shows[s]
        /\ \A e \in shows'[r] : e.review = r
    BY <1>4, SavesShow
  <2> QED BY <2>1, <2>2 DEF ShownIsOwn, OnceInv
<1>5. ASSUME stage' = stage, shows' = shows
      PROVE  (\A s \in Reviews : Done(s) => Done(s)') /\ shows' = shows
  BY <1>5
<1>6. shows' = shows => ShownIsOwn'
  BY DEF ShownIsOwn, OnceInv
<1>7. ASSUME NEW r \in Reviews, shows' = [shows EXCEPT ![r] = {}] PROVE ShownIsOwn'
  BY <1>7 DEF ShownIsOwn, OnceInv
<1>8. \/ stage' = stage /\ shows' = shows
      \/ \E r \in Reviews : StartReview(r) \/ Handler(r) \/ Task(r)
  BY DEF Next, User, Socket, Plugin, vars, CancelReview, AllDecided, UiReceives, ConfirmFixes, DecideAll, DecideOne,
         ServerCancels, ServerRelaysApproval, ServerRejects, ServerMarks, PluginShows, PluginApproves, PluginRejects
<1> QED BY <1>1, <1>2, <1>3, <1>4, <1>5, <1>6, <1>7, <1>8 DEF Task

\* A step that adds nothing to what the plugin has or will have.
LEMMA OnceAside ==
    ASSUME TypeOK, OnceInv, ShownIsOwn', \A r \in Reviews : Done(r) => Done(r)',
           pending' \subseteq pending, applied' = applied, Range(toCad') \subseteq Range(toCad), Apart(toCad')
    PROVE  OnceInv'
<1>1. Happened' = Happened /\ AppliedOnce'
  BY DEF Happened, OnceInv, AppliedOnce
<1>2. /\ \A e \in pending \cup Happened : e.review \in Reviews
      /\ \A m \in Range(toCad) : IsResult(m) => \A e \in m.entries : e.review \in Reviews
  BY HaveReviews
<1>3. ListedIsDone'
  BY <1>1, <1>2 DEF ListedIsDone, OnceInv
<1>4. ComingIsNew'
  BY <1>1 DEF ComingIsNew, OnceInv
<1>5. Apart(toCad)' /\ pending' \cap Happened' = {}
  BY <1>1 DEF Apart, OnceInv
<1> QED BY <1>1, <1>3, <1>4, <1>5 DEF OnceInv

\* A decision is relayed, or lost.
LEMMA OnceRelay ==
    ASSUME TypeOK, OnceInv, ShownIsOwn', \A r \in Reviews : Done(r) => Done(r)',
           pending' = pending, applied' = applied, NEW m \in ToCad(Ids), ~IsResult(m), Relay(m)
    PROVE  OnceInv'
<1>1. Happened' = Happened /\ AppliedOnce' /\ toCad \in Seq(ToCad(Ids))
  BY TypeIs DEF Happened, OnceInv, AppliedOnce
<1>2. CASE toCad' = toCad
  BY <1>2, OnceAside DEF OnceInv
<1>3. CASE toCad' = Append(toCad, m)
  <2>1. Range(toCad') = Range(toCad) \cup {m}
    BY <1>1, <1>3, AppendRange
  <2>2. Apart(toCad')
    BY <1>1, <1>3, AppendApart DEF OnceInv
  <2>3. ListedIsDone' /\ ComingIsNew'
    BY <1>1, <2>1, HaveReviews DEF ListedIsDone, ComingIsNew, OnceInv
  <2> QED BY <1>1, <2>2, <2>3 DEF OnceInv, Apart
<1> QED BY <1>2, <1>3 DEF Relay

\* A review publishes its entries, which nobody has seen: it was not done.
LEMMA OncePublish ==
    ASSUME TypeOK, OnceInv, ShownIsOwn', \A r \in Reviews : Done(r) => Done(r)',
           NEW r \in Reviews, TaskPublishes(r)
    PROVE  OnceInv'
<1> DEFINE m == [verb |-> "result", entries |-> shows[r]]
<1>1. Happened' = Happened /\ AppliedOnce' /\ pending' = pending /\ applied' = applied /\ toCad \in Seq(ToCad(Ids))
  BY TypeIs DEF Happened, OnceInv, AppliedOnce, TaskPublishes, plugin
<1>2. ~Done(r) /\ Done(r)' /\ \A e \in shows[r] : e.review = r
  BY TypeIs DEF TaskPublishes, Goes, Done, OnceInv, ShownIsOwn
<1>3. m \in ToCad(Ids) /\ IsResult(m) /\ m.entries = shows[r]
  BY TypeIs DEF ToCad, IsResult
<1>4. CASE toCad' = toCad
  BY <1>1, <1>4, OnceAside DEF OnceInv
<1>5. CASE toCad' = Append(toCad, m)
  <2>1. Range(toCad') = Range(toCad) \cup {m}
    BY <1>1, <1>3, <1>5, AppendRange
  <2>2. /\ \A n \in Range(toCad) : IsResult(n) => n.entries \cap shows[r] = {}
        /\ shows[r] \cap (pending \cup Happened) = {}
    BY <1>2 DEF OnceInv, ListedIsDone
  <2>3. Apart(toCad')
    <3> HIDE DEF m
    <3> QED BY <1>1, <1>3, <1>5, <2>2, AppendApart DEF OnceInv
  <2>4. ListedIsDone'
    <3>1. \A e \in m.entries : Done(e.review)'
      BY <1>2, <1>3
    <3> HIDE DEF m
    <3> QED BY <3>1, <1>1, <2>1, HaveReviews DEF ListedIsDone, OnceInv
  <2>5. ComingIsNew'
    <3> HIDE DEF m
    <3> QED BY <1>1, <1>3, <2>1, <2>2 DEF ComingIsNew, OnceInv
  <2> QED BY <1>1, <2>3, <2>4, <2>5 DEF OnceInv, Apart
<1> QED BY <1>4, <1>5 DEF TaskPublishes, Relay

LEMMA OncePlugin ==
    ASSUME TypeOK, OnceInv, ShownIsOwn', \A r \in Reviews : Done(r) => Done(r)', Plugin
    PROVE  OnceInv'
<1>1. /\ toCad \in Seq(ToCad(Ids)) /\ toCad # <<>> /\ toCad' = Tail(toCad) /\ applied \in Seq(EntriesOf(Ids))
      /\ pending \in SUBSET EntriesOf(Ids)
  BY TypeIs DEF Plugin, PluginShows, PluginApproves, PluginRejects, NextForPlugin
<1>2. /\ Range(toCad) = {Head(toCad)} \cup Range(toCad') /\ Apart(toCad')
      /\ IsResult(Head(toCad)) => \A m \in Range(toCad') : IsResult(m) => m.entries \cap Head(toCad).entries = {}
  BY <1>1, TailRange, TailApart DEF OnceInv
<1>3. CASE PluginRejects
  <2>1. pending' \subseteq pending /\ applied' = applied
    BY <1>3 DEF PluginRejects, Keeps
  <2> QED BY <2>1, <1>2, OnceAside
<1>4. CASE PluginShows
  <2>1. /\ IsResult(Head(toCad)) /\ pending' = Head(toCad).entries /\ applied' = applied
        /\ Head(toCad) \in Range(toCad)
    BY <1>2, <1>4 DEF PluginShows, NextForPlugin, IsResult
  <2>2. Happened' = Happened /\ AppliedOnce'
    BY <2>1 DEF Happened, AppliedOnce, OnceInv
  <2>3. ListedIsDone'
    BY <1>2, <2>1, <2>2, HaveReviews DEF ListedIsDone, OnceInv
  <2>4. ComingIsNew' /\ pending' \cap Happened = {}
    BY <1>2, <2>1, <2>2 DEF ComingIsNew, OnceInv
  <2> QED BY <1>2, <2>2, <2>3, <2>4 DEF OnceInv, Apart
<1>5. CASE PluginApproves
  <2>1. PICK targets \in SUBSET pending, done \in SUBSET pending :
              /\ done \subseteq targets
              /\ SetToSeq(done) \in Seq(EntriesOf(Ids)) /\ Range(SetToSeq(done)) = done
              /\ \A i, j \in DOMAIN SetToSeq(done) : SetToSeq(done)[i] = SetToSeq(done)[j] => i = j
              /\ applied' = applied \o SetToSeq(done)
              /\ pending' = pending \ targets
    BY <1>5, ApprovalCarries, Zenon
  <2>2. Happened \cap done = {}
    BY <2>1 DEF OnceInv
  <2>3. AppliedOnce' /\ Happened' = Happened \cup done
    <3>1. \A i, j \in DOMAIN applied : applied[i] = applied[j] => i = j
      BY DEF OnceInv, AppliedOnce
    <3> DEFINE q == SetToSeq(done)
    <3>2. q \in Seq(EntriesOf(Ids)) /\ Range(applied) \cap Range(q) = {} /\ \A i, j \in DOMAIN q : q[i] = q[j] => i = j
      BY <2>1, <2>2 DEF Happened
    <3>3. /\ \A i, j \in DOMAIN (applied \o q) : (applied \o q)[i] = (applied \o q)[j] => i = j
          /\ Range(applied \o q) = Range(applied) \cup Range(q)
      <4> HIDE DEF q
      <4> QED BY <3>1, <3>2, <1>1, ConcatOnce
    <3> QED BY <3>3, <2>1 DEF AppliedOnce, Happened
  <2>4. /\ pending' \cup Happened' \subseteq pending \cup Happened
        /\ pending' \cap Happened' = {}
    BY <2>1, <2>3 DEF OnceInv
  <2>5. ListedIsDone' /\ ComingIsNew'
    BY <1>2, <2>4, HaveReviews DEF ListedIsDone, ComingIsNew, OnceInv
  <2> QED BY <1>2, <2>3, <2>4, <2>5 DEF OnceInv, Apart
<1> QED BY <1>3, <1>4, <1>5 DEF Plugin

LEMMA OnceKept == ASSUME TypeOK, OnceInv, [Next]_vars PROVE OnceInv'
<1>1. ShownIsOwn' /\ \A r \in Reviews : Done(r) => Done(r)'
  BY DoneStays
<1>2. CASE Plugin
  BY <1>1, <1>2, OncePlugin
<1>3. ASSUME NEW r \in Reviews, TaskPublishes(r) PROVE OnceInv'
  BY <1>1, <1>3, OncePublish
<1>4. CASE ServerRelaysApproval \/ ServerRejects
  <2>1. Head(toServer) \in ToServer(Ids) /\ Head(toServer).verb \in {"approve", "reject"} /\ Relay(Head(toServer))
    BY <1>4, TailRange, TypeIs DEF ServerRelaysApproval, ServerRejects
  <2>2. Head(toServer) \in ToCad(Ids) /\ ~IsResult(Head(toServer))
    BY <2>1 DEF ToServer, ToCad, IsResult
  <2>3. pending' = pending /\ applied' = applied
    BY <1>4 DEF ServerRelaysApproval, ServerRejects, plugin
  <2> QED BY <2>1, <2>2, <2>3, <1>1, OnceRelay
<1>5. ASSUME toCad' = toCad, applied' = applied, pending' \in {pending, {}} PROVE OnceInv'
  BY <1>1, <1>5, OnceAside DEF OnceInv
<1>6. \/ toCad' = toCad /\ applied' = applied /\ pending' \in {pending, {}}
      \/ Plugin \/ ServerRelaysApproval \/ ServerRejects \/ \E r \in Reviews : TaskPublishes(r)
  BY DEF Next, User, Handler, Task, Socket, vars, browser, wires, server, plugin, StartReview, CancelReview, DecideOne,
         DecideAll, AllDecided, UiReceives, ConfirmFixes, StartLoads, StartFails, StartSaves, Mismatch, TaskBegins,
         TaskStops, TaskRuns, TaskGivesUp, Progress, AgentAnswers, TaskSaves, ServerCancels, ServerMarks
<1> QED BY <1>2, <1>3, <1>4, <1>5, <1>6

LEMMA OnceInit == ASSUME Init PROVE OnceInv
<1>1. Range(<<>>) = {}
  BY EmptyHolds
<1> QED BY <1>1 DEF Init, OnceInv, ShownIsOwn, ListedIsDone, Apart, ComingIsNew, AppliedOnce, Happened

\* No entry is carried out twice, for any number of reviews, overlapping or
\* not, findings, entries that share a fix, decisions, clicks on stop and lost
\* messages (SocketMessageHandler.cs 235-362 with RemovePendingTargets, and
\* the lists of agent_api.py 1239-1333).
THEOREM NoEntryTwice == Spec => []AppliedOnce
<1>1. Init => TypeInv /\ OnceInv
  BY TypeInit, OnceInit DEF TypeInv, Init, DecidesVerb
<1>2. TypeInv /\ OnceInv /\ [Next]_vars => TypeInv' /\ OnceInv'
  BY TypesKept, OnceKept DEF TypeInv
<1>3. OnceInv => AppliedOnce
  BY DEF OnceInv
<1> QED BY <1>1, <1>2, <1>3, PTL DEF Spec
=============================================================================
