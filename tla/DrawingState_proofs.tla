------------------------- MODULE DrawingState_proofs --------------------------
(* For any number of workers, analyses, reviews and objects, and whichever  *)
(* keys expire: the keys keep their types, a zero deltaCount hides no       *)
(* committed delta of the current snapshot unless it outlived the list's    *)
(* count, and a review hands over what it has to reckon with.  With one     *)
(* worker the figures of the record cover what the sets hold between its    *)
(* passes.                                                                  *)
EXTENDS DrawingState, FiniteSetTheorems, TLAPS

\* Counting a dirty set or a list of deltas gives a number.
LEMMA Counts ==
    /\ \A D \in SUBSET Entries : Cardinality(D) \in Nat
    /\ \A D \in SUBSET Ids : Cardinality(D) \in Nat /\ (Cardinality(D) = 0 <=> D = {})
<1>1. ASSUME NEW D \in SUBSET Entries PROVE Cardinality(D) \in Nat
  BY EntriesFinite, FS_Subset, FS_CardinalityType
<1>2. ASSUME NEW D \in SUBSET Ids
      PROVE  Cardinality(D) \in Nat /\ (Cardinality(D) = 0 <=> D = {})
  BY IdsFinite, FS_Subset, FS_CardinalityType, FS_EmptySet
<1>3. QED BY <1>1, <1>2

\* Setting one variable of a handler keeps its type.
LEMMA LocalTypes ==
    ASSUME local \in [Procs -> Locals], NEW p \in Procs
    PROVE  /\ \A v \in SUBSET Entries : [local EXCEPT ![p].batch = v] \in [Procs -> Locals]
           /\ \A v \in Ids \cup {None} : [local EXCEPT ![p].ref = v] \in [Procs -> Locals]
           /\ \A v \in Ids \cup {None} : [local EXCEPT ![p].obj = v] \in [Procs -> Locals]
           /\ \A v \in Nat : [local EXCEPT ![p].n = v] \in [Procs -> Locals]
           /\ \A v \in BOOLEAN : [local EXCEPT ![p].full = v] \in [Procs -> Locals]
           /\ \A v \in BOOLEAN : [local EXCEPT ![p].hit = v] \in [Procs -> Locals]
           /\ \A v \in SUBSET Ids : [local EXCEPT ![p].got = v] \in [Procs -> Locals]
           /\ \A v \in Nat, w \in BOOLEAN :
                 [local EXCEPT ![p].n = v, ![p].full = w] \in [Procs -> Locals]
<1>1. local[p] \in Locals
  OBVIOUS
<1>2. \A v \in SUBSET Entries : [local[p] EXCEPT !.batch = v] \in Locals
  BY <1>1 DEF Locals
<1>3. \A v \in Ids \cup {None} : [local[p] EXCEPT !.ref = v] \in Locals
  BY <1>1 DEF Locals
<1>4. \A v \in Ids \cup {None} : [local[p] EXCEPT !.obj = v] \in Locals
  BY <1>1 DEF Locals
<1>5. \A v \in Nat : [local[p] EXCEPT !.n = v] \in Locals
  BY <1>1 DEF Locals
<1>6. \A v \in BOOLEAN : [local[p] EXCEPT !.full = v] \in Locals
  BY <1>1 DEF Locals
<1>7. \A v \in BOOLEAN : [local[p] EXCEPT !.hit = v] \in Locals
  BY <1>1 DEF Locals
<1>8. \A v \in SUBSET Ids : [local[p] EXCEPT !.got = v] \in Locals
  BY <1>1 DEF Locals
<1>9. \A v \in Nat, w \in BOOLEAN : [local[p] EXCEPT !.n = v, !.full = w] \in Locals
  BY <1>1 DEF Locals
<1>10. QED BY <1>2, <1>3, <1>4, <1>5, <1>6, <1>7, <1>8, <1>9

\* One name for each kind of step.
Steps ==
    \/ \E j \in Jobs :
          \/ BulkDeferred(j) \/ (\E batch \in SUBSET Entries : BulkBegins(j, batch)) \/ Baseline(j)
          \/ BulkAdd(j) \/ BulkCount(j) \/ BulkReadSnapshot(j) \/ BulkNoSnapshot(j)
          \/ BulkMode(j) \/ BulkStatus(j) \/ BulkDirtyCount(j)
          \/ ResyncStart(j) \/ ResyncMark(j) \/ (\E id \in Ids : SnapshotStored(j, id))
          \/ SnapshotHead(j) \/ SnapshotLooksAtLock(j) \/ SnapshotCommit(j)
          \/ FailLooksAtLock(j) \/ FailMark(j)
          \/ (\E id \in Ids : DeltaStored(j, id)) \/ DeltaCheck(j) \/ DeltaConflict(j)
          \/ DeltaHead(j) \/ DeltaPush(j) \/ DeltaIncr(j) \/ DeltaSrem(j)
          \/ DeltaCountLeft(j) \/ DeltaClose(j)
          \/ ResyncFails(j) \/ CommitTimesOut(j) \/ DeltaFails(j)
    \/ \E a \in Analyses :
          \/ (\E id \in Ids : AnalysisStored(a, id))
          \/ AnalysisFingerprint(a) \/ AnalysisClear(a) \/ AnalysisRegister(a)
    \/ \E r \in Reviews :
          ReviewGate(r) \/ ReviewPointer(r) \/ ReviewList(r) \/ ReviewMerge(r) \/ ReviewFails(r)
    \/ LockExpires
    \/ (\E gone \in SUBSET dirty : DirtyExpires(gone)) \/ ListExpires \/ DeltaCountExpires
    \/ FiguresExpire \/ PendingExpires \/ SnapshotExpires

\* Every step of the record is one of the steps the proof treats one by one.
LEMMA NextIsSteps == Next => Steps
BY DEF Next, Steps, Asks, Bulk, Resync, Fail, Delta, Mishap, Analysis, Review, Expire

------------------------------------------------------------------------------
(* The inductive invariant.                                                *)

\* Between the upload of an object and the transaction that names it.
InSnapshot(p) == pc[p] \in {"head", "look", "commit", "fingerprint", "clear", "register"}
InDelta(p) == pc[p] \in {"check", "conflict", "deltaHead", "push", "incr"}

\* Only ids that were given out are written anywhere.
OnlyIssued ==
    /\ snap \in issued \cup {None}
    /\ deltas \subseteq issued
    /\ \A id \in Ids : base[id] \in issued \cup {None}
    /\ \A p \in Procs :
          /\ local[p].ref \in issued \cup {None} /\ local[p].got \subseteq issued
          /\ InSnapshot(p) \/ InDelta(p) => local[p].obj \in issued

\* A snapshot that is not registered yet is not the base of any delta, is not
\* going to be, and is not registered by two handlers.
NotYetKnown ==
    \A p \in Procs : InSnapshot(p) =>
        /\ snap # local[p].obj
        /\ \A id \in Ids : base[id] # local[p].obj
        /\ \A q \in Procs : local[q].ref # local[p].obj
        /\ \A q \in Procs \ {p} : InSnapshot(q) => local[q].obj # local[p].obj

RecordInv == TypeOK /\ OnlyIssued /\ NotYetKnown /\ NoHiddenDelta

\* The empty record satisfies the invariant.
LEMMA InitInv == Init => RecordInv
<1> SUFFICES ASSUME Init PROVE RecordInv
  OBVIOUS
<1>1. NoLocals \in Locals
  BY DEF NoLocals, Locals
<1>2. TypeOK
  BY <1>1 DEF Init, TypeOK, Statuses, Modes, JobPCs, AnalysisPCs, ReviewPCs, Failing
<1>3. OnlyIssued /\ NotYetKnown
  BY DEF Init, OnlyIssued, NotYetKnown, InSnapshot, InDelta, NoLocals
<1>4. NoHiddenDelta
  BY DEF Init, NoHiddenDelta
<1>5. QED BY <1>2, <1>3, <1>4 DEF RecordInv

------------------------------------------------------------------------------
(* Types.                                                                  *)

\* Every step keeps the keys and the handlers' variables in their types.
LEMMA TypeStep == TypeOK /\ OnlyIssued /\ [Next]_vars => TypeOK'
<1> SUFFICES ASSUME TypeOK, OnlyIssued, [Next]_vars PROVE TypeOK'
  OBVIOUS
<1> USE Counts DEF TypeOK, Procs, Statuses, Modes, JobPCs, AnalysisPCs, ReviewPCs,
       Failing, At, Goto, record, requests, observed
<1>1. CASE UNCHANGED vars
  BY <1>1 DEF vars
<1>2. NoLocals \in Locals
  BY DEF NoLocals, Locals
<1>3. \A p \in Procs : local[p] \in Locals
  OBVIOUS
<1>4. \A p \in Procs :
         /\ local[p].batch \in SUBSET Entries /\ local[p].obj \in Ids \cup {None}
         /\ local[p].ref \in Ids \cup {None}
         /\ local[p].n \in Nat /\ local[p].got \in SUBSET Ids
  BY <1>3 DEF Locals
<1>5. ASSUME NEW j \in Jobs, BulkDeferred(j)
      PROVE  TypeOK'
  BY <1>2, <1>4, <1>5 DEF BulkDeferred
<1>6. ASSUME NEW j \in Jobs, NEW batch \in SUBSET Entries, BulkBegins(j, batch)
      PROVE  TypeOK'
  <2>1. local' \in [Procs -> Locals]
    BY <1>4, <1>6, LocalTypes DEF BulkBegins
  <2>2. QED BY <1>4, <1>6, <2>1 DEF BulkBegins
<1>7. ASSUME NEW j \in Jobs, Baseline(j)
      PROVE  TypeOK'
  BY <1>2, <1>4, <1>7 DEF Baseline
<1>8. ASSUME NEW j \in Jobs, BulkAdd(j)
      PROVE  TypeOK'
  BY <1>2, <1>4, <1>8 DEF BulkAdd
<1>9. ASSUME NEW j \in Jobs, BulkCount(j)
      PROVE  TypeOK'
  <2>1. PICK tooBig \in BOOLEAN :
            local' = [local EXCEPT
                ![j].n = Cardinality(dirty),
                ![j].full = MustResync(Cardinality(dirty), deltaCount, tooBig)]
    BY <1>9, LargeDeltasBoolean DEF BulkCount
  <2>2. MustResync(Cardinality(dirty), deltaCount, tooBig) \in BOOLEAN
    BY DEF MustResync
  <2>3. local' \in [Procs -> Locals]
    BY <2>1, <2>2, LocalTypes
  <2>4. QED BY <1>9, <2>3 DEF BulkCount
<1>10. ASSUME NEW j \in Jobs, BulkReadSnapshot(j)
       PROVE  TypeOK'
  <2>1. local' \in [Procs -> Locals]
    BY <1>4, <1>10, LocalTypes DEF BulkReadSnapshot
  <2>2. QED BY <1>4, <1>10, <2>1 DEF BulkReadSnapshot
<1>11. ASSUME NEW j \in Jobs, BulkNoSnapshot(j)
       PROVE  TypeOK'
  BY <1>2, <1>4, <1>11 DEF BulkNoSnapshot
<1>12. ASSUME NEW j \in Jobs, BulkMode(j)
       PROVE  TypeOK'
  BY <1>2, <1>4, <1>12 DEF BulkMode
<1>13. ASSUME NEW j \in Jobs, BulkStatus(j)
       PROVE  TypeOK'
  BY <1>2, <1>4, <1>13 DEF BulkStatus
<1>14. ASSUME NEW j \in Jobs, BulkDirtyCount(j)
       PROVE  TypeOK'
  BY <1>2, <1>4, <1>14 DEF BulkDirtyCount
<1>15. ASSUME NEW j \in Jobs, ResyncStart(j)
       PROVE  TypeOK'
  BY <1>2, <1>4, <1>15 DEF ResyncStart, Return
<1>16. ASSUME NEW j \in Jobs, ResyncMark(j)
       PROVE  TypeOK'
  BY <1>2, <1>4, <1>16 DEF ResyncMark
<1>17. ASSUME NEW j \in Jobs, NEW id \in Ids, SnapshotStored(j, id)
       PROVE  TypeOK'
  <2>1. local' \in [Procs -> Locals]
    BY <1>4, <1>17, LocalTypes DEF SnapshotStored, Stored
  <2>2. QED BY <1>4, <1>17, <2>1 DEF SnapshotStored, Stored
<1>18. ASSUME NEW j \in Jobs, SnapshotHead(j)
       PROVE  TypeOK'
  BY <1>2, <1>4, <1>18 DEF SnapshotHead
<1>19. ASSUME NEW j \in Jobs, SnapshotLooksAtLock(j)
       PROVE  TypeOK'
  <2>1. local' \in [Procs -> Locals]
    BY <1>4, <1>19, LocalTypes DEF SnapshotLooksAtLock
  <2>2. QED BY <1>4, <1>19, <2>1 DEF SnapshotLooksAtLock
<1>20. ASSUME NEW j \in Jobs, SnapshotCommit(j)
       PROVE  TypeOK'
  BY <1>2, <1>4, <1>20 DEF SnapshotCommit, Replaced, Return
<1>21. ASSUME NEW j \in Jobs, FailLooksAtLock(j)
       PROVE  TypeOK'
  BY <1>2, <1>4, <1>21 DEF FailLooksAtLock
<1>22. ASSUME NEW j \in Jobs, FailMark(j)
       PROVE  TypeOK'
  BY <1>2, <1>4, <1>22 DEF FailMark
<1>23. ASSUME NEW j \in Jobs, NEW id \in Ids, DeltaStored(j, id)
       PROVE  TypeOK'
  <2>1. local' \in [Procs -> Locals]
    BY <1>4, <1>23, LocalTypes DEF DeltaStored, Stored
  <2>2. QED BY <1>4, <1>23, <2>1 DEF DeltaStored, Stored
<1>24. ASSUME NEW j \in Jobs, DeltaCheck(j)
       PROVE  TypeOK'
  BY <1>2, <1>4, <1>24 DEF DeltaCheck
<1>25. ASSUME NEW j \in Jobs, DeltaConflict(j)
       PROVE  TypeOK'
  BY <1>2, <1>4, <1>25 DEF DeltaConflict, Return
<1>26. ASSUME NEW j \in Jobs, DeltaHead(j)
       PROVE  TypeOK'
  BY <1>2, <1>4, <1>26 DEF DeltaHead
<1>27. ASSUME NEW j \in Jobs, DeltaPush(j)
       PROVE  TypeOK'
  <2>1. local[j].obj \in Ids
    BY <1>27 DEF DeltaPush, OnlyIssued, InDelta
  <2>2. QED BY <1>27, <2>1 DEF DeltaPush
<1>28. ASSUME NEW j \in Jobs, DeltaIncr(j)
       PROVE  TypeOK'
  <2>1. PICK tooBig \in BOOLEAN :
            local' = [local EXCEPT ![j].full = deltaCount' >= DeltaLimit \/ tooBig]
    BY <1>28, LargeDeltasBoolean DEF DeltaIncr
  <2>2. (deltaCount' >= DeltaLimit \/ tooBig) \in BOOLEAN
    OBVIOUS
  <2>3. local' \in [Procs -> Locals]
    BY <2>1, <2>2, LocalTypes
  <2>4. outlived' \in BOOLEAN
    BY <1>28 DEF DeltaIncr
  <2>5. deltaCount' \in Nat
    BY <1>28 DEF DeltaIncr
  <2>6. pc' \in [Procs -> JobPCs \cup AnalysisPCs \cup ReviewPCs]
    BY <1>28 DEF DeltaIncr
  <2>7. UNCHANGED <<lock, status, mode, snap, dirty, dirtyCount, deltas, lasting, pendingAfter,
                    requests, seen, moved>>
    BY <1>28 DEF DeltaIncr
  <2>8. QED BY <2>3, <2>4, <2>5, <2>6, <2>7
<1>29. ASSUME NEW j \in Jobs, DeltaSrem(j)
       PROVE  TypeOK'
  BY <1>2, <1>4, <1>29 DEF DeltaSrem
<1>30. ASSUME NEW j \in Jobs, DeltaCountLeft(j)
       PROVE  TypeOK'
  <2>1. local' \in [Procs -> Locals]
    BY <1>4, <1>30, LocalTypes DEF DeltaCountLeft
  <2>2. QED BY <1>4, <1>30, <2>1 DEF DeltaCountLeft
<1>31. ASSUME NEW j \in Jobs, DeltaClose(j)
       PROVE  TypeOK'
  BY <1>2, <1>4, <1>31 DEF DeltaClose, Return
<1>32. ASSUME NEW j \in Jobs, ResyncFails(j)
       PROVE  TypeOK'
  BY <1>2, <1>4, <1>32 DEF ResyncFails, Return
<1>33. ASSUME NEW j \in Jobs, CommitTimesOut(j)
       PROVE  TypeOK'
  BY <1>2, <1>4, <1>33 DEF CommitTimesOut
<1>34. ASSUME NEW j \in Jobs, DeltaFails(j)
       PROVE  TypeOK'
  BY <1>2, <1>4, <1>34 DEF DeltaFails, Return
<1>35. ASSUME NEW a \in Analyses, NEW id \in Ids, AnalysisStored(a, id)
       PROVE  TypeOK'
  <2>1. local' \in [Procs -> Locals]
    BY <1>4, <1>35, LocalTypes DEF AnalysisStored, Stored
  <2>2. QED BY <1>4, <1>35, <2>1 DEF AnalysisStored, Stored
<1>36. ASSUME NEW a \in Analyses, AnalysisFingerprint(a)
       PROVE  TypeOK'
  BY <1>2, <1>4, <1>36 DEF AnalysisFingerprint
<1>37. ASSUME NEW a \in Analyses, AnalysisClear(a)
       PROVE  TypeOK'
  BY <1>2, <1>4, <1>37 DEF AnalysisClear, Replaced
<1>38. ASSUME NEW a \in Analyses, AnalysisRegister(a)
       PROVE  TypeOK'
  BY <1>2, <1>4, <1>38 DEF AnalysisRegister, Replaced, Return
<1>39. ASSUME NEW r \in Reviews, ReviewGate(r)
       PROVE  TypeOK'
  <2>1. local' \in [Procs -> Locals]
    BY <1>4, <1>39, LocalTypes DEF ReviewGate, Committed, Current
  <2>2. QED BY <1>4, <1>39, <2>1 DEF ReviewGate, Committed, Current
<1>40. ASSUME NEW r \in Reviews, ReviewPointer(r)
       PROVE  TypeOK'
  <2>1. local' \in [Procs -> Locals]
    BY <1>4, <1>40, LocalTypes DEF ReviewPointer
  <2>2. QED BY <1>4, <1>40, <2>1 DEF ReviewPointer
<1>41. ASSUME NEW r \in Reviews, ReviewList(r)
       PROVE  TypeOK'
  <2>1. local' \in [Procs -> Locals]
    BY <1>4, <1>41, LocalTypes DEF ReviewList
  <2>2. QED BY <1>4, <1>41, <2>1 DEF ReviewList
<1>42. ASSUME NEW r \in Reviews, ReviewMerge(r)
       PROVE  TypeOK'
  <2>1. Valid(r) \in SUBSET Ids
    BY <1>4 DEF Valid, Current
  <2>2. Cardinality(Valid(r)) \in Nat
    BY <2>1
  <2>3. seen' \in [Reviews -> SUBSET Ids]
    BY <1>42 DEF ReviewMerge, OnlyLeft
  <2>4. lasting' \in BOOLEAN /\ outlived' \in BOOLEAN
    BY <1>42 DEF ReviewMerge
  <2>5. deltas' \in SUBSET Ids /\ deltaCount' \in Nat
    BY <1>42, <2>1, <2>2 DEF ReviewMerge
  <2> QED BY <1>2, <1>42, <2>3, <2>4, <2>5 DEF ReviewMerge, Return
<1>43. ASSUME NEW r \in Reviews, ReviewFails(r)
       PROVE  TypeOK'
  BY <1>2, <1>4, <1>43 DEF ReviewFails, Return
<1>44. CASE LockExpires
  BY <1>44 DEF LockExpires
<1>45. ASSUME NEW gone \in SUBSET dirty, DirtyExpires(gone)
       PROVE  TypeOK'
  BY <1>45 DEF DirtyExpires
<1>46. CASE ListExpires
  BY <1>46 DEF ListExpires, OnlyLeft
<1>47. CASE DeltaCountExpires
  BY <1>47 DEF DeltaCountExpires
<1>48. CASE FiguresExpire
  BY <1>48 DEF FiguresExpire
<1>49. CASE PendingExpires
  BY <1>49 DEF PendingExpires
<1>50. CASE SnapshotExpires
  BY <1>50 DEF SnapshotExpires
<1>51. QED
  BY <1>1, <1>5, <1>6, <1>7, <1>8, <1>9, <1>10, <1>11, <1>12, <1>13, <1>14,
     <1>15, <1>16, <1>17, <1>18, <1>19, <1>20, <1>21, <1>22, <1>23, <1>24,
     <1>25, <1>26, <1>27, <1>28, <1>29, <1>30, <1>31, <1>32, <1>33, <1>34,
     <1>35, <1>36, <1>37, <1>38, <1>39, <1>40, <1>41, <1>42, <1>43, <1>44,
     <1>45, <1>46, <1>47, <1>48, <1>49, <1>50,
     NextIsSteps DEF Steps

------------------------------------------------------------------------------
(* The invariant is kept.                                                  *)

Safe == OnlyIssued /\ NotYetKnown /\ NoHiddenDelta

\* A step of one handler that learns no new id.
LEMMA KnownStep ==
    ASSUME TypeOK, OnlyIssued, NotYetKnown, NEW p \in Procs,
           UNCHANGED <<snap, issued, base>>, deltas' \subseteq issued,
           \A q \in Procs \ {p} : pc'[q] = pc[q] /\ local'[q] = local[q],
           local'[p].ref \in {None, local[p].ref, snap},
           local'[p].got \in {{}, local[p].got, deltas},
           InSnapshot(p)' => InSnapshot(p) /\ local'[p].obj = local[p].obj,
           InDelta(p)' => InDelta(p) /\ local'[p].obj = local[p].obj
    PROVE  OnlyIssued' /\ NotYetKnown'
<1>1. \A q \in Procs : /\ local'[q].ref \in {None, local[q].ref, snap}
                       /\ local'[q].got \in {{}, local[q].got, deltas}
  OBVIOUS
<1>2. \A q \in Procs : InSnapshot(q)' => InSnapshot(q) /\ local'[q].obj = local[q].obj
  BY DEF InSnapshot
<1>3. \A q \in Procs : InDelta(q)' => InDelta(q) /\ local'[q].obj = local[q].obj
  BY DEF InDelta
<1>4. OnlyIssued'
  <2>1. \A q \in Procs : InSnapshot(q)' \/ InDelta(q)' => local'[q].obj \in issued'
    BY <1>2, <1>3 DEF OnlyIssued
  <2>2. \A q \in Procs : local'[q].ref \in issued' \cup {None} /\ local'[q].got \subseteq issued'
    BY <1>1 DEF OnlyIssued
  <2>3. QED BY <2>1, <2>2 DEF OnlyIssued
<1>5. NotYetKnown'
  <2> SUFFICES ASSUME NEW q \in Procs, InSnapshot(q)'
               PROVE  /\ snap' # local'[q].obj
                      /\ \A id \in Ids : base'[id] # local'[q].obj
                      /\ \A u \in Procs : local'[u].ref # local'[q].obj
                      /\ \A u \in Procs \ {q} : InSnapshot(u)' => local'[u].obj # local'[q].obj
    BY DEF NotYetKnown
  <2>1. InSnapshot(q) /\ local'[q].obj = local[q].obj /\ local[q].obj \in issued
    BY <1>2 DEF OnlyIssued
  <2>2. local[q].obj # None
    BY <2>1, IdsFinite DEF TypeOK
  <2>3. snap' # local'[q].obj /\ \A id \in Ids : base'[id] # local'[q].obj
    BY <2>1 DEF NotYetKnown
  <2>4. \A u \in Procs : local'[u].ref # local'[q].obj
    BY <1>1, <2>1, <2>2 DEF NotYetKnown
  <2>5. \A u \in Procs \ {q} : InSnapshot(u)' => local'[u].obj # local'[q].obj
    BY <1>2, <2>1 DEF NotYetKnown
  <2>6. QED BY <2>3, <2>4, <2>5
<1>6. QED BY <1>4, <1>5

\* Such a step that leaves the list of deltas alone and is not the INCR.
LEMMA PlainStep ==
    ASSUME TypeOK, Safe, NEW p \in Procs,
           UNCHANGED <<snap, issued, base, deltas, deltaCount, outlived>>,
           \A q \in Procs \ {p} : pc'[q] = pc[q] /\ local'[q] = local[q],
           local'[p].ref \in {None, local[p].ref, snap},
           local'[p].got \in {{}, local[p].got, deltas},
           InSnapshot(p)' => InSnapshot(p) /\ local'[p].obj = local[p].obj,
           InDelta(p)' => InDelta(p) /\ local'[p].obj = local[p].obj,
           pc[p] # "incr"
    PROVE  Safe'
<1>1. OnlyIssued' /\ NotYetKnown'
  BY KnownStep DEF Safe, OnlyIssued
<1>2. \A j \in Jobs : pc[j] = "incr" => pc'[j] = "incr" /\ local'[j] = local[j]
  BY DEF Procs
<1>3. Committed' \subseteq Committed
  BY <1>2 DEF Committed, At
<1>4. NoHiddenDelta'
  BY <1>3 DEF Safe, NoHiddenDelta, Current
<1>5. QED BY <1>1, <1>4 DEF Safe

\* A new object: its id is not known anywhere.
LEMMA StoredStep ==
    ASSUME TypeOK, Safe, NEW p \in Procs, NEW id \in Ids, NEW about \in {None, local[p].ref},
           Stored(p, id, about), pc[p] # "incr",
           \A q \in Procs \ {p} : pc'[q] = pc[q],
           UNCHANGED <<snap, deltas, deltaCount, outlived>>
    PROVE  Safe'
<1>1. /\ id \notin issued /\ issued' = issued \cup {id}
      /\ base' = [base EXCEPT ![id] = about]
      /\ local' = [local EXCEPT ![p].obj = id]
  BY DEF Stored
<1>2. /\ local'[p].obj = id /\ \A q \in Procs \ {p} : local'[q] = local[q]
      /\ \A q \in Procs : local'[q].ref = local[q].ref /\ local'[q].got = local[q].got
  <2>1. local[p] \in Locals
    BY DEF TypeOK
  <2>2. local'[p] = [local[p] EXCEPT !.obj = id] /\ \A q \in Procs \ {p} : local'[q] = local[q]
    BY <1>1 DEF TypeOK
  <2>3. local'[p].obj = id /\ local'[p].ref = local[p].ref /\ local'[p].got = local[p].got
    BY <2>1, <2>2 DEF Locals
  <2>4. QED BY <2>2, <2>3
<1>3. \A x \in Ids : base'[x] \in {base[x], about}
  BY <1>1 DEF TypeOK
<1>4. \A q \in Procs \ {p} : (InSnapshot(q)' <=> InSnapshot(q)) /\ (InDelta(q)' <=> InDelta(q))
  BY DEF InSnapshot, InDelta, TypeOK
<1>5. about \in issued \cup {None} /\ about # id
  BY <1>1, IdsFinite DEF Safe, OnlyIssued
<1>6. OnlyIssued'
  <2>1. \A q \in Procs : InSnapshot(q)' \/ InDelta(q)' => local'[q].obj \in issued'
    BY <1>1, <1>2, <1>4 DEF Safe, OnlyIssued
  <2>2. \A q \in Procs : local'[q].ref \in issued' \cup {None} /\ local'[q].got \subseteq issued'
    BY <1>1, <1>2 DEF Safe, OnlyIssued
  <2>3. \A x \in Ids : base'[x] \in issued' \cup {None}
    BY <1>1, <1>3, <1>5 DEF Safe, OnlyIssued
  <2>4. QED BY <1>1, <2>1, <2>2, <2>3 DEF Safe, OnlyIssued
<1>7. NotYetKnown'
  <2> SUFFICES ASSUME NEW q \in Procs, InSnapshot(q)'
               PROVE  /\ snap' # local'[q].obj
                      /\ \A x \in Ids : base'[x] # local'[q].obj
                      /\ \A u \in Procs : local'[u].ref # local'[q].obj
                      /\ \A u \in Procs \ {q} : InSnapshot(u)' => local'[u].obj # local'[q].obj
    BY DEF NotYetKnown
  <2>1. CASE q = p
    <3>1. snap # id /\ \A x \in Ids : base'[x] # id
      BY <1>1, <1>3, <1>5, IdsFinite DEF Safe, OnlyIssued
    <3>2. \A u \in Procs : local[u].ref # id
      BY <1>1, IdsFinite DEF Safe, OnlyIssued
    <3>3. \A u \in Procs \ {p} : InSnapshot(u) => local[u].obj # id
      BY <1>1 DEF Safe, OnlyIssued
    <3>4. QED BY <1>2, <1>4, <2>1, <3>1, <3>2, <3>3
  <2>2. CASE q # p
    <3>1. InSnapshot(q) /\ local'[q].obj = local[q].obj /\ local[q].obj \in issued
      BY <1>2, <1>4, <2>2 DEF Safe, OnlyIssued
    <3>2. local[q].obj # None /\ about # local[q].obj
      BY <3>1, IdsFinite DEF TypeOK, Safe, NotYetKnown
    <3>3. snap # local[q].obj /\ \A x \in Ids : base'[x] # local[q].obj
      BY <1>3, <3>1, <3>2 DEF Safe, NotYetKnown
    <3>4. \A u \in Procs : local'[u].ref # local[q].obj
      BY <1>2, <3>1 DEF Safe, NotYetKnown
    <3>5. \A u \in Procs \ {q} : InSnapshot(u)' => local'[u].obj # local[q].obj
      BY <1>1, <1>2, <1>4, <3>1 DEF Safe, NotYetKnown
    <3>6. QED BY <3>1, <3>3, <3>4, <3>5
  <2>3. QED BY <2>1, <2>2
<1>8. NoHiddenDelta'
  <2>1. \A j \in Jobs : pc[j] = "incr" => pc'[j] = "incr" /\ local'[j] = local[j]
    BY <1>2 DEF Procs, TypeOK
  <2>2. Committed' \subseteq Committed
    BY <2>1 DEF Committed, At
  <2>3. \A x \in deltas : base'[x] = base[x]
    BY <1>1 DEF TypeOK, Safe, OnlyIssued
  <2>4. QED BY <2>2, <2>3 DEF Safe, NoHiddenDelta, Current, Committed
<1>9. QED BY <1>6, <1>7, <1>8 DEF Safe

\* A registered snapshot was not known before, so no delta is based on it.
LEMMA ReplaceStep ==
    ASSUME TypeOK, Safe, NEW p \in Procs, InSnapshot(p), snap' = local[p].obj,
           deltas' \subseteq deltas, UNCHANGED <<issued, base>>, Return(p)
    PROVE  Safe'
<1>1. /\ \A q \in Procs \ {p} : local'[q] = local[q] /\ pc'[q] = pc[q]
      /\ pc'[p] = "idle" /\ local'[p].ref = None /\ local'[p].got = {}
  BY DEF Return, Goto, TypeOK, NoLocals
<1>2. ~InSnapshot(p)' /\ ~InDelta(p)'
  BY <1>1 DEF InSnapshot, InDelta
<1>3. \A q \in Procs \ {p} : (InSnapshot(q)' <=> InSnapshot(q)) /\ (InDelta(q)' <=> InDelta(q))
  BY <1>1 DEF InSnapshot, InDelta
<1>4. \A q \in Procs : /\ local'[q].ref \in {None, local[q].ref}
                       /\ local'[q].got \in {{}, local[q].got}
  BY <1>1
<1>5. OnlyIssued'
  <2>1. \A q \in Procs : InSnapshot(q)' \/ InDelta(q)' => local'[q].obj \in issued'
    BY <1>1, <1>2, <1>3 DEF Safe, OnlyIssued
  <2>2. \A q \in Procs : local'[q].ref \in issued' \cup {None} /\ local'[q].got \subseteq issued'
    BY <1>4 DEF Safe, OnlyIssued
  <2>3. QED BY <2>1, <2>2 DEF Safe, OnlyIssued
<1>6. NotYetKnown'
  <2> SUFFICES ASSUME NEW q \in Procs, InSnapshot(q)'
               PROVE  /\ snap' # local'[q].obj
                      /\ \A id \in Ids : base'[id] # local'[q].obj
                      /\ \A u \in Procs : local'[u].ref # local'[q].obj
                      /\ \A u \in Procs \ {q} : InSnapshot(u)' => local'[u].obj # local'[q].obj
    BY DEF NotYetKnown
  <2>1. q # p /\ InSnapshot(q) /\ local'[q] = local[q]
    BY <1>1, <1>2, <1>3
  <2>2. local[q].obj # None
    BY <2>1, IdsFinite DEF TypeOK, Safe, OnlyIssued
  <2>3. snap' # local[q].obj /\ \A id \in Ids : base[id] # local[q].obj
    BY <2>1 DEF Safe, NotYetKnown
  <2>4. \A u \in Procs : local'[u].ref # local[q].obj
    BY <1>4, <2>1, <2>2 DEF Safe, NotYetKnown
  <2>5. \A u \in Procs \ {q} : InSnapshot(u)' => local'[u].obj # local[q].obj
    BY <1>1, <1>2, <1>3, <2>1 DEF Safe, NotYetKnown
  <2>6. QED BY <2>1, <2>3, <2>4, <2>5
<1>7. NoHiddenDelta'
  BY DEF Safe, NotYetKnown, OnlyIssued, NoHiddenDelta, Current, Committed, TypeOK
<1>8. QED BY <1>5, <1>6, <1>7 DEF Safe

\* Every step keeps the invariant.
LEMMA SafeStep == RecordInv /\ [Next]_vars => Safe'
<1> SUFFICES ASSUME TypeOK, Safe, [Next]_vars PROVE Safe'
  BY DEF RecordInv, Safe
<1> USE DEF Procs, At, Goto, Return, InSnapshot, InDelta, NoLocals
<1>1. /\ pc \in [Procs -> JobPCs \cup AnalysisPCs \cup ReviewPCs] /\ local \in [Procs -> Locals]
      /\ \A p \in Procs : local[p] \in Locals
  BY DEF TypeOK
<1>2. CASE UNCHANGED <<snap, issued, base, deltas, deltaCount, outlived, pc, local>>
  BY <1>2 DEF Safe, OnlyIssued, NotYetKnown, NoHiddenDelta, Current, Committed
<1>3. CASE UNCHANGED vars \/ LockExpires
  BY <1>2, <1>3 DEF vars, record, requests, observed, LockExpires
<1>4. ASSUME NEW j \in Jobs, BulkDeferred(j)
      PROVE  Safe'
  BY <1>2, <1>4 DEF BulkDeferred, requests, observed
<1>5. ASSUME NEW j \in Jobs, NEW batch \in SUBSET Entries, BulkBegins(j, batch)
      PROVE  Safe'
  BY <1>1, <1>5, PlainStep DEF BulkBegins, record, requests, observed, Locals
<1>6. ASSUME NEW j \in Jobs, Baseline(j)
      PROVE  Safe'
  BY <1>1, <1>6, PlainStep DEF Baseline, record, requests, observed
<1>7. ASSUME NEW j \in Jobs, BulkAdd(j)
      PROVE  Safe'
  BY <1>1, <1>7, PlainStep DEF BulkAdd, record, requests, observed
<1>8. ASSUME NEW j \in Jobs, BulkCount(j)
      PROVE  Safe'
  BY <1>1, <1>8, PlainStep DEF BulkCount, record, requests, observed, Locals
<1>9. ASSUME NEW j \in Jobs, BulkReadSnapshot(j)
      PROVE  Safe'
  BY <1>1, <1>9, PlainStep DEF BulkReadSnapshot, record, requests, observed, Locals
<1>10. ASSUME NEW j \in Jobs, BulkNoSnapshot(j)
       PROVE  Safe'
  BY <1>1, <1>10, PlainStep DEF BulkNoSnapshot, record, requests, observed
<1>11. ASSUME NEW j \in Jobs, BulkMode(j)
       PROVE  Safe'
  BY <1>1, <1>11, PlainStep DEF BulkMode, record, requests, observed
<1>12. ASSUME NEW j \in Jobs, BulkStatus(j)
       PROVE  Safe'
  BY <1>1, <1>12, PlainStep DEF BulkStatus, record, requests, observed
<1>13. ASSUME NEW j \in Jobs, BulkDirtyCount(j)
       PROVE  Safe'
  BY <1>1, <1>13, PlainStep DEF BulkDirtyCount, record, requests, observed
<1>14. ASSUME NEW j \in Jobs, ResyncStart(j)
       PROVE  Safe'
  BY <1>1, <1>14, PlainStep DEF ResyncStart, record, requests, observed
<1>15. ASSUME NEW j \in Jobs, ResyncMark(j)
       PROVE  Safe'
  BY <1>1, <1>15, PlainStep DEF ResyncMark, record, requests, observed
<1>16. ASSUME NEW j \in Jobs, NEW id \in Ids, SnapshotStored(j, id)
       PROVE  Safe'
  <2>1. /\ Stored(j, id, None) /\ pc[j] # "incr"
        /\ UNCHANGED <<snap, deltas, deltaCount, outlived>>
        /\ \A q \in Procs \ {j} : pc'[q] = pc[q]
    BY <1>1, <1>16 DEF SnapshotStored, record, observed
  <2>2. j \in Procs /\ None \in {None, local[j].ref}
    OBVIOUS
  <2> HIDE DEF Procs
  <2>3. QED BY <2>1, <2>2, StoredStep
<1>17. ASSUME NEW j \in Jobs, SnapshotHead(j)
       PROVE  Safe'
  BY <1>1, <1>17, PlainStep DEF SnapshotHead, record, requests, observed
<1>18. ASSUME NEW j \in Jobs, SnapshotLooksAtLock(j)
       PROVE  Safe'
  BY <1>1, <1>18, PlainStep DEF SnapshotLooksAtLock, record, requests, observed, Locals
<1>19. ASSUME NEW j \in Jobs, SnapshotCommit(j)
       PROVE  Safe'
  BY <1>1, <1>19, ReplaceStep DEF SnapshotCommit, record, requests, observed
<1>20. ASSUME NEW j \in Jobs, FailLooksAtLock(j)
       PROVE  Safe'
  BY <1>2, <1>20 DEF FailLooksAtLock, record, requests, observed
<1>21. ASSUME NEW j \in Jobs, FailMark(j)
       PROVE  Safe'
  BY <1>2, <1>21 DEF FailMark, record, requests, observed
<1>22. ASSUME NEW j \in Jobs, NEW id \in Ids, DeltaStored(j, id)
       PROVE  Safe'
  <2>1. /\ Stored(j, id, local[j].ref) /\ pc[j] # "incr"
        /\ UNCHANGED <<snap, deltas, deltaCount, outlived>>
        /\ \A q \in Procs \ {j} : pc'[q] = pc[q]
    BY <1>1, <1>22 DEF DeltaStored, record, observed
  <2>2. j \in Procs /\ local[j].ref \in {None, local[j].ref}
    OBVIOUS
  <2> HIDE DEF Procs
  <2>3. QED BY <2>1, <2>2, StoredStep
<1>23. ASSUME NEW j \in Jobs, DeltaCheck(j)
       PROVE  Safe'
  BY <1>1, <1>23, PlainStep DEF DeltaCheck, record, requests, observed
<1>24. ASSUME NEW j \in Jobs, DeltaConflict(j)
       PROVE  Safe'
  BY <1>1, <1>24, PlainStep DEF DeltaConflict, record, requests, observed
<1>25. ASSUME NEW j \in Jobs, DeltaHead(j)
       PROVE  Safe'
  BY <1>1, <1>25, PlainStep DEF DeltaHead, record, requests, observed
<1>26. ASSUME NEW j \in Jobs, DeltaPush(j)
       PROVE  Safe'
  <2>1. local[j].obj \in issued
    BY <1>26 DEF DeltaPush, Safe, OnlyIssued
  <2>2. deltas' \subseteq issued
    BY <1>26, <2>1 DEF DeltaPush, Safe, OnlyIssued
  <2>3. OnlyIssued' /\ NotYetKnown'
    BY <1>1, <1>26, <2>2, KnownStep DEF DeltaPush, requests, Safe
  <2>4. pc'[j] = "incr" /\ \A i \in Jobs : pc[i] = "incr" => pc'[i] = "incr"
    BY <1>1, <1>26 DEF DeltaPush
  <2>5. Committed' \subseteq Committed
    BY <1>26, <2>4 DEF DeltaPush, Committed
  <2>6. NoHiddenDelta'
    BY <1>26, <2>5 DEF DeltaPush, requests, observed, Safe, NoHiddenDelta, Current
  <2>7. QED BY <2>3, <2>6 DEF Safe
<1>27. ASSUME NEW j \in Jobs, DeltaIncr(j)
       PROVE  Safe'
  <2>1. PICK tooBig \in BOOLEAN :
            local' = [local EXCEPT ![j].full = deltaCount' >= DeltaLimit \/ tooBig]
    BY <1>27, LargeDeltasBoolean DEF DeltaIncr
  <2>2. local'[j].ref = local[j].ref /\ \A q \in Procs \ {j} : local'[q] = local[q]
    BY <1>1, <2>1 DEF Locals
  <2>3. OnlyIssued' /\ NotYetKnown'
    BY <1>1, <1>27, <2>2, KnownStep DEF DeltaIncr, requests, Safe, OnlyIssued
  <2>4. deltaCount' # 0
    BY <1>27 DEF DeltaIncr, TypeOK
  <2>5. QED BY <2>3, <2>4 DEF Safe, NoHiddenDelta
<1>28. ASSUME NEW j \in Jobs, DeltaSrem(j)
       PROVE  Safe'
  BY <1>1, <1>28, PlainStep DEF DeltaSrem, record, requests, observed
<1>29. ASSUME NEW j \in Jobs, DeltaCountLeft(j)
       PROVE  Safe'
  BY <1>1, <1>29, PlainStep DEF DeltaCountLeft, record, requests, observed, Locals
<1>30. ASSUME NEW j \in Jobs, DeltaClose(j)
       PROVE  Safe'
  BY <1>1, <1>30, PlainStep DEF DeltaClose, record, requests, observed
<1>31. ASSUME NEW j \in Jobs, ResyncFails(j)
       PROVE  Safe'
  BY <1>1, <1>31, PlainStep DEF ResyncFails, record, requests, observed
<1>32. ASSUME NEW j \in Jobs, CommitTimesOut(j)
       PROVE  Safe'
  BY <1>2, <1>32 DEF CommitTimesOut, record, requests, observed
<1>33. ASSUME NEW j \in Jobs, DeltaFails(j)
       PROVE  Safe'
  BY <1>1, <1>33, PlainStep DEF DeltaFails, record, requests, observed
<1>34. ASSUME NEW a \in Analyses, NEW id \in Ids, AnalysisStored(a, id)
       PROVE  Safe'
  <2>1. /\ Stored(a, id, None) /\ pc[a] # "incr"
        /\ UNCHANGED <<snap, deltas, deltaCount, outlived>>
        /\ \A q \in Procs \ {a} : pc'[q] = pc[q]
    BY <1>1, <1>34 DEF AnalysisStored, record, observed
  <2>2. a \in Procs /\ None \in {None, local[a].ref}
    OBVIOUS
  <2> HIDE DEF Procs
  <2>3. QED BY <2>1, <2>2, StoredStep
<1>35. ASSUME NEW a \in Analyses, AnalysisFingerprint(a)
       PROVE  Safe'
  BY <1>1, <1>35, PlainStep DEF AnalysisFingerprint, record, requests, observed
<1>36. ASSUME NEW a \in Analyses, AnalysisClear(a)
       PROVE  Safe'
  <2>1. OnlyIssued' /\ NotYetKnown'
    BY <1>1, <1>36, KnownStep DEF AnalysisClear, requests, Safe
  <2>2. NoHiddenDelta'
    BY <1>36 DEF AnalysisClear, NoHiddenDelta, Current, Committed
  <2>3. QED BY <2>1, <2>2 DEF Safe
<1>37. ASSUME NEW a \in Analyses, AnalysisRegister(a)
       PROVE  Safe'
  BY <1>1, <1>37, ReplaceStep DEF AnalysisRegister, record, requests, observed
<1>38. ASSUME NEW r \in Reviews, ReviewGate(r)
       PROVE  Safe'
  BY <1>1, <1>38, PlainStep DEF ReviewGate, record, requests, observed, Locals
<1>39. ASSUME NEW r \in Reviews, ReviewPointer(r)
       PROVE  Safe'
  BY <1>1, <1>39, PlainStep DEF ReviewPointer, record, requests, observed, Locals
<1>40. ASSUME NEW r \in Reviews, ReviewList(r)
       PROVE  Safe'
  BY <1>1, <1>40, PlainStep DEF ReviewList, record, requests, observed, Locals
<1>41. ASSUME NEW r \in Reviews, ReviewMerge(r)
       PROVE  Safe'
  <2>1. local[r].got \in SUBSET Ids /\ Valid(r) \in SUBSET Ids
    BY <1>1 DEF Locals, Valid, Current
  <2>2. CASE UNCHANGED <<deltas, deltaCount, outlived>>
    BY <1>1, <1>41, <2>2, PlainStep DEF ReviewMerge, requests
  <2>3. CASE deltas' = Valid(r) /\ deltaCount' = Cardinality(Valid(r))
    <3>1. NoHiddenDelta'
      BY <2>1, <2>3, Counts DEF NoHiddenDelta, Current, Committed
    <3>2. deltas' \subseteq issued
      BY <1>1, <2>1, <2>3 DEF Valid, Current, Safe, OnlyIssued
    <3>3. OnlyIssued' /\ NotYetKnown'
      BY <1>1, <1>41, <3>2, KnownStep DEF ReviewMerge, requests, Safe
    <3>4. QED BY <3>1, <3>3 DEF Safe
  <2>4. QED BY <1>41, <2>2, <2>3 DEF ReviewMerge
<1>42. ASSUME NEW r \in Reviews, ReviewFails(r)
       PROVE  Safe'
  BY <1>1, <1>42, PlainStep DEF ReviewFails, record, requests, observed
<1>43. ASSUME NEW gone \in SUBSET dirty, DirtyExpires(gone)
       PROVE  Safe'
  BY <1>2, <1>43 DEF DirtyExpires, requests, observed
<1>44. CASE FiguresExpire \/ PendingExpires
  BY <1>2, <1>44 DEF FiguresExpire, PendingExpires, requests, observed
<1>45. CASE ListExpires
  BY <1>45 DEF ListExpires, requests, Safe, OnlyIssued, NotYetKnown, NoHiddenDelta, Current, Committed
<1>46. CASE DeltaCountExpires
  <2>1. OnlyIssued' /\ NotYetKnown'
    BY <1>46 DEF DeltaCountExpires, requests, Safe, OnlyIssued, NotYetKnown
  <2>2. NoHiddenDelta'
    BY <1>46 DEF DeltaCountExpires, NoHiddenDelta, Current, Committed
  <2> QED BY <2>1, <2>2 DEF Safe
<1>47. CASE SnapshotExpires
  <2>1. \A p \in Procs : InSnapshot(p) => local[p].obj # None
    BY IdsFinite DEF Safe, OnlyIssued, TypeOK
  <2>2. OnlyIssued' /\ NotYetKnown'
    BY <1>47, <2>1 DEF SnapshotExpires, requests, Safe, OnlyIssued, NotYetKnown
  <2>3. NoHiddenDelta'
    BY <1>47 DEF SnapshotExpires, NoHiddenDelta
  <2> QED BY <2>2, <2>3 DEF Safe
<1>48. QED
  BY <1>3, <1>4, <1>5, <1>6, <1>7, <1>8, <1>9, <1>10, <1>11, <1>12, <1>13,
     <1>14, <1>15, <1>16, <1>17, <1>18, <1>19, <1>20, <1>21, <1>22, <1>23,
     <1>24, <1>25, <1>26, <1>27, <1>28, <1>29, <1>30, <1>31, <1>32, <1>33,
     <1>34, <1>35, <1>36, <1>37, <1>38, <1>39, <1>40, <1>41, <1>42, <1>43,
     <1>44, <1>45, <1>46, <1>47,
     NextIsSteps DEF Steps

------------------------------------------------------------------------------
(* The theorems.                                                           *)

\* The invariant holds in every reachable state.
LEMMA Invariance == Spec => []RecordInv
<1>1. Init => RecordInv
  BY InitInv
<1>2. RecordInv /\ [Next]_vars => RecordInv'
  BY TypeStep, SafeStep DEF RecordInv, Safe
<1>3. QED BY <1>1, <1>2, PTL DEF Spec

\* The keys of a drawing and the variables of its handlers keep their types.
THEOREM RecordTypes == Spec => []TypeOK
<1>1. RecordInv => TypeOK
  BY DEF RecordInv
<1>2. QED BY <1>1, Invariance, PTL

\* Whatever commits, registrations, prunes and expiries run at the same time:
\* when deltaCount is zero, no committed delta of the current snapshot is in
\* the list, so that a review that skips the list misses nothing; unless the
\* zero is that of a count that expired before a list written anew without
\* EXPIRE (drawing_state_service.py 573-587).
THEOREM ZeroHidesNothing == Spec => []NoHiddenDelta
<1>1. RecordInv => NoHiddenDelta
  BY DEF RecordInv
<1>2. QED BY <1>1, Invariance, PTL

------------------------------------------------------------------------------
(* One worker.  While a single job writes, what the record says of itself   *)
(* is safe between its passes: the figure that a handler is about to write  *)
(* is one that covers what it counted, for nobody else adds to the dirty    *)
(* sets meanwhile, and a good status never stands over edits.  The reviews  *)
(* may run beside the job, and any key may expire.                          *)

Counting == {"count", "read", "fresh", "mode", "status", "dirtyCount", "left", "close"}
Dirtying == {"count", "read", "fresh", "mode", "status"}
Delivers == {"delta", "check", "conflict", "deltaHead", "push", "incr", "srem", "left", "close"}
Good == {"LATEST", "REVIEW_REQUIRED"}

CountInv(j) ==
    /\ pc[j] \in Counting \ {"count", "left"} => Cardinality(dirty) <= local[j].n
    /\ pc[j] \notin Counting => Cardinality(dirty) <= dirtyCount
GoodInv(j) ==
    /\ status = "LATEST" => deltas = {} \/ lasting
    /\ pc[j] \notin Dirtying /\ status \in Good => dirty = {}
    /\ pc[j] \in Delivers \cup {"dirtyCount"} => status \notin Good
ExactInv(j) == CountInv(j) /\ GoodInv(j)

\* A set that loses entries counts no more than before.
LEMMA FewerLeft ==
    ASSUME NEW D \in SUBSET Entries, NEW E \in SUBSET D
    PROVE  Cardinality(E) \in Nat /\ Cardinality(D) \in Nat /\ Cardinality(E) <= Cardinality(D)
BY EntriesFinite, FS_Subset, FS_CardinalityType

LEMMA ExactInit == ASSUME NEW j \in Jobs, Init PROVE ExactInv(j)
<1>1. pc[j] = "idle"
  BY DEF Init, Procs
<1>2. Cardinality({}) = 0
  BY FS_EmptySet
<1> QED BY <1>1, <1>2 DEF Init, ExactInv, CountInv, GoodInv, Counting, Delivers, Dirtying

\* A step that changes nothing of what the invariant speaks of; a review that
\* writes the list anew makes it one that lasts.
LEMMA ExactAside ==
    ASSUME NEW j \in Jobs, ExactInv(j),
           UNCHANGED <<status, dirty, dirtyCount>>,
           UNCHANGED <<deltas, lasting>> \/ deltas' = {} \/ lasting',
           pc'[j] = pc[j], local'[j] = local[j]
    PROVE  ExactInv(j)'
BY DEF ExactInv, CountInv, GoodInv

\* What the job has counted after a step of its own, and where it is.
Moves(j, to, n) == pc'[j] = to /\ local'[j].n = n

LEMMA CountedAre ==
    ASSUME local \in [Procs -> Locals], NEW p \in Procs
    PROVE  /\ \A v : [local EXCEPT ![p].batch = v][p].n = local[p].n
           /\ \A v : [local EXCEPT ![p].ref = v][p].n = local[p].n
           /\ \A v : [local EXCEPT ![p].n = v][p].n = v
           /\ \A v : [local EXCEPT ![p].obj = v][p].n = local[p].n
           /\ \A v : [local EXCEPT ![p].full = v][p].n = local[p].n
           /\ \A v : [local EXCEPT ![p].hit = v][p].n = local[p].n
           /\ \A v, w : [local EXCEPT ![p].n = v, ![p].full = w][p].n = v
           /\ [local EXCEPT ![p] = NoLocals][p].n = 0
<1>0. local[p] \in Locals
  OBVIOUS
<1>1. \A v : [local EXCEPT ![p].batch = v][p].n = local[p].n
  BY <1>0 DEF Locals
<1>2. \A v : [local EXCEPT ![p].ref = v][p].n = local[p].n
  BY <1>0 DEF Locals
<1>3. \A v : [local EXCEPT ![p].n = v][p].n = v
  BY <1>0 DEF Locals
<1>4. \A v : [local EXCEPT ![p].obj = v][p].n = local[p].n
  BY <1>0 DEF Locals
<1>5. \A v : [local EXCEPT ![p].full = v][p].n = local[p].n
  BY <1>0 DEF Locals
<1>6. \A v : [local EXCEPT ![p].hit = v][p].n = local[p].n
  BY <1>0 DEF Locals
<1>7. \A v, w : [local EXCEPT ![p].n = v, ![p].full = w][p].n = v
  BY <1>0 DEF Locals
<1>8. [local EXCEPT ![p] = NoLocals][p].n = 0
  BY DEF NoLocals
<1> QED BY <1>1, <1>3, <1>4, <1>5, <1>6, <1>7, <1>8

LEMMA BulkExact ==
    ASSUME NEW j \in Jobs, ExactInv(j), RecordInv, Bulk(j)
    PROVE  ExactInv(j)'
<1>1. /\ j \in Procs /\ pc \in [Procs -> JobPCs \cup AnalysisPCs \cup ReviewPCs]
      /\ local \in [Procs -> Locals] /\ Cardinality(dirty) \in Nat
  BY Counts DEF Procs, RecordInv, TypeOK
<1> USE DEF At, Goto, record, requests, observed
<1> USE DEF Counting, Dirtying, Delivers, Good
<1>3. CASE BulkAdd(j)
  <2>1. Moves(j, "count", local[j].n)
    BY <1>1, <1>3 DEF BulkAdd, Moves
  <2>2. CountInv(j)' /\ GoodInv(j)'
    BY <1>3, <2>1 DEF BulkAdd, Moves, ExactInv, CountInv, GoodInv
  <2> QED BY <2>2 DEF ExactInv
<1>4. CASE BulkCount(j)
  <2>1. Moves(j, "read", Cardinality(dirty))
    <3>1. PICK w : local' = [local EXCEPT ![j].n = Cardinality(dirty), ![j].full = w]
      BY <1>4 DEF BulkCount
    <3>2. [local EXCEPT ![j].n = Cardinality(dirty), ![j].full = w][j].n = Cardinality(dirty)
      BY <1>1, CountedAre
    <3>3. local'[j].n = Cardinality(dirty)
      BY <3>1, <3>2
    <3> QED BY <1>1, <1>4, <3>3 DEF BulkCount, Moves
  <2>2. CountInv(j)' /\ GoodInv(j)'
    BY <1>1, <1>4, <2>1 DEF BulkCount, Moves, ExactInv, CountInv, GoodInv
  <2> QED BY <2>2 DEF ExactInv
<1>5. CASE BulkReadSnapshot(j)
  <2>1. Moves(j, IF snap = None THEN "fresh" ELSE "mode", local[j].n)
    BY <1>1, <1>5, CountedAre DEF BulkReadSnapshot, Moves
  <2>2. CountInv(j)' /\ GoodInv(j)'
    BY <1>5, <2>1 DEF BulkReadSnapshot, Moves, ExactInv, CountInv, GoodInv
  <2> QED BY <2>2 DEF ExactInv
<1>6. CASE BulkNoSnapshot(j)
  <2>1. Moves(j, "start", local[j].n)
    BY <1>1, <1>6 DEF BulkNoSnapshot, Moves
  <2>2. CountInv(j)' /\ GoodInv(j)'
    BY <1>6, <2>1 DEF BulkNoSnapshot, Moves, ExactInv, CountInv, GoodInv
  <2> QED BY <2>2 DEF ExactInv
<1>7. CASE BulkMode(j)
  <2>1. Moves(j, "status", local[j].n)
    BY <1>1, <1>7 DEF BulkMode, Moves
  <2>2. CountInv(j)' /\ GoodInv(j)'
    BY <1>7, <2>1 DEF BulkMode, Moves, ExactInv, CountInv, GoodInv
  <2> QED BY <2>2 DEF ExactInv
<1>8. CASE BulkStatus(j)
  <2>1. Moves(j, "dirtyCount", local[j].n)
    BY <1>1, <1>8 DEF BulkStatus, Moves
  <2>2. CountInv(j)' /\ GoodInv(j)'
    BY <1>8, <2>1 DEF BulkStatus, Moves, ExactInv, CountInv, GoodInv
  <2> QED BY <2>2 DEF ExactInv
<1>9. CASE BulkDirtyCount(j)
  <2>1. Moves(j, IF local[j].full THEN "start" ELSE "delta", local[j].n)
    BY <1>1, <1>9 DEF BulkDirtyCount, Moves
  <2>2. CountInv(j)' /\ GoodInv(j)'
    BY <1>9, <2>1 DEF BulkDirtyCount, Moves, ExactInv, CountInv, GoodInv
  <2> QED BY <2>2 DEF ExactInv
<1> QED BY <1>3, <1>4, <1>5, <1>6, <1>7, <1>8, <1>9 DEF Bulk

LEMMA ResyncExact ==
    ASSUME NEW j \in Jobs, ExactInv(j), RecordInv, Resync(j) \/ ResyncFails(j)
    PROVE  ExactInv(j)'
<1>1. /\ j \in Procs /\ pc \in [Procs -> JobPCs \cup AnalysisPCs \cup ReviewPCs]
      /\ local \in [Procs -> Locals] /\ Cardinality({}) = 0 
  BY FS_EmptySet DEF Procs, RecordInv, TypeOK
<1> USE DEF At, Goto, Return, record, requests, observed
<1> USE DEF Counting, Dirtying, Delivers, Good
<1>3. CASE ResyncStart(j)
  <2>1. CASE lock = None
    <3>1. Moves(j, "mark", local[j].n)
      BY <1>1, <1>3, <2>1 DEF ResyncStart, Moves
    <3>2. CountInv(j)' /\ GoodInv(j)'
      BY <1>3, <3>1 DEF ResyncStart, Moves, ExactInv, CountInv, GoodInv
    <3> QED BY <3>2 DEF ExactInv
  <2>2. CASE lock # None
    <3>1. Moves(j, "idle", 0)
      BY <1>1, <1>3, <2>2, CountedAre DEF ResyncStart, Moves
    <3>2. CountInv(j)' /\ GoodInv(j)'
      BY <1>3, <3>1 DEF ResyncStart, Moves, ExactInv, CountInv, GoodInv
    <3> QED BY <3>2 DEF ExactInv
  <2> QED BY <2>1, <2>2
<1>4. CASE ResyncMark(j)
  <2>1. Moves(j, "snapshot", local[j].n)
    BY <1>1, <1>4 DEF ResyncMark, Moves
  <2>2. CountInv(j)' /\ GoodInv(j)'
    BY <1>4, <2>1 DEF ResyncMark, Moves, ExactInv, CountInv, GoodInv
  <2> QED BY <2>2 DEF ExactInv
<1>5. ASSUME NEW id \in Ids, SnapshotStored(j, id) PROVE ExactInv(j)'
  <2>1. Moves(j, "head", local[j].n)
    BY <1>1, <1>5, CountedAre DEF SnapshotStored, Stored, Moves
  <2>2. CountInv(j)' /\ GoodInv(j)'
    BY <1>1, <1>5, <2>1 DEF SnapshotStored, Moves, ExactInv, CountInv, GoodInv
  <2> QED BY <2>2 DEF ExactInv
<1>6. CASE SnapshotHead(j)
  <2>1. Moves(j, "look", local[j].n)
    BY <1>1, <1>6 DEF SnapshotHead, Moves
  <2>2. CountInv(j)' /\ GoodInv(j)'
    BY <1>6, <2>1 DEF SnapshotHead, Moves, ExactInv, CountInv, GoodInv
  <2> QED BY <2>2 DEF ExactInv
<1>7. CASE SnapshotLooksAtLock(j)
  <2>1. Moves(j, "commit", local[j].n)
    BY <1>1, <1>7, CountedAre DEF SnapshotLooksAtLock, Moves
  <2>2. CountInv(j)' /\ GoodInv(j)'
    BY <1>7, <2>1 DEF SnapshotLooksAtLock, Moves, ExactInv, CountInv, GoodInv
  <2> QED BY <2>2 DEF ExactInv
<1>8. CASE SnapshotCommit(j)
  <2>1. Moves(j, "idle", 0)
    BY <1>1, <1>8, CountedAre DEF SnapshotCommit, Moves
  <2>2. CountInv(j)' /\ GoodInv(j)'
    BY <1>1, <1>8, <2>1 DEF SnapshotCommit, Moves, CountInv, GoodInv
  <2> QED BY <2>2 DEF ExactInv
<1>9. CASE ResyncFails(j)
  <2>1. Moves(j, "idle", 0)
    BY <1>1, <1>9, CountedAre DEF ResyncFails, Moves
  <2>2. CountInv(j)' /\ GoodInv(j)'
    BY <1>9, <2>1 DEF ResyncFails, Moves, ExactInv, CountInv, GoodInv
  <2> QED BY <2>2 DEF ExactInv
<1> QED BY <1>3, <1>4, <1>5, <1>6, <1>7, <1>8, <1>9 DEF Resync

LEMMA DeltaExact ==
    ASSUME NEW j \in Jobs, ExactInv(j), RecordInv, Delta(j) \/ DeltaFails(j)
    PROVE  ExactInv(j)'
<1>1. /\ j \in Procs /\ pc \in [Procs -> JobPCs \cup AnalysisPCs \cup ReviewPCs]
      /\ local \in [Procs -> Locals] /\ dirty \in SUBSET Entries
      /\ local[j].n \in Nat /\ Cardinality(dirty) \in Nat
  BY Counts DEF Procs, RecordInv, TypeOK, Locals
<1>3. Cardinality(dirty) = 0 => dirty = {}
  BY <1>1, EntriesFinite, FS_Subset, FS_EmptySet
<1> USE DEF At, Goto, Return, record, requests, observed
<1> USE DEF Counting, Dirtying, Delivers, Good
<1>4. ASSUME NEW id \in Ids, DeltaStored(j, id) PROVE ExactInv(j)'
  <2>1. Moves(j, "check", local[j].n)
    BY <1>1, <1>4, CountedAre DEF DeltaStored, Stored, Moves
  <2>2. CountInv(j)' /\ GoodInv(j)'
    BY <1>1, <1>4, <2>1 DEF DeltaStored, Moves, ExactInv, CountInv, GoodInv
  <2> QED BY <2>2 DEF ExactInv
<1>5. CASE DeltaCheck(j)
  <2>1. Moves(j, IF snap # None /\ local[j].ref # snap THEN "conflict" ELSE "deltaHead", local[j].n)
    BY <1>1, <1>5 DEF DeltaCheck, Moves, ExactInv
  <2>2. CountInv(j)' /\ GoodInv(j)'
    BY <1>5, <2>1 DEF DeltaCheck, Moves, ExactInv, CountInv, GoodInv
  <2> QED BY <2>2 DEF ExactInv
<1>6. CASE DeltaConflict(j)
  <2>1. Moves(j, "idle", 0)
    BY <1>1, <1>6, CountedAre DEF DeltaConflict, Moves
  <2>2. CountInv(j)' /\ GoodInv(j)'
    BY <1>6, <2>1 DEF DeltaConflict, Moves, ExactInv, CountInv, GoodInv
  <2> QED BY <2>2 DEF ExactInv
<1>7. CASE DeltaHead(j)
  <2>1. Moves(j, "push", local[j].n)
    BY <1>1, <1>7 DEF DeltaHead, Moves
  <2>2. CountInv(j)' /\ GoodInv(j)'
    BY <1>7, <2>1 DEF DeltaHead, Moves, ExactInv, CountInv, GoodInv
  <2> QED BY <2>2 DEF ExactInv
<1>8. CASE DeltaPush(j)
  <2>1. Moves(j, "incr", local[j].n)
    BY <1>1, <1>8 DEF DeltaPush, Moves
  <2>2. CountInv(j)' /\ GoodInv(j)'
    BY <1>8, <2>1 DEF DeltaPush, Moves, ExactInv, CountInv, GoodInv
  <2> QED BY <2>2 DEF ExactInv
<1>9. CASE DeltaIncr(j)
  <2>1. Moves(j, "srem", local[j].n)
    <3>1. PICK w : local' = [local EXCEPT ![j].full = w]
      BY <1>9 DEF DeltaIncr
    <3>2. [local EXCEPT ![j].full = w][j].n = local[j].n
      BY <1>1, CountedAre
    <3>3. local'[j].n = local[j].n
      BY <3>1, <3>2
    <3> QED BY <1>1, <1>9, <3>3 DEF DeltaIncr, Moves
  <2>2. CountInv(j)' /\ GoodInv(j)'
    BY <1>9, <2>1 DEF DeltaIncr, Moves, ExactInv, CountInv, GoodInv
  <2> QED BY <2>2 DEF ExactInv
<1>10. CASE DeltaSrem(j)
  <2>1. Moves(j, "left", local[j].n)
    BY <1>1, <1>10 DEF DeltaSrem, Moves
  <2>2. CountInv(j)' /\ GoodInv(j)'
    BY <1>10, <2>1 DEF DeltaSrem, Moves, ExactInv, CountInv, GoodInv
  <2> QED BY <2>2 DEF ExactInv
<1>11. CASE DeltaCountLeft(j)
  <2>1. Moves(j, "close", Cardinality(dirty))
    BY <1>1, <1>11, CountedAre DEF DeltaCountLeft, Moves
  <2>2. CountInv(j)' /\ GoodInv(j)'
    BY <1>1, <1>11, <2>1 DEF DeltaCountLeft, Moves, ExactInv, CountInv, GoodInv
  <2> QED BY <2>2 DEF ExactInv
<1>12. CASE DeltaClose(j)
  <2>1. Moves(j, "idle", 0)
    BY <1>1, <1>12, CountedAre DEF DeltaClose, Moves
  <2>2. CountInv(j)' /\ GoodInv(j)'
    BY <1>1, <1>3, <1>12, <2>1 DEF DeltaClose, Moves, ExactInv, CountInv, GoodInv
  <2> QED BY <2>2 DEF ExactInv
<1>13. CASE DeltaFails(j)
  <2>1. Moves(j, "idle", 0)
    BY <1>1, <1>13, CountedAre DEF DeltaFails, Moves
  <2>2. CountInv(j)' /\ GoodInv(j)'
    BY <1>13, <2>1 DEF DeltaFails, Moves, ExactInv, CountInv, GoodInv
  <2> QED BY <2>2 DEF ExactInv
<1> QED BY <1>4, <1>5, <1>6, <1>7, <1>8, <1>9, <1>10, <1>11, <1>12, <1>13 DEF Delta

LEMMA AsksExact ==
    ASSUME NEW j \in Jobs, ExactInv(j), RecordInv, Asks(j)
    PROVE  ExactInv(j)'
<1>1. j \in Procs /\ pc \in [Procs -> JobPCs \cup AnalysisPCs \cup ReviewPCs] /\ local \in [Procs -> Locals]
  BY DEF Procs, RecordInv, TypeOK
<1> USE DEF At, Goto, record, requests, observed
<1> USE DEF Counting, Dirtying, Delivers, Good
<1>3. CASE BulkDeferred(j)
  BY <1>3, ExactAside DEF BulkDeferred
<1>4. ASSUME NEW batch \in SUBSET Entries, BulkBegins(j, batch) PROVE ExactInv(j)'
  <2>1. Moves(j, "add", local[j].n)
    BY <1>1, <1>4, CountedAre DEF BulkBegins, Moves
  <2>2. CountInv(j)' /\ GoodInv(j)'
    BY <1>4, <2>1 DEF BulkBegins, Moves, ExactInv, CountInv, GoodInv
  <2> QED BY <2>2 DEF ExactInv
<1>5. CASE Baseline(j)
  <2>1. Moves(j, "start", local[j].n)
    BY <1>1, <1>5 DEF Baseline, Moves
  <2>2. CountInv(j)' /\ GoodInv(j)'
    BY <1>5, <2>1 DEF Baseline, Moves, ExactInv, CountInv, GoodInv
  <2> QED BY <2>2 DEF ExactInv
<1> QED BY <1>3, <1>4, <1>5 DEF Asks

\* A refused or late commit is answered with resync/fail, whose status is not
\* one of the two good ones.
LEMMA FailExact ==
    ASSUME NEW j \in Jobs, ExactInv(j), RecordInv, Fail(j) \/ CommitTimesOut(j)
    PROVE  ExactInv(j)'
<1>1. CASE FailLooksAtLock(j)
  BY <1>1, ExactAside DEF FailLooksAtLock, record, observed
<1>2. CASE FailMark(j)
  <2>1. CountInv(j)' /\ GoodInv(j)'
    BY <1>2 DEF FailMark, observed, ExactInv, CountInv, GoodInv, Good
  <2> QED BY <2>1 DEF ExactInv
<1>3. CASE CommitTimesOut(j)
  BY <1>3, ExactAside DEF CommitTimesOut, record, observed
<1> QED BY <1>1, <1>2, <1>3 DEF Fail

\* A review touches the list only, and what it writes lasts.
LEMMA ReviewExact ==
    ASSUME NEW j \in Jobs, ExactInv(j), RecordInv, NEW r \in Reviews, Review(r)
    PROVE  ExactInv(j)'
<1>1. /\ j \in Procs /\ r \in Procs /\ r # j /\ pc \in [Procs -> JobPCs \cup AnalysisPCs \cup ReviewPCs]
      /\ local \in [Procs -> Locals]
  BY ProcsApart DEF Procs, RecordInv, TypeOK
<1> USE DEF At, Goto, Return, record, requests
<1>2. CASE ReviewGate(r) \/ ReviewPointer(r) \/ ReviewList(r) \/ ReviewFails(r)
  <2>1. pc'[j] = pc[j] /\ local'[j] = local[j]
    BY <1>1, <1>2 DEF ReviewGate, ReviewPointer, ReviewList, ReviewFails
  <2> QED BY <1>2, <2>1, ExactAside DEF ReviewGate, ReviewPointer, ReviewList, ReviewFails
<1>3. CASE ReviewMerge(r)
  <2>1. pc'[j] = pc[j] /\ local'[j] = local[j] /\ UNCHANGED <<status, dirty, dirtyCount>>
    BY <1>1, <1>3 DEF ReviewMerge
  <2>2. UNCHANGED <<deltas, lasting>> \/ deltas' = {} \/ lasting'
    BY <1>3 DEF ReviewMerge
  <2> QED BY <2>1, <2>2, ExactAside
<1> QED BY <1>2, <1>3 DEF Review

\* Sets expire entry by entry, the figures only once the sets are empty.
LEMMA ExpireExact ==
    ASSUME NEW j \in Jobs, ExactInv(j), RecordInv, Expire
    PROVE  ExactInv(j)'
<1>1. j \in Procs /\ dirty \in SUBSET Entries /\ Cardinality({}) = 0
  BY FS_EmptySet DEF Procs, RecordInv, TypeOK
<1> USE DEF At, requests, observed
<1>2. ASSUME NEW gone \in SUBSET dirty, DirtyExpires(gone) PROVE ExactInv(j)'
  <2>1. /\ dirty' \in SUBSET dirty
        /\ UNCHANGED <<pc, local, status, dirtyCount, deltas, lasting>>
    BY <1>2 DEF DirtyExpires
  <2>2. Cardinality(dirty') \in Nat /\ Cardinality(dirty) \in Nat /\ Cardinality(dirty') <= Cardinality(dirty)
    BY <1>1, <2>1, FewerLeft
  <2>3. local[j].n \in Nat /\ dirtyCount \in Nat
    BY <1>1 DEF RecordInv, TypeOK, Locals
  <2> QED BY <2>1, <2>2, <2>3 DEF ExactInv, CountInv, GoodInv
<1>3. CASE ListExpires \/ DeltaCountExpires \/ PendingExpires \/ SnapshotExpires
  BY <1>3, ExactAside DEF ListExpires, DeltaCountExpires, PendingExpires, SnapshotExpires
<1>4. CASE FiguresExpire
  <2>1. /\ dirty = {} /\ dirty' = {} /\ (deltas' = {} \/ lasting') /\ pc[j] \in {"idle", "add"}
        /\ UNCHANGED <<pc, local>> /\ dirtyCount' \in {dirtyCount, 0}
    BY <1>4 DEF FiguresExpire
  <2> QED BY <1>1, <2>1 DEF ExactInv, CountInv, GoodInv, Counting, Dirtying, Delivers
<1> QED BY <1>2, <1>3, <1>4 DEF Expire

LEMMA ExactNext ==
    ASSUME NEW j, Jobs = {j}, Analyses = {}, ExactInv(j), RecordInv, [Next]_vars
    PROVE  ExactInv(j)'
<1> j \in Jobs
  OBVIOUS
<1>1. CASE Asks(j) \/ Bulk(j) \/ Resync(j) \/ Fail(j) \/ Delta(j) \/ Mishap(j)
  BY <1>1, AsksExact, BulkExact, ResyncExact, FailExact, DeltaExact DEF Mishap
<1>2. ASSUME NEW r \in Reviews, Review(r) PROVE ExactInv(j)'
  BY <1>2, ReviewExact
<1>3. CASE LockExpires
  BY <1>3, ExactAside DEF LockExpires, requests, observed
<1>4. CASE Expire
  BY <1>4, ExpireExact
<1>5. CASE UNCHANGED vars
  BY <1>5, ExactAside DEF vars, record, requests, observed
<1> QED BY <1>1, <1>2, <1>3, <1>4, <1>5 DEF Next

\* While the plugin has one worker and no session is opened anew, the cached count
\* covers the dirty entries and the two good states that the UI and the gate go by
\* stand over none, whenever no request is under way: for any number of reviews
\* beside it, and whatever fails, times out or expires, key by key
\* (drawing_state_service.py 17-21, 124-218, 281-470).
THEOREM OneWorkerIsExact ==
    ASSUME NEW j, Jobs = {j}, Analyses = {}
    PROVE  Spec => []RecordIsExact
<1>1. Init => ExactInv(j)
  BY ExactInit
<1>2. ExactInv(j) /\ RecordInv /\ [Next]_vars => ExactInv(j)'
  BY ExactNext
<1>3. ExactInv(j) => RecordIsExact
  <2> SUFFICES ASSUME ExactInv(j), Quiet PROVE RecordIsExact
    BY DEF RecordIsExact
  <2>1. pc[j] = "idle"
    BY DEF Quiet, At, Procs
  <2> QED BY <2>1 DEF RecordIsExact, ExactInv, CountInv, GoodInv, Counting, Dirtying, Good
<1> QED BY <1>1, <1>2, <1>3, Invariance, PTL DEF Spec

------------------------------------------------------------------------------
(* A review is whole.  As long as the drawing is not replaced its snapshot  *)
(* stays or expires, and what another review or the clock takes off the     *)
(* list before this one reads it, it need not hand over; so what it has to  *)
(* reckon with is on the list when it reads it.  If it does not read it,    *)
(* the gate saw a zero.                                                     *)

Loading(r) ==
    /\ local[r].ref # None /\ snap \in {local[r].ref, None}
    /\ \A id \in seen[r] : id \in issued /\ base[id] = local[r].ref
    /\ pc[r] \in {"pointer", "list"} => seen[r] \subseteq deltas
    /\ pc[r] = "merge" => seen[r] \subseteq local[r].got
LoadingInv(r) == pc[r] \in {"idle", "pointer", "list", "merge"} /\ (pc[r] # "idle" /\ ~moved[r] => Loading(r))

\* A step that leaves the review where it is, or replaces the drawing under it.
LEMMA LoadingStays ==
    ASSUME NEW r \in Reviews, LoadingInv(r), pc'[r] = pc[r], local'[r] = local[r],
           seen'[r] \subseteq seen[r], \A id \in issued : base'[id] = base[id], issued \subseteq issued',
           \/ /\ snap' \in {snap, None} /\ moved'[r] = moved[r]
              /\ pc[r] \in {"pointer", "list"} /\ seen[r] \subseteq deltas => seen'[r] \subseteq deltas'
           \/ moved'[r] <=> ~At(r, "idle")
           \/ At(r, "idle")
    PROVE  LoadingInv(r)'
<1>1. SUFFICES ASSUME pc'[r] # "idle", ~moved'[r] PROVE Loading(r)'
  BY DEF LoadingInv
<1>2. /\ Loading(r) /\ snap' \in {snap, None}
      /\ pc[r] \in {"pointer", "list"} /\ seen[r] \subseteq deltas => seen'[r] \subseteq deltas'
  BY <1>1 DEF LoadingInv, At
<1> QED BY <1>1, <1>2 DEF Loading

\* No step of another makes the review miss a delta it has to reckon with.
LEMMA LoadingKept ==
    ASSUME NEW r \in Reviews, LoadingInv(r), RecordInv, RecordInv', [Next]_vars
    PROVE  LoadingInv(r)'
<1> r \in Procs /\ local[r] \in Locals
  BY DEF Procs, RecordInv, TypeOK
<1>0. /\ pc \in [Procs -> JobPCs \cup AnalysisPCs \cup ReviewPCs] /\ local \in [Procs -> Locals]
      /\ seen \in [Reviews -> SUBSET Ids] /\ moved \in [Reviews -> BOOLEAN] /\ base \in [Ids -> Ids \cup {None}]
      /\ deltas \subseteq issued /\ deltas \subseteq Ids
  BY DEF RecordInv, TypeOK, OnlyIssued
<1>a. \A j \in Jobs \cup Analyses : j # r /\ j \in Procs
  BY ProcsApart DEF Procs
<1> USE DEF At, Goto, Return, record, requests, observed
<1>1. ASSUME NEW j \in Jobs, Asks(j) \/ Bulk(j) \/ Fail(j) PROVE LoadingInv(r)'
  BY <1>0, <1>a, <1>1, LoadingStays
     DEF Asks, BulkDeferred, BulkBegins, Baseline, Bulk, BulkAdd, BulkCount, BulkReadSnapshot, BulkNoSnapshot,
         BulkMode, BulkStatus, BulkDirtyCount, Fail, FailLooksAtLock, FailMark
<1>2. ASSUME NEW j \in Jobs, Resync(j) PROVE LoadingInv(r)'
  <2>1. CASE ResyncStart(j) \/ ResyncMark(j) \/ SnapshotHead(j) \/ SnapshotLooksAtLock(j)
    BY <1>0, <1>a, <2>1, LoadingStays DEF ResyncStart, ResyncMark, SnapshotHead, SnapshotLooksAtLock
  <2>2. ASSUME NEW id \in Ids, SnapshotStored(j, id) PROVE LoadingInv(r)'
    BY <1>0, <1>a, <2>2, LoadingStays DEF SnapshotStored, Stored
  <2>3. CASE SnapshotCommit(j)
    BY <1>0, <1>a, <2>3, LoadingStays DEF SnapshotCommit, Replaced
  <2> QED BY <1>2, <2>1, <2>2, <2>3 DEF Resync
<1>3. ASSUME NEW j \in Jobs, Delta(j) \/ Mishap(j) PROVE LoadingInv(r)'
  <2>1. ASSUME NEW id \in Ids, DeltaStored(j, id) PROVE LoadingInv(r)'
    BY <1>0, <1>a, <2>1, LoadingStays DEF DeltaStored, Stored
  <2>2. CASE DeltaCheck(j) \/ DeltaConflict(j) \/ DeltaHead(j) \/ DeltaPush(j) \/ DeltaIncr(j)
    BY <1>0, <1>a, <2>2, LoadingStays DEF DeltaCheck, DeltaConflict, DeltaHead, DeltaPush, DeltaIncr
  <2>3. CASE DeltaSrem(j) \/ DeltaCountLeft(j) \/ DeltaClose(j) \/ Mishap(j)
    BY <1>0, <1>a, <2>3, LoadingStays
       DEF DeltaSrem, DeltaCountLeft, DeltaClose, Mishap, ResyncFails, CommitTimesOut, DeltaFails
  <2> QED BY <1>3, <2>1, <2>2, <2>3 DEF Delta
<1>4. ASSUME NEW a \in Analyses, Analysis(a) PROVE LoadingInv(r)'
  <2>1. ASSUME NEW id \in Ids, AnalysisStored(a, id) PROVE LoadingInv(r)'
    BY <1>0, <1>a, <2>1, LoadingStays DEF AnalysisStored, Stored
  <2>2. CASE AnalysisFingerprint(a) \/ AnalysisClear(a) \/ AnalysisRegister(a)
    BY <1>0, <1>a, <2>2, LoadingStays DEF AnalysisFingerprint, AnalysisClear, AnalysisRegister, Replaced
  <2> QED BY <1>4, <2>1, <2>2 DEF Analysis
<1>5. CASE LockExpires \/ Expire
  <2>1. ASSUME NEW gone \in SUBSET dirty, DirtyExpires(gone) PROVE LoadingInv(r)'
    BY <1>0, <2>1, LoadingStays DEF DirtyExpires
  <2>2. CASE ListExpires
    <3>1. /\ seen'[r] = IF pc[r] \in {"pointer", "list"} THEN {} ELSE seen[r]
          /\ UNCHANGED <<pc, local, snap, issued, base, moved>>
      BY <2>2 DEF ListExpires, OnlyLeft
    <3> QED BY <3>1, LoadingStays
  <2>3. CASE LockExpires \/ DeltaCountExpires \/ FiguresExpire \/ PendingExpires \/ SnapshotExpires
    BY <1>0, <2>3, LoadingStays
       DEF LockExpires, DeltaCountExpires, FiguresExpire, PendingExpires, SnapshotExpires
  <2> QED BY <1>5, <2>1, <2>2, <2>3 DEF Expire
<1>6. CASE Review(r)
  <2>1. CASE ReviewGate(r)
    <3>1. pc'[r] = (IF deltaCount > 0 THEN "pointer" ELSE "merge") /\ local'[r].ref = snap /\ snap # None
      BY <1>0, <2>1 DEF ReviewGate, Locals
    <3>2. seen'[r] \subseteq Current(Committed, snap) /\ seen'[r] \subseteq deltas
      BY <1>0, <2>1 DEF ReviewGate, Current, Committed
    <3>3. deltaCount = 0 => seen'[r] = {}
      BY <1>0, <2>1 DEF ReviewGate
    <3>4. deltaCount \in Nat
      BY DEF RecordInv, TypeOK
    <3>5. UNCHANGED <<snap, deltas, issued, base>>
      BY <2>1 DEF ReviewGate
    <3>6. \A id \in seen'[r] : id \in issued /\ base[id] = snap
      BY <1>0, <3>2 DEF Current
    <3> QED BY <3>1, <3>2, <3>3, <3>4, <3>5, <3>6 DEF LoadingInv, Loading
  <2>2. CASE ReviewPointer(r)
    <3>1. pc[r] = "pointer" /\ pc'[r] = "list" /\ local'[r].ref = snap /\ snap # None
      BY <1>0, <2>2 DEF ReviewPointer, Locals
    <3> QED BY <2>2, <3>1 DEF ReviewPointer, LoadingInv, Loading
  <2>3. CASE ReviewList(r)
    <3>1. pc[r] = "list" /\ pc'[r] = "merge" /\ local'[r].ref = local[r].ref /\ local'[r].got = deltas
      BY <1>0, <2>3 DEF ReviewList, Locals
    <3> QED BY <2>3, <3>1 DEF ReviewList, LoadingInv, Loading
  <2>4. CASE ReviewMerge(r) \/ ReviewFails(r)
    <3>1. pc'[r] = "idle"
      BY <1>0, <2>4 DEF ReviewMerge, ReviewFails
    <3> QED BY <3>1 DEF LoadingInv
  <2> QED BY <1>6, <2>1, <2>2, <2>3, <2>4 DEF Review
<1>7. ASSUME NEW q \in Reviews, q # r, Review(q) PROVE LoadingInv(r)'
  <2>1. q \in Procs /\ pc'[r] = pc[r] /\ local'[r] = local[r]
    BY <1>0, <1>7 DEF Procs, Review, ReviewGate, ReviewPointer, ReviewList, ReviewMerge, ReviewFails
  <2>2. UNCHANGED <<snap, issued, base>> /\ moved'[r] = moved[r]
    BY <1>0, <1>7 DEF Review, ReviewGate, ReviewPointer, ReviewList, ReviewMerge, ReviewFails
  <2>3. CASE ReviewMerge(q) /\ deltas' = Valid(q) /\ OnlyLeft(Valid(q))
    <3>1. seen'[r] = IF pc[r] \in {"pointer", "list"} THEN seen[r] \cap Valid(q) ELSE seen[r]
      BY <2>3 DEF OnlyLeft
    <3> QED BY <2>1, <2>2, <2>3, <3>1, LoadingStays
  <2>4. CASE UNCHANGED deltas /\ seen'[r] = seen[r]
    BY <2>1, <2>2, <2>4, LoadingStays
  <2> QED
    BY <1>0, <1>7, <2>3, <2>4 DEF Review, ReviewGate, ReviewPointer, ReviewList, ReviewMerge, ReviewFails
<1>8. CASE UNCHANGED vars
  BY <1>0, <1>8, LoadingStays DEF vars
<1> QED BY <1>1, <1>2, <1>3, <1>4, <1>5, <1>6, <1>7, <1>8 DEF Next

\* ReviewIsWhole as a step.
Merges == \A r \in Reviews : ReviewMerge(r) /\ ~moved[r] => seen[r] \subseteq Valid(r)

\* A review hands over every delta of its snapshot that was committed when it
\* passed its gate with a count, unless the drawing was replaced while it was
\* loading, and but for those that another review's prune or the list's expiry
\* had taken off the list before it read it: for any number of reviews, workers
\* and analyses, and whatever fails or expires beside it (agent_api.py 73-147,
\* drawing_state_service.py 529-600).
THEOREM ReviewsAreWhole == Spec => ReviewIsWhole
<1> DEFINE AllLoading == \A r \in Reviews : LoadingInv(r)
<1>1. Init => AllLoading
  BY DEF Init, LoadingInv, Procs
<1>2. AllLoading /\ RecordInv /\ RecordInv' /\ [Next]_vars => AllLoading'
  BY LoadingKept
<1>3. AllLoading => [Merges]_vars
  <2> SUFFICES ASSUME AllLoading, NEW r \in Reviews, ReviewMerge(r), ~moved[r]
               PROVE  seen[r] \subseteq Valid(r)
    BY DEF Merges
  <2>1. Loading(r) /\ pc[r] = "merge"
    BY DEF LoadingInv, ReviewMerge, At
  <2> QED BY <2>1 DEF Loading, Valid, Current
<1> HIDE DEF AllLoading
<1>4. Spec => []AllLoading
  BY <1>1, <1>2, Invariance, PTL DEF Spec
<1>5. Spec => [][Merges]_vars
  BY <1>3, <1>4, PTL DEF Spec
<1> QED BY <1>5 DEF ReviewIsWhole, Merges
==============================================================================
