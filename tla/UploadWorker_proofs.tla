------------------------- MODULE UploadWorker_proofs -------------------------
(***************************************************************************)
(* For any number of batches, drains, baselines and drawings: one worker   *)
(* at a time, every live batch in exactly one place, and the upload worker *)
(* implements BatchPipe.                                                   *)
(***************************************************************************)
EXTENDS UploadWorker, TLAPS

------------------------------------------------------------------------------
(* Sequences without repetition.                                           *)

\* Appending adds one element, and no repetition if it is a new one.
LEMMA AppendFacts ==
    ASSUME NEW S, NEW q \in Seq(S), NEW e \in S
    PROVE  /\ Append(q, e) \in Seq(S)
           /\ ToSet(Append(q, e)) = ToSet(q) \cup {e}
           /\ IsInjective(q) /\ e \notin ToSet(q) => IsInjective(Append(q, e))
<1> DEFINE r == Append(q, e)
<1>1. /\ r \in Seq(S) /\ Len(q) \in Nat /\ DOMAIN q = 1 .. Len(q)
      /\ DOMAIN r = 1 .. Len(q) + 1
      /\ \A i \in 1 .. Len(q) : r[i] = q[i]
      /\ r[Len(q) + 1] = e
  OBVIOUS
<1> HIDE DEF r
<1>2. ToSet(r) = ToSet(q) \cup {e}
  <2>1. \A i \in DOMAIN q : i \in DOMAIN r
    BY <1>1
  <2>2. ToSet(q) \cup {e} \subseteq ToSet(r)
    BY <1>1, <2>1 DEF ToSet
  <2>3. ASSUME NEW i \in DOMAIN r
        PROVE  r[i] \in ToSet(q) \cup {e}
    <3>1. i = Len(q) + 1 \/ i \in DOMAIN q
      BY <1>1
    <3>2. QED BY <3>1, <1>1 DEF ToSet
  <2>4. QED BY <2>2, <2>3 DEF ToSet
<1>3. IsInjective(q) /\ e \notin ToSet(q) => IsInjective(r)
  BY <1>1 DEF ToSet, IsInjective
<1>4. QED BY <1>1, <1>2, <1>3 DEF r

\* Taking the head off removes one element, for good if there is no repetition.
LEMMA TailFacts ==
    ASSUME NEW S, NEW q \in Seq(S), q # <<>>
    PROVE  /\ Head(q) \in S
           /\ Tail(q) \in Seq(S)
           /\ ToSet(q) = ToSet(Tail(q)) \cup {Head(q)}
           /\ IsInjective(q) => IsInjective(Tail(q)) /\ Head(q) \notin ToSet(Tail(q))
<1>1. /\ Head(q) = q[1] /\ Len(q) \in Nat /\ Len(q) > 0
      /\ DOMAIN q = 1 .. Len(q)
      /\ \A i \in 1 .. Len(q) : q[i] \in S
  OBVIOUS
<1>2. /\ Tail(q) \in Seq(S) /\ DOMAIN Tail(q) = 1 .. Len(q) - 1
      /\ \A i \in 1 .. Len(q) - 1 : Tail(q)[i] = q[i + 1]
  BY <1>1
<1>3. ToSet(q) = ToSet(Tail(q)) \cup {Head(q)}
  <2>1. ASSUME NEW i \in 1 .. Len(q)
        PROVE  q[i] \in ToSet(Tail(q)) \cup {Head(q)}
    <3>1. CASE i = 1
      BY <3>1, <1>1
    <3>2. CASE i # 1
      <4>1. i - 1 \in DOMAIN Tail(q) /\ q[i] = Tail(q)[i - 1]
        BY <3>2, <1>1, <1>2
      <4>2. QED BY <4>1 DEF ToSet
    <3>3. QED BY <3>1, <3>2
  <2>2. ASSUME NEW i \in DOMAIN Tail(q)
        PROVE  Tail(q)[i] \in ToSet(q)
    <3>1. i + 1 \in DOMAIN q /\ Tail(q)[i] = q[i + 1]
      BY <1>1, <1>2
    <3>2. QED BY <3>1 DEF ToSet
  <2>3. Head(q) \in ToSet(q)
    BY <1>1 DEF ToSet
  <2>4. QED BY <2>1, <2>2, <2>3, <1>1 DEF ToSet
<1>4. IsInjective(q) => IsInjective(Tail(q)) /\ Head(q) \notin ToSet(Tail(q))
  BY <1>1, <1>2 DEF ToSet, IsInjective
<1>5. QED BY <1>1, <1>2, <1>3, <1>4

------------------------------------------------------------------------------
(* The inductive invariant.                                                *)

InHand(b) == pc[b] \in {"enter", "refused", "enqueue"}

\* Which statements each kind of task has, and which locals are in use where.
Kinds ==
    /\ \A t \in Tasks : cur[t] # NoBatch <=> pc[t] = "send"
    /\ \A b \in Batches : pc[b] \notin {"drop", "restore", "snapshot"}
    /\ \A d \in Drainers : pc[d] \in {"idle", "loop", "send", "release", "check"}
    /\ \A s \in Baselines :
          /\ pc[s] \notin {"refused", "enqueue", "loop", "send"}
          /\ keep[s] # <<>> => pc[s] \in {"drop", "restore"}

\* No batch is held twice ...
HeldAtMostOnce ==
    /\ IsInjective(queue)
    /\ \A s \in Baselines :
          IsInjective(keep[s]) /\ ToSet(queue) \cap ToSet(keep[s]) = {}
    /\ \A t \in Tasks : cur[t] \notin ToSet(queue)
    /\ \A b \in Batches : InHand(b) =>
          /\ b \notin ToSet(queue)
          /\ \A s \in Baselines : b \notin ToSet(keep[s])
          /\ \A t \in Tasks : cur[t] # b

\* ... and the live ones are the held ones.
LiveIsHeld ==
    \A b \in Batches :
        /\ fate[b] = "live" <=>
              \/ InHand(b)
              \/ b \in ToSet(queue)
              \/ \E s \in Baselines : b \in ToSet(keep[s])
              \/ \E t \in Tasks : cur[t] = b
        /\ pc[b] = "idle" <=> fate[b] = "new"

WorkerInv == TypeOK /\ OneWorker /\ Kinds /\ HeldAtMostOnce /\ LiveIsHeld

------------------------------------------------------------------------------

\* The empty worker satisfies the invariant.
LEMMA InitInv == Init => WorkerInv
<1> SUFFICES ASSUME Init PROVE WorkerInv
  OBVIOUS
<1> USE DEF Init
<1>1. TypeOK
  BY DEF TypeOK, PCs, Fates
<1>2. OneWorker /\ Kinds
  BY DEF OneWorker, Inside, Critical, Kinds, Tasks
<1>3. ToSet(queue) = {} /\ IsInjective(queue)
  BY DEF ToSet, IsInjective
<1>4. \A s \in Baselines : ToSet(keep[s]) = {} /\ IsInjective(keep[s])
  BY DEF ToSet, IsInjective
<1>5. HeldAtMostOnce /\ LiveIsHeld
  <2>1. \A b \in Batches : pc[b] = "idle" /\ fate[b] = "new" /\ ~InHand(b)
    BY DEF InHand, Tasks
  <2>2. \A b \in Batches, t \in Tasks : cur[t] # b
    BY NamesApart
  <2>3. QED BY <1>3, <1>4, <2>1, <2>2 DEF HeldAtMostOnce, LiveIsHeld
<1>6. QED BY <1>1, <1>2, <1>5 DEF WorkerInv

\* One name for each kind of step, for the lemmas that go through them all.
Steps ==
    \/ ResetForDocumentSwitch
    \/ \E s \in Baselines, d \in Drawings : RefreshSnapshotBaseline(s, d)
    \/ \E b \in Batches : SubmitBatch(b) \/ RunEnter(b) \/ RunRefused(b) \/ RunEnqueue(b)
    \/ \E d \in Drainers : DrainEnter(d)
    \/ \E s \in Baselines :
          BaselineEnter(s) \/ SortOut(s) \/ SortedOut(s) \/ Restore(s) \/ BaselineSnapshot(s)
    \/ \E t \in Tasks :
          \/ Dequeue(t) \/ LoopEnds(t) \/ Release(t) \/ Kick(t)
          \/ Requeue(t) \/ SendThrows(t)
          \/ \E ending \in Endings : SendBatch(t, ending)

\* Every step of the worker is one of the steps the proof treats one by one.
LEMMA NextIsSteps == Next => Steps
BY DEF Next, Steps, Editor, RunTask, BaselineWork, Advance, Setback

\* Every step keeps the variables in their types.
LEMMA TypeStep == WorkerInv /\ [Next]_vars => TypeOK'
<1> SUFFICES ASSUME WorkerInv, [Next]_vars PROVE TypeOK'
  OBVIOUS
<1> USE DEF Goto, Tasks, Workers, PCs
<1>1. TypeOK /\ OneWorker /\ Kinds
  BY DEF WorkerInv
<1>2. CASE UNCHANGED vars
  BY <1>1, <1>2 DEF TypeOK, vars
<1>3. CASE ResetForDocumentSwitch
  BY <1>1, <1>3 DEF TypeOK, ResetForDocumentSwitch
<1>4. ASSUME NEW s \in Baselines, NEW d \in Drawings, RefreshSnapshotBaseline(s, d)
      PROVE  TypeOK'
  BY <1>1, <1>4 DEF TypeOK, RefreshSnapshotBaseline, Context
<1>5. ASSUME NEW b \in Batches, SubmitBatch(b)
      PROVE  TypeOK'
  BY <1>1, <1>5 DEF TypeOK, SubmitBatch, Fates
<1>6. ASSUME NEW b \in Batches, RunEnter(b)
      PROVE  TypeOK'
  <2>1. pc' \in [Tasks -> PCs]
    BY <1>1, <1>6 DEF TypeOK, RunEnter
  <2>2. sem' \in 0 .. 1
    <3>1. sem' = sem \/ (sem > 0 /\ sem' = sem - 1)
      BY <1>6 DEF RunEnter
    <3>2. sem \in 0 .. 1
      BY <1>1 DEF TypeOK
    <3>3. QED BY <3>1, <3>2
  <2>3. QED BY <1>1, <1>6, <2>1, <2>2 DEF TypeOK, RunEnter
<1>7. ASSUME NEW b \in Batches, RunRefused(b) \/ RunEnqueue(b)
      PROVE  TypeOK'
  <2>1. Append(queue, b) \in Seq(Batches)
    BY <1>1, AppendFacts DEF TypeOK
  <2>2. pc' \in [Tasks -> PCs]
    BY <1>1, <1>7 DEF TypeOK, RunRefused, RunEnqueue
  <2>3. QED BY <1>1, <1>7, <2>1, <2>2 DEF TypeOK, RunRefused, RunEnqueue
<1>8. ASSUME NEW d \in Drainers, DrainEnter(d)
      PROVE  TypeOK'
  <2>1. sem' \in 0 .. 1 /\ pc' \in [Tasks -> PCs]
    BY <1>1, <1>8 DEF TypeOK, DrainEnter
  <2>2. kicks' \in Nat
    BY <1>1, <1>8 DEF TypeOK, DrainEnter
  <2>3. QED BY <1>1, <1>8, <2>1, <2>2 DEF TypeOK, DrainEnter
<1>9. ASSUME NEW s \in Baselines, BaselineEnter(s) \/ SortedOut(s) \/ BaselineSnapshot(s)
      PROVE  TypeOK'
  <2>1. pc' \in [Tasks -> PCs]
    BY <1>1, <1>9 DEF TypeOK, BaselineEnter, SortedOut, BaselineSnapshot
  <2>2. sem' \in 0 .. 1
    <3>1. sem' = sem \/ (sem > 0 /\ sem' = sem - 1)
      BY <1>9 DEF BaselineEnter, SortedOut, BaselineSnapshot
    <3>2. sem \in 0 .. 1
      BY <1>1 DEF TypeOK
    <3>3. QED BY <3>1, <3>2
  <2>3. QED BY <1>1, <1>9, <2>1, <2>2 DEF TypeOK, BaselineEnter, SortedOut, BaselineSnapshot
<1>10. ASSUME NEW s \in Baselines, SortOut(s)
       PROVE  TypeOK'
  <2>1. Head(queue) \in Batches /\ Tail(queue) \in Seq(Batches)
    BY <1>1, <1>10, TailFacts DEF TypeOK, SortOut
  <2>2. Append(keep[s], Head(queue)) \in Seq(Batches)
    BY <1>1, <2>1, AppendFacts DEF TypeOK
  <2>3. keep' \in [Baselines -> Seq(Batches)] /\ fate' \in [Batches -> Fates]
    BY <1>1, <1>10, <2>1, <2>2 DEF TypeOK, SortOut, Fates
  <2>4. QED BY <1>1, <1>10, <2>1, <2>3 DEF TypeOK, SortOut
<1>11. ASSUME NEW s \in Baselines, Restore(s)
       PROVE  TypeOK'
  <2>1. CASE keep[s] = <<>>
    BY <1>1, <1>11, <2>1 DEF TypeOK, Restore
  <2>2. CASE keep[s] # <<>>
    <3>1. keep[s] \in Seq(Batches)
      BY <1>1 DEF TypeOK
    <3>2. Head(keep[s]) \in Batches /\ Tail(keep[s]) \in Seq(Batches)
      BY <2>2, <3>1, TailFacts
    <3>3. Append(queue, Head(keep[s])) \in Seq(Batches)
      BY <1>1, <3>2, AppendFacts DEF TypeOK
    <3>4. keep' \in [Baselines -> Seq(Batches)] /\ queue' \in Seq(Batches)
      BY <1>1, <1>11, <2>2, <3>2, <3>3 DEF TypeOK, Restore
    <3>5. QED BY <1>1, <1>11, <2>2, <3>4 DEF TypeOK, Restore
  <2>3. QED BY <2>1, <2>2
<1>12. ASSUME NEW t \in Tasks, Dequeue(t)
       PROVE  TypeOK'
  <2>1. Head(queue) \in Batches /\ Tail(queue) \in Seq(Batches)
    BY <1>1, <1>12, TailFacts DEF TypeOK, Dequeue
  <2>2. QED BY <1>1, <1>12, <2>1 DEF TypeOK, Dequeue
<1>13. ASSUME NEW t \in Tasks, LoopEnds(t) \/ Kick(t)
       PROVE  TypeOK'
  <2>1. kicks' \in Nat /\ pc' \in [Tasks -> PCs]
    BY <1>1, <1>13 DEF TypeOK, LoopEnds, Kick, Finished
  <2>2. failed' \in [Tasks -> BOOLEAN]
    BY <1>1, <1>13 DEF TypeOK, LoopEnds, Kick
  <2>3. QED BY <1>1, <1>13, <2>1, <2>2 DEF TypeOK, LoopEnds, Kick
<1>14. ASSUME NEW t \in Tasks, Release(t)
       PROVE  TypeOK'
  <2>1. sem = 0
    BY <1>1, <1>14 DEF TypeOK, OneWorker, Inside, Critical, Release
  <2>2. QED BY <1>1, <1>14, <2>1 DEF TypeOK, Release, Finished
<1>15. ASSUME NEW t \in Tasks, Requeue(t) \/ SendThrows(t)
       PROVE  TypeOK'
  <2>1. cur[t] \in Batches
    BY <1>1, <1>15 DEF TypeOK, Kinds, Requeue, SendThrows
  <2>2. Append(queue, cur[t]) \in Seq(Batches)
    BY <1>1, <2>1, AppendFacts DEF TypeOK
  <2>3. QED BY <1>1, <1>15, <2>2 DEF TypeOK, Requeue, SendThrows
<1>16. ASSUME NEW t \in Tasks, NEW ending \in Endings, SendBatch(t, ending)
       PROVE  TypeOK'
  BY <1>1, <1>16 DEF TypeOK, SendBatch, Fates
<1>17. QED
  BY <1>2, <1>3, <1>4, <1>5, <1>6, <1>7, <1>8, <1>9, <1>10, <1>11, <1>12, <1>13,
     <1>14, <1>15, <1>16, NextIsSteps DEF Steps

\* A step of one task keeps OneWorker when it stays on its side of the
\* semaphore, or crosses it while taking or giving back the permit.
LEMMA CrossingStep ==
    ASSUME TypeOK, OneWorker, NEW t \in Tasks, NEW to, pc' = [pc EXCEPT ![t] = to],
           \/ (pc[t] \in Critical <=> to \in Critical) /\ sem' = sem
           \/ pc[t] \notin Critical /\ to \in Critical /\ sem > 0 /\ sem' = sem - 1
           \/ pc[t] \in Critical /\ to \notin Critical /\ sem' = sem + 1
    PROVE  OneWorker'
<1>1. \A u \in Tasks : pc'[u] = IF u = t THEN to ELSE pc[u]
  BY DEF TypeOK
<1>2. sem \in {0, 1}
  BY DEF TypeOK
<1>3. CASE (pc[t] \in Critical <=> to \in Critical) /\ sem' = sem
  <2>1. Inside' = Inside
    BY <1>1, <1>3 DEF Inside, Critical
  <2>2. QED BY <1>3, <2>1 DEF OneWorker
<1>4. CASE pc[t] \notin Critical /\ to \in Critical /\ sem > 0 /\ sem' = sem - 1
  <2>1. sem = 1 /\ sem' = 0 /\ Inside = {}
    BY <1>2, <1>4 DEF OneWorker
  <2>2. Inside' = {t}
    BY <1>1, <1>4, <2>1 DEF Inside, Critical
  <2>3. QED BY <2>1, <2>2 DEF OneWorker
<1>5. CASE pc[t] \in Critical /\ to \notin Critical /\ sem' = sem + 1
  <2>1. t \in Inside
    BY <1>5 DEF Inside
  <2>2. sem = 0 /\ Inside = {t}
    BY <1>2, <2>1 DEF OneWorker
  <2>3. Inside' = {}
    BY <1>1, <1>5, <2>2 DEF Inside, Critical
  <2>4. QED BY <1>5, <2>2, <2>3 DEF OneWorker
<1>6. QED BY <1>3, <1>4, <1>5

\* Every step leaves at most one task past the semaphore.
LEMMA OneWorkerStep == WorkerInv /\ [Next]_vars => OneWorker'
<1> SUFFICES ASSUME WorkerInv, [Next]_vars PROVE OneWorker'
  OBVIOUS
<1> USE DEF Goto, Critical
<1>1. TypeOK /\ OneWorker /\ Kinds /\ sem \in {0, 1}
  BY DEF WorkerInv, TypeOK
<1>2. \A b \in Batches : b \in Tasks
  BY DEF Tasks
<1>3. \A s \in Baselines : s \in Tasks
  BY DEF Tasks
<1>4. \A d \in Drainers : d \in Tasks
  BY DEF Tasks
<1>5. CASE UNCHANGED <<sem, pc>>
  BY <1>1, <1>5 DEF OneWorker, Inside
<1>6. CASE UNCHANGED vars \/ ResetForDocumentSwitch
  BY <1>5, <1>6 DEF vars, ResetForDocumentSwitch
<1>7. ASSUME NEW s \in Baselines, NEW d \in Drawings, RefreshSnapshotBaseline(s, d)
      PROVE  OneWorker'
  BY <1>1, <1>3, <1>7, CrossingStep DEF RefreshSnapshotBaseline
<1>8. ASSUME NEW b \in Batches, SubmitBatch(b) \/ RunRefused(b) \/ RunEnqueue(b)
      PROVE  OneWorker'
  BY <1>1, <1>2, <1>8, CrossingStep DEF SubmitBatch, RunRefused, RunEnqueue
<1>9. ASSUME NEW b \in Batches, RunEnter(b)
      PROVE  OneWorker'
  <2>1. CASE sem > 0
    BY <1>1, <1>2, <1>9, <2>1, CrossingStep DEF RunEnter
  <2>2. CASE ~(sem > 0)
    BY <1>1, <1>2, <1>9, <2>2, CrossingStep DEF RunEnter
  <2>3. QED BY <2>1, <2>2
<1>10. ASSUME NEW d \in Drainers, DrainEnter(d)
       PROVE  OneWorker'
  <2>1. CASE sem > 0
    BY <1>1, <1>4, <1>10, <2>1, CrossingStep DEF DrainEnter
  <2>2. CASE ~(sem > 0)
    BY <1>5, <1>10, <2>2 DEF DrainEnter
  <2>3. QED BY <2>1, <2>2
<1>11. ASSUME NEW s \in Baselines,
              BaselineEnter(s) \/ SortedOut(s) \/ BaselineSnapshot(s)
       PROVE  OneWorker'
  BY <1>1, <1>3, <1>11, CrossingStep DEF BaselineEnter, SortedOut, BaselineSnapshot
<1>12. ASSUME NEW s \in Baselines, SortOut(s)
       PROVE  OneWorker'
  BY <1>5, <1>12 DEF SortOut
<1>13. ASSUME NEW s \in Baselines, Restore(s)
       PROVE  OneWorker'
  <2>1. CASE keep[s] = <<>>
    BY <1>1, <1>3, <1>13, <2>1, CrossingStep DEF Restore
  <2>2. CASE keep[s] # <<>>
    BY <1>5, <1>13, <2>2 DEF Restore
  <2>3. QED BY <2>1, <2>2
<1>14. ASSUME NEW t \in Tasks, Dequeue(t) \/ LoopEnds(t) \/ Requeue(t) \/ SendThrows(t)
       PROVE  OneWorker'
  BY <1>1, <1>14, CrossingStep DEF Dequeue, LoopEnds, Requeue, SendThrows
<1>15. ASSUME NEW t \in Tasks, NEW ending \in Endings, SendBatch(t, ending)
       PROVE  OneWorker'
  BY <1>1, <1>15, CrossingStep DEF SendBatch
<1>16. ASSUME NEW t \in Tasks, Release(t) \/ Kick(t)
       PROVE  OneWorker'
  BY <1>1, <1>16, CrossingStep DEF Release, Kick, Finished
<1>17. QED
  BY <1>6, <1>7, <1>8, <1>9, <1>10, <1>11, <1>12, <1>13, <1>14, <1>15, <1>16,
     NextIsSteps DEF Steps

\* Every step leaves each task among the statements of its kind.
LEMMA KindsStep == WorkerInv /\ [Next]_vars => Kinds'
<1> SUFFICES ASSUME WorkerInv, [Next]_vars PROVE Kinds'
  OBVIOUS
<1> USE NamesApart DEF Goto, Tasks
<1>1. /\ TypeOK /\ Kinds
      /\ pc \in [Tasks -> PCs] /\ cur \in [Tasks -> Batches \cup {NoBatch}]
      /\ keep \in [Baselines -> Seq(Batches)] /\ queue \in Seq(Batches)
  BY DEF WorkerInv, TypeOK
<1>2. CASE UNCHANGED vars \/ ResetForDocumentSwitch
  BY <1>1, <1>2 DEF Kinds, vars, ResetForDocumentSwitch
<1>3. ASSUME NEW s \in Baselines, NEW d \in Drawings, RefreshSnapshotBaseline(s, d)
      PROVE  Kinds'
  BY <1>1, <1>3 DEF Kinds, RefreshSnapshotBaseline
<1>4. ASSUME NEW b \in Batches,
             SubmitBatch(b) \/ RunEnter(b) \/ RunRefused(b) \/ RunEnqueue(b)
      PROVE  Kinds'
  <2>1. b \notin Drainers /\ b \notin Baselines
    OBVIOUS
  <2>2. UNCHANGED <<cur, keep>> /\ pc[b] # "send"
    BY <1>4 DEF SubmitBatch, RunEnter, RunRefused, RunEnqueue
  <2>3. PICK to \in {"enter", "enqueue", "refused", "done", "loop"} :
            pc' = [pc EXCEPT ![b] = to]
    <3>1. CASE SubmitBatch(b)
      BY <3>1 DEF SubmitBatch
    <3>2. CASE RunEnter(b)
      BY <3>2 DEF RunEnter
    <3>3. CASE RunRefused(b)
      BY <3>3 DEF RunRefused
    <3>4. CASE RunEnqueue(b)
      BY <3>4 DEF RunEnqueue
    <3>5. QED BY <1>4, <3>1, <3>2, <3>3, <3>4
  <2>4. QED BY <1>1, <2>1, <2>2, <2>3 DEF Kinds
<1>5. ASSUME NEW d \in Drainers, DrainEnter(d)
      PROVE  Kinds'
  <2>1. CASE sem > 0
    BY <1>1, <1>5, <2>1 DEF Kinds, DrainEnter
  <2>2. CASE ~(sem > 0)
    BY <1>1, <1>5, <2>2 DEF Kinds, DrainEnter
  <2>3. QED BY <2>1, <2>2
<1>6. ASSUME NEW s \in Baselines,
             BaselineEnter(s) \/ SortedOut(s) \/ BaselineSnapshot(s)
      PROVE  Kinds'
  <2>1. CASE BaselineEnter(s)
    BY <1>1, <2>1 DEF Kinds, BaselineEnter
  <2>2. CASE SortedOut(s)
    BY <1>1, <2>2 DEF Kinds, SortedOut
  <2>3. CASE BaselineSnapshot(s)
    BY <1>1, <2>3 DEF Kinds, BaselineSnapshot
  <2>4. QED BY <1>6, <2>1, <2>2, <2>3
<1>7. ASSUME NEW s \in Baselines, SortOut(s) \/ Restore(s)
      PROVE  Kinds'
  <2>1. \A u \in Baselines \ {s} : keep'[u] = keep[u]
    BY <1>1, <1>7 DEF SortOut, Restore
  <2>2. CASE SortOut(s)
    BY <1>1, <2>1, <2>2 DEF Kinds, SortOut
  <2>3. CASE Restore(s)
    BY <1>1, <2>1, <2>3 DEF Kinds, Restore
  <2>4. QED BY <1>7, <2>2, <2>3
<1>8. ASSUME NEW t \in Tasks, Dequeue(t)
      PROVE  Kinds'
  <2>1. Head(queue) \in Batches
    BY <1>1, <1>8, TailFacts DEF Dequeue
  <2>2. QED BY <1>1, <1>8, <2>1 DEF Kinds, Dequeue
<1>9. ASSUME NEW t \in Tasks, LoopEnds(t) \/ Requeue(t) \/ SendThrows(t)
      PROVE  Kinds'
  <2>1. CASE LoopEnds(t)
    BY <1>1, <2>1 DEF Kinds, LoopEnds
  <2>2. CASE Requeue(t)
    BY <1>1, <2>2 DEF Kinds, Requeue
  <2>3. CASE SendThrows(t)
    BY <1>1, <2>3 DEF Kinds, SendThrows
  <2>4. QED BY <1>9, <2>1, <2>2, <2>3
<1>10. ASSUME NEW t \in Tasks, NEW ending \in Endings, SendBatch(t, ending)
       PROVE  Kinds'
  BY <1>1, <1>10 DEF Kinds, SendBatch
<1>11. ASSUME NEW t \in Tasks, Release(t) \/ Kick(t)
       PROVE  Kinds'
  <2>1. CASE Release(t)
    BY <1>1, <2>1 DEF Kinds, Release, Finished
  <2>2. CASE Kick(t)
    BY <1>1, <2>2 DEF Kinds, Kick, Finished
  <2>3. QED BY <1>11, <2>1, <2>2
<1>12. QED
  BY <1>2, <1>3, <1>4, <1>5, <1>6, <1>7, <1>8, <1>9, <1>10, <1>11, NextIsSteps DEF Steps

\* Every step leaves each live batch in one place and the others in none.
LEMMA HeldStep == WorkerInv /\ [Next]_vars => HeldAtMostOnce' /\ LiveIsHeld'
<1> SUFFICES ASSUME WorkerInv, [Next]_vars PROVE HeldAtMostOnce' /\ LiveIsHeld'
  OBVIOUS
<1> USE NamesApart DEF Goto, Tasks, InHand
<1>1. /\ Kinds /\ HeldAtMostOnce /\ LiveIsHeld
      /\ pc \in [Tasks -> PCs] /\ cur \in [Tasks -> Batches \cup {NoBatch}]
      /\ keep \in [Baselines -> Seq(Batches)] /\ queue \in Seq(Batches)
      /\ fate \in [Batches -> Fates]
  BY DEF WorkerInv, TypeOK
<1>2. CASE UNCHANGED <<queue, keep, cur, fate, pc>>
  BY <1>1, <1>2 DEF HeldAtMostOnce, LiveIsHeld
<1>3. CASE UNCHANGED vars \/ ResetForDocumentSwitch
  BY <1>2, <1>3 DEF vars, ResetForDocumentSwitch
\* A step of a task that touches no batch.
<1>4. ASSUME NEW t \in Tasks, NEW to, UNCHANGED <<queue, keep, cur, fate>>,
             pc' = [pc EXCEPT ![t] = to],
             t \in Batches =>
                /\ pc[t] # "idle" /\ to # "idle"
                /\ pc[t] \in {"enter", "refused", "enqueue"}
                      <=> to \in {"enter", "refused", "enqueue"}
      PROVE  HeldAtMostOnce' /\ LiveIsHeld'
  <2>1. \A b \in Batches : InHand(b)' <=> InHand(b)
    BY <1>1, <1>4
  <2>2. \A b \in Batches : pc'[b] = "idle" <=> pc[b] = "idle"
    BY <1>1, <1>4
  <2>3. QED BY <1>1, <1>4, <2>1, <2>2 DEF HeldAtMostOnce, LiveIsHeld
<1>5. ASSUME NEW s \in Baselines, NEW d \in Drawings, RefreshSnapshotBaseline(s, d)
      PROVE  HeldAtMostOnce' /\ LiveIsHeld'
  BY <1>4, <1>5 DEF RefreshSnapshotBaseline
<1>6. ASSUME NEW b \in Batches, SubmitBatch(b)
      PROVE  HeldAtMostOnce' /\ LiveIsHeld'
  <2>1. /\ fate[b] = "new" /\ b \notin ToSet(queue)
        /\ \A s \in Baselines : b \notin ToSet(keep[s])
        /\ \A t \in Tasks : cur[t] # b
    BY <1>1, <1>6 DEF LiveIsHeld, SubmitBatch
  <2>2. /\ InHand(b)' /\ pc'[b] # "idle" /\ fate'[b] = "live"
        /\ \A c \in Batches \ {b} :
              (InHand(c)' <=> InHand(c)) /\ pc'[c] = pc[c] /\ fate'[c] = fate[c]
    BY <1>1, <1>6 DEF SubmitBatch
  <2>3. UNCHANGED <<queue, keep, cur>>
    BY <1>6 DEF SubmitBatch
  <2>4. QED BY <1>1, <2>1, <2>2, <2>3 DEF HeldAtMostOnce, LiveIsHeld
<1>7. ASSUME NEW b \in Batches, RunEnter(b)
      PROVE  HeldAtMostOnce' /\ LiveIsHeld'
  BY <1>4, <1>7 DEF RunEnter
<1>8. ASSUME NEW b \in Batches, RunRefused(b) \/ RunEnqueue(b)
      PROVE  HeldAtMostOnce' /\ LiveIsHeld'
  <2>1. /\ InHand(b) /\ fate[b] = "live" /\ b \notin ToSet(queue)
        /\ \A s \in Baselines : b \notin ToSet(keep[s])
        /\ \A t \in Tasks : cur[t] # b
    BY <1>1, <1>8 DEF HeldAtMostOnce, LiveIsHeld, RunRefused, RunEnqueue
  <2>2. ToSet(queue') = ToSet(queue) \cup {b} /\ IsInjective(queue')
    <3>1. queue' = Append(queue, b)
      BY <1>8 DEF RunRefused, RunEnqueue
    <3>2. queue \in Seq(Batches) /\ IsInjective(queue)
      BY <1>1 DEF HeldAtMostOnce
    <3>3. QED BY <2>1, <3>1, <3>2, AppendFacts
  <2>3. /\ ~InHand(b)' /\ pc'[b] # "idle"
        /\ \A c \in Batches \ {b} : (InHand(c)' <=> InHand(c)) /\ pc'[c] = pc[c]
    BY <1>1, <1>8 DEF RunRefused, RunEnqueue
  <2>4. UNCHANGED <<keep, cur, fate>>
    BY <1>8 DEF RunRefused, RunEnqueue
  <2>5. pc[b] # "idle"
    BY <1>8 DEF RunRefused, RunEnqueue
  <2>6. QED BY <1>1, <2>1, <2>2, <2>3, <2>4, <2>5 DEF HeldAtMostOnce, LiveIsHeld
<1>9. ASSUME NEW d \in Drainers, DrainEnter(d)
      PROVE  HeldAtMostOnce' /\ LiveIsHeld'
  <2>1. CASE sem > 0
    BY <1>4, <1>9, <2>1 DEF DrainEnter
  <2>2. CASE ~(sem > 0)
    BY <1>2, <1>9, <2>2 DEF DrainEnter
  <2>3. QED BY <2>1, <2>2
<1>10. ASSUME NEW s \in Baselines,
              BaselineEnter(s) \/ SortedOut(s) \/ BaselineSnapshot(s)
       PROVE  HeldAtMostOnce' /\ LiveIsHeld'
  BY <1>4, <1>10 DEF BaselineEnter, SortedOut, BaselineSnapshot
\* A step that takes the head off the queue.
<1>11. ASSUME queue # <<>>, queue' = Tail(queue)
       PROVE  /\ Head(queue) \in Batches /\ fate[Head(queue)] = "live"
              /\ ToSet(queue) = ToSet(queue') \cup {Head(queue)}
              /\ Head(queue) \notin ToSet(queue') /\ IsInjective(queue')
              /\ ~InHand(Head(queue))
              /\ \A s \in Baselines : Head(queue) \notin ToSet(keep[s])
              /\ \A t \in Tasks : cur[t] # Head(queue)
  <2>1. /\ Head(queue) \in Batches
        /\ ToSet(queue) = ToSet(queue') \cup {Head(queue)}
        /\ Head(queue) \notin ToSet(queue') /\ IsInjective(queue')
    BY <1>1, <1>11, TailFacts DEF HeldAtMostOnce
  <2>2. QED BY <1>1, <2>1 DEF HeldAtMostOnce, LiveIsHeld
<1>12. ASSUME NEW s \in Baselines, SortOut(s)
       PROVE  HeldAtMostOnce' /\ LiveIsHeld'
  <2> DEFINE h == Head(queue)
  <2>1. /\ h \in Batches /\ fate[h] = "live" /\ ToSet(queue) = ToSet(queue') \cup {h}
        /\ h \notin ToSet(queue') /\ IsInjective(queue') /\ ~InHand(h)
        /\ \A u \in Baselines : h \notin ToSet(keep[u])
        /\ \A t \in Tasks : cur[t] # h
    BY <1>11, <1>12 DEF SortOut
  <2>2. UNCHANGED <<pc, cur>>
    BY <1>12 DEF SortOut
  <2> HIDE DEF h
  <2>3. CASE Keeps(s, h)
    <3>1. UNCHANGED fate /\ keep' = [keep EXCEPT ![s] = Append(keep[s], h)]
      BY <1>12, <2>3 DEF SortOut, h
    <3>2. /\ ToSet(keep'[s]) = ToSet(keep[s]) \cup {h} /\ IsInjective(keep'[s])
          /\ \A u \in Baselines \ {s} : keep'[u] = keep[u]
      <4>1. keep[s] \in Seq(Batches) /\ keep'[s] = Append(keep[s], h)
        BY <1>1, <3>1
      <4>2. IsInjective(keep[s]) /\ h \notin ToSet(keep[s])
        BY <1>1, <2>1 DEF HeldAtMostOnce
      <4>3. \A u \in Baselines \ {s} : keep'[u] = keep[u]
        BY <1>1, <3>1
      <4>4. QED BY <2>1, <4>1, <4>2, <4>3, AppendFacts
    <3>3. HeldAtMostOnce'
      <4>1. \A u \in Baselines :
               IsInjective(keep'[u]) /\ ToSet(queue') \cap ToSet(keep'[u]) = {}
        <5>1. \A u \in Baselines :
                 IsInjective(keep[u]) /\ ToSet(queue) \cap ToSet(keep[u]) = {}
          BY <1>1 DEF HeldAtMostOnce
        <5>2. QED BY <2>1, <3>2, <5>1
      <4>2. \A u \in Tasks : cur'[u] \notin ToSet(queue')
        BY <1>1, <2>1, <2>2 DEF HeldAtMostOnce
      <4>3. \A b \in Batches : InHand(b)' =>
               /\ b \notin ToSet(queue')
               /\ \A u \in Baselines : b \notin ToSet(keep'[u])
               /\ \A t \in Tasks : cur'[t] # b
        BY <1>1, <2>1, <2>2, <3>2 DEF HeldAtMostOnce
      <4>4. QED BY <2>1, <4>1, <4>2, <4>3 DEF HeldAtMostOnce
    <3>4. \A b \in Batches :
             (\E u \in Baselines : b \in ToSet(keep'[u]))
                <=> b = h \/ \E u \in Baselines : b \in ToSet(keep[u])
      BY <3>2
    <3>5. LiveIsHeld'
      BY <1>1, <2>1, <2>2, <3>1, <3>4 DEF LiveIsHeld
    <3>6. QED BY <3>3, <3>5
  <2>4. CASE ~Keeps(s, h)
    <3>1. UNCHANGED keep /\ fate' = [fate EXCEPT ![h] = "superseded"]
      BY <1>12, <2>4 DEF SortOut, h
    <3>2. /\ fate'[h] = "superseded" /\ \A b \in Batches \ {h} : fate'[b] = fate[b]
      BY <1>1, <2>1, <3>1
    <3>3. HeldAtMostOnce'
      BY <1>1, <2>1, <2>2, <3>1 DEF HeldAtMostOnce
    <3>4. LiveIsHeld'
      BY <1>1, <2>1, <2>2, <3>1, <3>2 DEF LiveIsHeld
    <3>5. QED BY <3>3, <3>4
  <2>5. QED BY <2>3, <2>4
<1>13. ASSUME NEW s \in Baselines, Restore(s)
       PROVE  HeldAtMostOnce' /\ LiveIsHeld'
  <2>1. CASE keep[s] = <<>>
    BY <1>4, <1>13, <2>1 DEF Restore
  <2>2. CASE keep[s] # <<>>
    <3> DEFINE h == Head(keep[s])
    <3>1. keep[s] \in Seq(Batches) /\ IsInjective(keep[s])
      BY <1>1 DEF HeldAtMostOnce
    <3>2. /\ UNCHANGED <<pc, cur, fate>> /\ queue' = Append(queue, h)
          /\ keep' = [keep EXCEPT ![s] = Tail(keep[s])]
      BY <1>13, <2>2 DEF Restore
    <3>3. /\ h \in Batches /\ ToSet(keep[s]) = ToSet(Tail(keep[s])) \cup {h}
          /\ h \notin ToSet(Tail(keep[s])) /\ IsInjective(Tail(keep[s]))
      BY <2>2, <3>1, TailFacts
    <3> HIDE DEF h
    <3>4. keep'[s] = Tail(keep[s]) /\ \A u \in Baselines \ {s} : keep'[u] = keep[u]
      BY <1>1, <3>2
    <3>5. \A u \in Baselines \ {s} : ToSet(keep[u]) = {}
      <4>1. s \in Inside
        BY <1>13 DEF Restore, Inside, Critical
      <4>2. \A u \in Baselines \ {s} : u \notin Inside
        BY <4>1 DEF WorkerInv, OneWorker
      <4>3. \A u \in Baselines \ {s} : keep[u] = <<>>
        BY <1>1, <4>2 DEF Kinds, Inside, Critical
      <4>4. QED BY <4>3 DEF ToSet
    <3>6. /\ h \notin ToSet(queue) /\ ~InHand(h) /\ \A t \in Tasks : cur[t] # h
          /\ fate[h] = "live"
      <4>1. h \in ToSet(keep[s])
        BY <3>3
      <4>2. fate[h] = "live" /\ ~InHand(h) /\ h \notin ToSet(queue)
        BY <1>1, <3>3, <4>1 DEF HeldAtMostOnce, LiveIsHeld
      <4>3. \A t \in Tasks : cur[t] = NoBatch
        <5>1. s \in Inside
          BY <1>13 DEF Restore, Inside, Critical
        <5>2. \A t \in Tasks \ {s} : pc[t] # "send"
          BY <5>1 DEF WorkerInv, OneWorker, Inside, Critical
        <5>3. pc[s] # "send"
          BY <1>13 DEF Restore
        <5>4. QED BY <1>1, <5>2, <5>3 DEF Kinds
      <4>4. QED BY <3>3, <4>2, <4>3
    <3>7. ToSet(queue') = ToSet(queue) \cup {h} /\ IsInjective(queue')
      BY <1>1, <3>2, <3>3, <3>6, AppendFacts DEF HeldAtMostOnce
    <3>8. HeldAtMostOnce'
      BY <1>1, <3>2, <3>3, <3>4, <3>5, <3>6, <3>7 DEF HeldAtMostOnce
    <3>9. \A b \in Batches :
             (b \in ToSet(queue') \/ \E u \in Baselines : b \in ToSet(keep'[u]))
                <=> (b \in ToSet(queue) \/ \E u \in Baselines : b \in ToSet(keep[u]))
      BY <3>3, <3>4, <3>5, <3>7
    <3>10. LiveIsHeld'
      BY <1>1, <3>2, <3>9 DEF LiveIsHeld
    <3>11. QED BY <3>8, <3>10
  <2>3. QED BY <2>1, <2>2
<1>14. ASSUME NEW t \in Tasks, Dequeue(t)
       PROVE  HeldAtMostOnce' /\ LiveIsHeld'
  <2> DEFINE h == Head(queue)
  <2>1. /\ h \in Batches /\ fate[h] = "live" /\ ToSet(queue) = ToSet(queue') \cup {h}
        /\ h \notin ToSet(queue') /\ IsInjective(queue') /\ ~InHand(h)
        /\ \A u \in Baselines : h \notin ToSet(keep[u])
        /\ \A u \in Tasks : cur[u] # h
    BY <1>11, <1>14 DEF Dequeue
  <2>2. /\ UNCHANGED <<keep, fate>> /\ pc[t] = "loop"
        /\ pc' = [pc EXCEPT ![t] = "send"] /\ cur' = [cur EXCEPT ![t] = h]
    BY <1>14 DEF Dequeue
  <2> HIDE DEF h
  <2>3. /\ cur'[t] = h /\ cur[t] = NoBatch
        /\ \A u \in Tasks \ {t} : cur'[u] = cur[u]
    BY <1>1, <2>2 DEF Kinds
  <2>4. \A b \in Batches : (InHand(b)' <=> InHand(b)) /\ (pc'[b] = "idle" <=> pc[b] = "idle")
    BY <1>1, <2>2
  <2>5. HeldAtMostOnce'
    BY <1>1, <2>1, <2>2, <2>3, <2>4 DEF HeldAtMostOnce
  <2>6. \A b \in Batches : (\E u \in Tasks : cur'[u] = b) <=> b = h \/ \E u \in Tasks : cur[u] = b
    BY <2>3
  <2>7. LiveIsHeld'
    BY <1>1, <2>1, <2>2, <2>4, <2>6 DEF LiveIsHeld
  <2>8. QED BY <2>5, <2>7
<1>15. ASSUME NEW t \in Tasks, LoopEnds(t) \/ Release(t) \/ Kick(t)
       PROVE  HeldAtMostOnce' /\ LiveIsHeld'
  BY <1>4, <1>15 DEF LoopEnds, Release, Kick, Finished
\* A task that is done with its batch held it, and no other task does.
<1>16. ASSUME NEW t \in Tasks, pc[t] = "send", cur' = [cur EXCEPT ![t] = NoBatch]
       PROVE  /\ cur[t] \in Batches /\ fate[cur[t]] = "live" /\ ~InHand(cur[t])
              /\ cur[t] \notin ToSet(queue)
              /\ \A s \in Baselines : cur[t] \notin ToSet(keep[s])
              /\ \A b \in Batches : (\E u \in Tasks : cur'[u] = b)
                                       <=> b # cur[t] /\ \E u \in Tasks : cur[u] = b
              /\ \A u \in Tasks : cur'[u] \in {cur[u], NoBatch}
  <2>1. cur[t] \in Batches
    BY <1>1, <1>16 DEF Kinds
  <2>2. t \in Inside
    BY <1>16 DEF Inside, Critical
  <2>3. \A u \in Tasks \ {t} : pc[u] # "send" /\ cur[u] = NoBatch
    BY <1>1, <2>2 DEF WorkerInv, OneWorker, Inside, Critical, Kinds
  <2>4. \A s \in Baselines : ToSet(keep[s]) = {}
    <3>1. \A s \in Baselines : s \notin Inside
      BY <1>1, <1>16, <2>2 DEF WorkerInv, OneWorker, Kinds
    <3>2. \A s \in Baselines : keep[s] = <<>>
      BY <1>1, <3>1 DEF Kinds, Inside, Critical
    <3>3. QED BY <3>2 DEF ToSet
  <2>5. fate[cur[t]] = "live" /\ ~InHand(cur[t]) /\ cur[t] \notin ToSet(queue)
    BY <1>1, <2>1 DEF HeldAtMostOnce, LiveIsHeld
  <2>6. QED BY <1>1, <1>16, <2>1, <2>3, <2>4, <2>5
<1>17. ASSUME NEW t \in Tasks, Requeue(t) \/ SendThrows(t)
       PROVE  HeldAtMostOnce' /\ LiveIsHeld'
  <2>1. /\ UNCHANGED <<keep, fate>> /\ pc[t] = "send" /\ queue' = Append(queue, cur[t])
        /\ cur' = [cur EXCEPT ![t] = NoBatch]
        /\ pc' = [pc EXCEPT ![t] = "loop"] \/ pc' = [pc EXCEPT ![t] = "release"]
    BY <1>17 DEF Requeue, SendThrows
  <2>2. /\ cur[t] \in Batches /\ fate[cur[t]] = "live" /\ ~InHand(cur[t])
        /\ cur[t] \notin ToSet(queue)
        /\ \A s \in Baselines : cur[t] \notin ToSet(keep[s])
        /\ \A b \in Batches : (\E u \in Tasks : cur'[u] = b)
                                 <=> b # cur[t] /\ \E u \in Tasks : cur[u] = b
        /\ \A u \in Tasks : cur'[u] \in {cur[u], NoBatch}
    BY <1>16, <2>1
  <2>3. ToSet(queue') = ToSet(queue) \cup {cur[t]} /\ IsInjective(queue')
    BY <1>1, <2>1, <2>2, AppendFacts DEF HeldAtMostOnce
  <2>4. \A b \in Batches : (InHand(b)' <=> InHand(b)) /\ (pc'[b] = "idle" <=> pc[b] = "idle")
    BY <1>1, <2>1
  <2>5. \A u \in Tasks : cur'[u] # cur[t]
    BY <2>2
  <2>6. NoBatch \notin ToSet(queue')
    <3>1. NoBatch \notin ToSet(queue)
      BY <1>1, NamesApart DEF ToSet
    <3>2. cur[t] # NoBatch
      BY <2>2, NamesApart
    <3>3. QED BY <2>3, <3>1, <3>2
  <2>7. HeldAtMostOnce'
    BY <1>1, <2>1, <2>2, <2>3, <2>4, <2>5, <2>6 DEF HeldAtMostOnce
  <2>8. LiveIsHeld'
    BY <1>1, <2>1, <2>2, <2>3, <2>4 DEF LiveIsHeld
  <2>9. QED BY <2>7, <2>8
<1>18. ASSUME NEW t \in Tasks, NEW ending \in Endings, SendBatch(t, ending)
       PROVE  HeldAtMostOnce' /\ LiveIsHeld'
  <2>1. /\ UNCHANGED <<keep, queue>> /\ pc[t] = "send"
        /\ cur' = [cur EXCEPT ![t] = NoBatch]
        /\ fate' = [fate EXCEPT ![cur[t]] = ending]
        /\ pc' = [pc EXCEPT ![t] = "loop"]
    BY <1>18 DEF SendBatch
  <2>2. /\ cur[t] \in Batches /\ fate[cur[t]] = "live" /\ ~InHand(cur[t])
        /\ cur[t] \notin ToSet(queue)
        /\ \A s \in Baselines : cur[t] \notin ToSet(keep[s])
        /\ \A b \in Batches : (\E u \in Tasks : cur'[u] = b)
                                 <=> b # cur[t] /\ \E u \in Tasks : cur[u] = b
        /\ \A u \in Tasks : cur'[u] \in {cur[u], NoBatch}
    BY <1>16, <2>1
  <2>3. \A b \in Batches : (InHand(b)' <=> InHand(b)) /\ (pc'[b] = "idle" <=> pc[b] = "idle")
    BY <1>1, <2>1
  <2>4. /\ fate'[cur[t]] = ending /\ ending \notin {"live", "new"}
        /\ \A b \in Batches \ {cur[t]} : fate'[b] = fate[b]
    BY <1>1, <2>1, <2>2 DEF Endings
  <2>5. NoBatch \notin ToSet(queue)
    BY <1>1 DEF ToSet
  <2>6. HeldAtMostOnce'
    BY <1>1, <2>1, <2>2, <2>3, <2>5 DEF HeldAtMostOnce
  <2>7. LiveIsHeld'
    BY <1>1, <2>1, <2>2, <2>3, <2>4 DEF LiveIsHeld
  <2>8. QED BY <2>6, <2>7
<1>19. QED
  BY <1>3, <1>5, <1>6, <1>7, <1>8, <1>9, <1>10, <1>12, <1>13, <1>14, <1>15, <1>17,
     <1>18, NextIsSteps DEF Steps

------------------------------------------------------------------------------
(* The theorems.                                                           *)

\* The worker invariant is inductive.
LEMMA InvStep == WorkerInv /\ [Next]_vars => WorkerInv'
<1> SUFFICES ASSUME WorkerInv, [Next]_vars PROVE WorkerInv'
  OBVIOUS
<1>1. TypeOK' /\ OneWorker'
  BY TypeStep, OneWorkerStep
<1>2. Kinds'
  BY KindsStep
<1>3. HeldAtMostOnce' /\ LiveIsHeld'
  BY HeldStep
<1>4. QED BY <1>1, <1>2, <1>3 DEF WorkerInv

\* It holds in every reachable state.
LEMMA Invariance == Spec => []WorkerInv
<1>1. Init => WorkerInv
  BY InitInv
<1>2. WorkerInv /\ [Next]_vars => WorkerInv'
  BY InvStep
<1>3. QED BY <1>1, <1>2, PTL DEF Spec

\* Every variable of the upload worker keeps its type, the semaphore's count
\* stays 0 or 1 (no path of a finally block releases twice).
THEOREM WorkerTypes == Spec => []TypeOK
<1>1. WorkerInv => TypeOK
  BY DEF WorkerInv
<1>2. QED BY <1>1, Invariance, PTL

\* At most one task at a time is between WaitAsync and Release, however many
\* commands end, drains are kicked and contexts are refreshed.
THEOREM WorkerMutex == Spec => []OneWorker
<1>1. WorkerInv => OneWorker
  BY DEF WorkerInv
<1>2. QED BY <1>1, Invariance, PTL

\* The reading of the invariant as places: live batches have exactly one.
LEMMA HeldOnceFromInv == WorkerInv => HeldOnce
<1> SUFFICES ASSUME WorkerInv, NEW b \in Batches
             PROVE  /\ fate[b] = "live" <=> Places(b) # {}
                    /\ \A x, y \in Places(b) : x = y
  BY DEF HeldOnce
<1> DEFINE Hand == {<<"hand", t, 0>> : t \in {b} \cap {c \in Batches : pc[c] \in {"enter", "refused", "enqueue"}}}
           Sent == {<<"sent", t, 0>> : t \in {t \in Tasks : cur[t] = b}}
           Queued == {<<"queue", b, i>> : i \in {i \in DOMAIN queue : queue[i] = b}}
           Kept == UNION {{<<"keep", s, i>> : i \in {i \in DOMAIN keep[s] : keep[s][i] = b}} : s \in Baselines}
<1>1. Places(b) = Hand \cup Sent \cup Queued \cup Kept
  BY DEF Places
<1>2. Kinds /\ HeldAtMostOnce /\ LiveIsHeld /\ OneWorker
  BY DEF WorkerInv
<1>3. /\ Hand # {} <=> InHand(b)
      /\ Sent # {} <=> \E t \in Tasks : cur[t] = b
      /\ Queued # {} <=> b \in ToSet(queue)
      /\ Kept # {} <=> \E s \in Baselines : b \in ToSet(keep[s])
  <2>1. Hand # {} <=> InHand(b)
    BY DEF InHand
  <2>2. Sent # {} <=> \E t \in Tasks : cur[t] = b
    OBVIOUS
  <2>3. Queued # {} <=> b \in ToSet(queue)
    BY DEF ToSet
  <2>4. ASSUME NEW s \in Baselines
        PROVE  {i \in DOMAIN keep[s] : keep[s][i] = b} # {} <=> b \in ToSet(keep[s])
    BY DEF ToSet
  <2>5. Kept # {} <=> \E s \in Baselines : {i \in DOMAIN keep[s] : keep[s][i] = b} # {}
    <3>1. ASSUME NEW s \in Baselines, NEW i \in DOMAIN keep[s], keep[s][i] = b
          PROVE  <<"keep", s, i>> \in Kept
      BY <3>1
    <3>2. ASSUME NEW x \in Kept
          PROVE  \E s \in Baselines : \E i \in DOMAIN keep[s] : keep[s][i] = b
      OBVIOUS
    <3> HIDE DEF Kept
    <3>3. QED BY <3>1, <3>2
  <2>6. QED BY <2>1, <2>2, <2>3, <2>4, <2>5
<1>4. fate[b] = "live" <=> Places(b) # {}
  BY <1>1, <1>2, <1>3 DEF LiveIsHeld
<1>5. \A t, u \in Tasks : pc[t] \in Critical /\ pc[u] \in Critical => t = u
  BY <1>2 DEF OneWorker, Inside
<1>6. \A t \in Tasks : cur[t] = b => pc[t] = "send" /\ pc[t] \in Critical
  BY <1>2, NamesApart DEF Kinds, Critical
<1>7. \A s \in Baselines : b \in ToSet(keep[s]) =>
         s \in Tasks /\ pc[s] \in Critical /\ pc[s] # "send"
  <2>1. \A s \in Baselines : b \in ToSet(keep[s]) => keep[s] # <<>>
    BY DEF ToSet
  <2>2. QED BY <1>2, <2>1 DEF Kinds, Critical, Tasks
<1>8. \A x, y \in Hand : x = y
  OBVIOUS
<1>9. \A x, y \in Sent : x = y
  BY <1>5, <1>6
<1>10. \A x, y \in Queued : x = y
  BY <1>2 DEF HeldAtMostOnce, IsInjective
<1>11. \A x, y \in Kept : x = y
  <2>1. SUFFICES ASSUME NEW s \in Baselines, NEW i \in DOMAIN keep[s], keep[s][i] = b,
                        NEW u \in Baselines, NEW j \in DOMAIN keep[u], keep[u][j] = b
                 PROVE  s = u /\ i = j
    OBVIOUS
  <2>2. b \in ToSet(keep[s]) /\ b \in ToSet(keep[u])
    BY <2>1 DEF ToSet
  <2>3. s = u
    BY <1>5, <1>7, <2>2
  <2>4. QED BY <1>2, <2>1, <2>3 DEF HeldAtMostOnce, IsInjective
<1>12. /\ Sent = {} \/ Kept = {}
       /\ Sent = {} \/ Queued = {}
       /\ Queued = {} \/ Kept = {}
       /\ Hand = {} \/ (Sent = {} /\ Queued = {} /\ Kept = {})
  <2>1. ~((\E t \in Tasks : cur[t] = b) /\ \E s \in Baselines : b \in ToSet(keep[s]))
    BY <1>5, <1>6, <1>7
  <2>2. ~((\E t \in Tasks : cur[t] = b) /\ b \in ToSet(queue))
    BY <1>2 DEF HeldAtMostOnce
  <2>3. ~(b \in ToSet(queue) /\ \E s \in Baselines : b \in ToSet(keep[s]))
    BY <1>2 DEF HeldAtMostOnce
  <2>4. InHand(b) => /\ b \notin ToSet(queue)
                     /\ ~\E t \in Tasks : cur[t] = b
                     /\ ~\E s \in Baselines : b \in ToSet(keep[s])
    BY <1>2 DEF HeldAtMostOnce
  <2>5. QED BY <1>3, <2>1, <2>2, <2>3, <2>4
<1> HIDE DEF Hand, Sent, Queued, Kept
<1>13. \A x, y \in Places(b) : x = y
  BY <1>1, <1>8, <1>9, <1>10, <1>11, <1>12
<1>14. QED BY <1>4, <1>13

\* No batch is lost and none is sent twice: a live batch is in exactly one
\* place, whatever failed and whoever was refused the semaphore.
THEOREM NothingLostNothingTwice == Spec => []HeldOnce
<1>1. QED BY HeldOnceFromInv, Invariance, PTL

------------------------------------------------------------------------------
(* The refinement.                                                         *)

Pending == InPipe \ Sending
Active == IF Sending = {} THEN NoBatch ELSE CHOOSE b \in Sending : TRUE

\* What the abstract worker holds, read off the tasks.
LEMMA ActiveFacts ==
    ASSUME WorkerInv
    PROVE  /\ \A t \in Tasks : pc[t] = "send" =>
                 cur[t] \in Batches /\ Sending = {cur[t]} /\ Active = cur[t]
           /\ \A t \in Tasks : pc[t] \in Critical \ {"send"} => Sending = {} /\ Active = NoBatch
           /\ Sending \subseteq InPipe
<1>1. /\ Kinds /\ OneWorker /\ LiveIsHeld
      /\ cur \in [Tasks -> Batches \cup {NoBatch}]
  BY DEF WorkerInv, TypeOK
<1>2. ASSUME NEW t \in Tasks, pc[t] \in Critical
      PROVE  \A u \in Tasks \ {t} : cur[u] = NoBatch
  BY <1>1, <1>2 DEF OneWorker, Inside, Kinds, Critical
<1>3. ASSUME NEW t \in Tasks, pc[t] = "send"
      PROVE  cur[t] \in Batches /\ Sending = {cur[t]} /\ Active = cur[t]
  <2>1. cur[t] \in Batches
    BY <1>1, <1>3 DEF Kinds
  <2>2. Sending = {cur[t]}
    BY <1>2, <1>3, <2>1, NamesApart DEF Sending, Critical
  <2>3. QED BY <2>1, <2>2 DEF Active
<1>4. ASSUME NEW t \in Tasks, pc[t] \in Critical \ {"send"}
      PROVE  Sending = {} /\ Active = NoBatch
  <2>1. cur[t] = NoBatch
    BY <1>1, <1>4 DEF Kinds
  <2>2. QED BY <1>2, <1>4, <2>1, NamesApart DEF Sending, Active
<1>5. Sending \subseteq InPipe
  BY <1>1 DEF Sending, InPipe, LiveIsHeld
<1>6. QED BY <1>3, <1>4, <1>5

\* The tasks start as an empty pipe.
LEMMA PipeInit == Init => Pipe!Init
<1> SUFFICES ASSUME Init PROVE Pipe!Init
  OBVIOUS
<1>1. InPipe = {} /\ Sending = {}
  BY NamesApart DEF Init, InPipe, Sending
<1>2. QED BY <1>1 DEF Init, Pipe!Init

\* Every step of a task is a step of the pipe, or is not seen in it.
LEMMA PipeStep == WorkerInv /\ WorkerInv' /\ [Next]_vars => [Pipe!Next]_(Pipe!pipeVars)
<1> SUFFICES ASSUME WorkerInv, WorkerInv', [Next]_vars
             PROVE  Pipe!Next \/ UNCHANGED <<Pending, Active, fate>>
  BY DEF Pipe!pipeVars, Pending, Active
<1> USE DEF Tasks, Goto
<1>1. /\ fate \in [Batches -> Fates] /\ cur \in [Tasks -> Batches \cup {NoBatch}]
      /\ pc \in [Tasks -> PCs] /\ queue \in Seq(Batches) /\ LiveIsHeld /\ HeldAtMostOnce
  BY DEF WorkerInv, TypeOK
<1>2. CASE UNCHANGED <<fate, cur>>
  BY <1>2 DEF Pending, Active, InPipe, Sending
<1>3. ASSUME NEW b \in Batches, SubmitBatch(b)
      PROVE  Pipe!Next
  <2>1. /\ fate[b] = "new" /\ b \notin Sending
        /\ UNCHANGED cur /\ fate' = [fate EXCEPT ![b] = "live"]
    BY <1>1, <1>3 DEF SubmitBatch, LiveIsHeld, Sending
  <2>2. InPipe' = InPipe \cup {b} /\ UNCHANGED <<Sending, Active>>
    BY <1>1, <2>1 DEF InPipe, Sending, Active
  <2>3. Pending' = Pending \cup {b}
    BY <2>1, <2>2 DEF Pending
  <2>4. Pipe!Submit(b)
    BY <2>1, <2>2, <2>3 DEF Pipe!Submit, Pending, Active
  <2>5. QED BY <2>4 DEF Pipe!Next
<1>4. ASSUME NEW t \in Tasks, Dequeue(t)
      PROVE  Pipe!Next
  <2> DEFINE h == Head(queue)
  <2>1. h \in Batches /\ h \in ToSet(queue) /\ pc[t] = "loop" /\ pc'[t] = "send"
    BY <1>1, <1>4, TailFacts DEF Dequeue
  <2>2. cur'[t] = h /\ UNCHANGED fate
    BY <1>1, <1>4 DEF Dequeue
  <2> HIDE DEF h
  <2>3. fate[h] = "live"
    BY <1>1, <2>1 DEF LiveIsHeld
  <2>4. Sending = {} /\ Active = NoBatch
    BY <2>1, ActiveFacts DEF Critical
  <2>5. Sending' = {h} /\ Active' = h
    <3>1. /\ Kinds /\ cur' = [cur EXCEPT ![t] = h]
          /\ \A u \in Tasks : cur[u] = NoBatch
      <4>1. Kinds /\ cur' = [cur EXCEPT ![t] = h]
        BY <1>4 DEF WorkerInv, Dequeue, h
      <4>2. \A u \in Tasks \ {t} : pc[u] # "send"
        BY <2>1 DEF WorkerInv, OneWorker, Inside, Critical
      <4>3. \A u \in Tasks : pc[u] # "send"
        BY <2>1, <4>2
      <4>4. QED BY <4>1, <4>3 DEF Kinds
    <3>2. Sending' = {h}
      BY <1>1, <2>1, <2>2, <3>1, NamesApart DEF Sending
    <3>3. QED BY <3>2 DEF Active
  <2>6. h \in Pending /\ Pending' = Pending \ {h}
    BY <2>1, <2>2, <2>3, <2>4, <2>5 DEF Pending, InPipe
  <2>7. Pipe!Take(h)
    BY <2>1, <2>2, <2>4, <2>5, <2>6 DEF Pipe!Take, Pending, Active
  <2>8. QED BY <2>1, <2>7 DEF Pipe!Next
\* A task that lays its batch down.
<1>5. ASSUME NEW t \in Tasks, pc[t] = "send", cur' = [cur EXCEPT ![t] = NoBatch]
      PROVE  /\ cur[t] \in Batches /\ cur[t] \in InPipe
             /\ Sending = {cur[t]} /\ Active = cur[t] /\ Active # NoBatch
             /\ Sending' = {} /\ Active' = NoBatch
  <2>1. cur[t] \in Batches /\ Sending = {cur[t]} /\ Active = cur[t] /\ Sending \subseteq InPipe
    BY <1>5, ActiveFacts
  <2>2. \A u \in Tasks \ {t} : cur[u] = NoBatch
    BY <1>5 DEF WorkerInv, OneWorker, Inside, Kinds, Critical
  <2>3. \A u \in Tasks : cur'[u] = NoBatch
    BY <1>1, <1>5, <2>2
  <2>4. Sending' = {}
    BY <2>3, NamesApart DEF Sending
  <2>5. QED BY <2>1, <2>4, NamesApart DEF Active
<1>6. ASSUME NEW t \in Tasks, NEW ending \in Endings, SendBatch(t, ending)
      PROVE  Pipe!Next
  <2>1. /\ pc[t] = "send" /\ cur' = [cur EXCEPT ![t] = NoBatch]
        /\ fate' = [fate EXCEPT ![cur[t]] = ending]
    BY <1>6 DEF SendBatch
  <2>2. /\ cur[t] \in Batches /\ cur[t] \in InPipe
        /\ Sending = {cur[t]} /\ Active = cur[t] /\ Active # NoBatch
        /\ Sending' = {} /\ Active' = NoBatch
    BY <1>5, <2>1
  <2>3. InPipe' = InPipe \ {cur[t]}
    BY <1>1, <2>1, <2>2 DEF InPipe, Endings
  <2>4. Pending' = Pending
    BY <2>2, <2>3 DEF Pending
  <2>5. Pipe!Finish(ending)
    BY <2>1, <2>2, <2>4 DEF Pipe!Finish, Pending, Active
  <2>6. QED BY <2>5 DEF Pipe!Next, Pipe!Endings, Endings
<1>7. ASSUME NEW t \in Tasks, Requeue(t) \/ SendThrows(t)
      PROVE  Pipe!Next
  <2>1. /\ pc[t] = "send" /\ cur' = [cur EXCEPT ![t] = NoBatch] /\ UNCHANGED fate
    BY <1>7 DEF Requeue, SendThrows
  <2>2. /\ cur[t] \in Batches /\ cur[t] \in InPipe
        /\ Sending = {cur[t]} /\ Active = cur[t] /\ Active # NoBatch
        /\ Sending' = {} /\ Active' = NoBatch
    BY <1>5, <2>1
  <2>3. Pending' = Pending \cup {cur[t]}
    BY <2>1, <2>2 DEF Pending, InPipe
  <2>4. Pipe!PutBack
    BY <2>1, <2>2, <2>3 DEF Pipe!PutBack, Pending, Active
  <2>5. QED BY <2>4 DEF Pipe!Next
<1>8. ASSUME NEW s \in Baselines, SortOut(s), ~UNCHANGED fate
      PROVE  Pipe!Next
  <2> DEFINE h == Head(queue)
  <2>1. h \in Batches /\ h \in ToSet(queue)
    BY <1>1, <1>8, TailFacts DEF SortOut
  <2>2. /\ pc[s] = "drop" /\ UNCHANGED cur
        /\ fate' = [fate EXCEPT ![h] = "superseded"]
    BY <1>8 DEF SortOut
  <2> HIDE DEF h
  <2>3. fate[h] = "live"
    BY <1>1, <2>1 DEF LiveIsHeld
  <2>4. Sending = {} /\ Active = NoBatch /\ UNCHANGED <<Sending, Active>>
    BY <2>2, ActiveFacts DEF Critical, Sending, Active
  <2>5. InPipe' = InPipe \ {h}
    BY <1>1, <2>1, <2>2, <2>3 DEF InPipe
  <2>6. {h} \subseteq Pending /\ Pending' = Pending \ {h}
    BY <2>1, <2>3, <2>4, <2>5 DEF Pending, InPipe
  <2>7. fate' = [b \in Batches |-> IF b \in {h} THEN "superseded" ELSE fate[b]]
    BY <1>1, <2>1, <2>2
  <2>8. Pipe!Supersede({h})
    BY <2>4, <2>6, <2>7 DEF Pipe!Supersede, Pending, Active
  <2>9. QED BY <2>6, <2>8 DEF Pipe!Next, Pending
<1>9. ASSUME NEW s \in Baselines, SortOut(s), UNCHANGED fate
      PROVE  UNCHANGED <<Pending, Active, fate>>
  BY <1>2, <1>9 DEF SortOut, Pending, Active, InPipe, Sending
<1>10. CASE UNCHANGED vars
  BY <1>2, <1>10 DEF vars
<1>11. CASE Next
  BY <1>2, <1>3, <1>4, <1>6, <1>7, <1>8, <1>9, <1>11, NextIsSteps
  DEF Steps, ResetForDocumentSwitch, RefreshSnapshotBaseline, RunEnter, RunRefused,
      RunEnqueue, DrainEnter, BaselineEnter, SortedOut, Restore, BaselineSnapshot,
      LoopEnds, Release, Kick
<1>12. QED BY <1>10, <1>11

\* Seen from outside, the tasks of the thread pool are one worker that takes
\* one batch at a time out of a pool.
THEOREM WorkerImplementsPipe == Spec => ImplementsBatchPipe
<1>1. Init => Pipe!Init
  BY PipeInit
<1>2. WorkerInv /\ WorkerInv' /\ [Next]_vars => [Pipe!Next]_(Pipe!pipeVars)
  BY PipeStep
<1>3. QED BY <1>1, <1>2, Invariance, PTL DEF Spec, ImplementsBatchPipe, Pipe!Spec

==============================================================================
