-------------------------- MODULE DrawingSync_proofs --------------------------
(* For any number of drawings, documents switched, batches, baselines and   *)
(* analyses: the types, that the server's copy of an entity goes forward,   *)
(* and that every edit is covered from the start and none is lost but where *)
(* the code gives it up.                                                    *)
EXTENDS DrawingSync, FiniteSetTheorems, TLAPS

\* What a worker that is busy is busy with, and that it has a drawing: without
\* it the target of a commit would be nothing's.
Owned(x) == stamp[x] \in Context
PipeIsLive ==
    /\ \A b \in pending : fate[b] = "live"
    /\ active # NoBatch => fate[active] = "live" /\ active \notin pending
ServesBaseline ==
    serves # None => /\ Owned(serves) /\ active = NoBatch
                     /\ phase \in {"check", "start", "extractAll", "snapshot", "clear"}
ServesBatch ==
    serves = None => /\ phase # "idle" => active # NoBatch /\ phase \notin {"check", "clear"}
                     /\ phase \notin {"idle", "send"} => Owned(active)
SessionsOwned ==
    /\ \A s \in due : Owned(s)
    /\ \A a \in Analyses : analysis[a] \in {"sent", "registered"} => Owned(a)
\* A baseline extracts only in front of its own document.
BaselineIsOfItsDrawing ==
    phase = "snapshot" /\ serves # None => from = stamp[serves].drawing
SyncInv ==
    /\ TypeOK /\ Len(log) <= MaxEdits
    /\ PipeIsLive /\ ServesBaseline /\ ServesBatch /\ SessionsOwned
    /\ BaselineIsOfItsDrawing

------------------------------------------------------------------------------
(* The latest edit exists.                                                  *)

\* A set of numbers up to n that is not empty has a greatest one: of the sets
\* of what lies above each, one has no smaller one within it.
LEMMA HasGreatest ==
    ASSUME NEW n \in Nat, NEW S \in SUBSET (1..n), S # {}
    PROVE  \E x \in S : \A m \in S : m <= x
<1> DEFINE Above(x) == {m \in S : m > x}
           family == {Above(x) : x \in S}
<1>1. IsFiniteSet(S)
  <2>1. IsFiniteSet(1..n)
    BY FS_Interval
  <2> QED BY <2>1, FS_Subset
<1>2. IsWellFoundedOn(StrictSubsetOrdering(S), SUBSET S)
  BY <1>1, FS_StrictSubsetOrderingWellFounded, FS_FiniteSubsetsOfFinite
<1>3. family \subseteq SUBSET S /\ family # {}
  BY Zenon
<1>4. PICK T \in family : \A U \in family : <<U, T>> \notin StrictSubsetOrdering(S)
  <2> HIDE DEF family
  <2> QED BY <1>2, <1>3, WFMin, Zenon
<1>5. PICK x \in S : T = Above(x)
  BY <1>4
<1>6. \A m \in S : m <= x
  <2> SUFFICES ASSUME NEW m \in S, m > x PROVE FALSE
    OBVIOUS
  <2>1. Above(m) \in family
    OBVIOUS
  <2>2. ASSUME NEW k \in Above(m) PROVE k \in Above(x)
    OBVIOUS
  <2>3. m \in Above(x) /\ m \notin Above(m)
    OBVIOUS
  <2>4. <<Above(m), T>> \in StrictSubsetOrdering(S)
    BY <2>2, <2>3, <1>5 DEF StrictSubsetOrdering
  <2> QED BY <1>4, <2>1, <2>4
<1> QED BY <1>6

\* So what is extracted is the number of an edit, or 0.
LEMMA LatestIsNumber ==
    ASSUME TypeOK, Len(log) <= MaxEdits, NEW d \in Drawings, NEW h \in Handles
    PROVE  Latest(d, h) \in Numbers
<1> DEFINE mine == {n \in Edits : log[n].drawing = d /\ log[n].handle = h}
<1>1. Len(log) \in Nat /\ DOMAIN log = 1..Len(log)
  BY DEF TypeOK
<1>2. mine \subseteq 1..Len(log) /\ mine \subseteq Numbers
  BY <1>1, BoundsNat DEF Edits, Numbers
<1>3. CASE mine = {}
  BY <1>3, BoundsNat DEF Latest, Numbers
<1>4. CASE mine # {}
  <2>1. \E n \in mine : \A m \in mine : m <= n
    BY <1>1, <1>2, <1>4, HasGreatest
  <2>2. (CHOOSE n \in mine : \A m \in mine : m <= n) \in mine
    BY <2>1
  <2>3. Latest(d, h) = CHOOSE n \in mine : \A m \in mine : m <= n
    BY <1>4 DEF Latest
  <2> QED BY <1>2, <2>2, <2>3
<1> QED BY <1>3, <1>4

LEMMA FullIsContents ==
    ASSUME TypeOK, Len(log) <= MaxEdits, NEW d \in Drawings
    PROVE  Full(d) \in Contents
BY LatestIsNumber DEF Full, Contents

\* The merge of a delta makes a copy of it.
LEMMA MergedIsContents ==
    ASSUME TypeOK, Len(log) <= MaxEdits, active \in Batches, NEW old \in Contents
    PROVE  Merged(old) \in Contents
<1>1. load[active] \subseteq Numbers
  BY BoundsNat DEF TypeOK, Edits, Numbers
<1>2. ASSUME NEW h \in Handles, h \in Erased(active)
      PROVE  (CHOOSE n \in load[active] : log[n].handle = h /\ Erasure(n)) \in Numbers
  <2>1. \E n \in load[active] : log[n].handle = h /\ Erasure(n)
    BY <1>2 DEF Erased
  <2> QED BY <1>1, <2>1
<1>3. \A h \in Handles : got[h] \in Numbers /\ old[h] \in Numbers
  BY DEF TypeOK, Contents
<1> QED BY <1>2, <1>3 DEF Merged, Contents

------------------------------------------------------------------------------
(* The types.                                                               *)

\* An edit makes the log longer by one, and what carries its number is right.
LEMMA HappensTypes ==
    ASSUME TypeOK, Len(log) <= MaxEdits, NEW h \in Handles, NEW erases \in BOOLEAN, NEW silent \in BOOLEAN, Happens(h, erases, silent)
    PROVE  /\ log' \in Seq([drawing : Drawings, handle : Handles, erases : BOOLEAN, silent : BOOLEAN])
           /\ Len(log') <= MaxEdits /\ Len(log') \in Edits' /\ Edits \subseteq Edits'
<1>1. Len(log) \in Nat /\ DOMAIN log = 1..Len(log)
  BY DEF TypeOK
<1>2. log' = Append(log, [drawing |-> front, handle |-> h, erases |-> erases, silent |-> silent])
  BY DEF Happens
<1>3. log' \in Seq([drawing : Drawings, handle : Handles, erases : BOOLEAN, silent : BOOLEAN])
  BY <1>2 DEF TypeOK
<1>4. Len(log') = Len(log) + 1 /\ DOMAIN log' = 1..(Len(log) + 1)
  BY <1>1, <1>2, <1>3 DEF TypeOK
<1> QED BY <1>1, <1>3, <1>4, BoundsNat DEF Happens, Edits

\* A batch is submitted as it should be.
LEMMA BatchTypes ==
    ASSUME TypeOK, NEW b \in Batches, NEW S, NEW edits \in SUBSET S, Batch(b, edits),
           Edits \subseteq S
    PROVE  /\ stamp' \in [Batches \cup Sessions -> Context \cup {None}]
           /\ load' \in [Batches -> SUBSET S]
           /\ Pipe!PipeTypeOK'
<1>1. stamp' \in [Batches \cup Sessions -> Context \cup {None}]
  BY DEF TypeOK, Batch
<1>2. load' \in [Batches -> SUBSET S]
  BY DEF TypeOK, Batch
<1>3. Pipe!PipeTypeOK'
  BY DEF TypeOK, Batch, Pipe!Submit, Pipe!PipeTypeOK, Pipe!Fates
<1> QED BY <1>1, <1>2, <1>3

\* A new session has the document in front for its drawing.
LEMMA NewSessionTypes ==
    ASSUME TypeOK, NEW s \in Baselines, NewSession(s)
    PROVE  /\ context' \in Context /\ marked' = {} /\ due' \in SUBSET Baselines
           /\ stamp' \in [Batches \cup Sessions -> Context \cup {None}] /\ stamp'[s] \in Context
<1>1. context' = [drawing |-> front, session |-> s] /\ marked' = {}
  BY DEF NewSession, SetDrawingContext
<1>2. context' \in Context
  BY <1>1 DEF TypeOK, Context, Sessions
<1> QED BY <1>1, <1>2 DEF TypeOK, NewSession, Sessions

LEMMA PipeTypes ==
    ASSUME Pipe!PipeTypeOK
    PROVE  /\ \A b \in Batches : Pipe!Take(b) => Pipe!PipeTypeOK'
           /\ \A e \in Pipe!Endings : Pipe!Finish(e) => Pipe!PipeTypeOK'
           /\ Pipe!PutBack => Pipe!PipeTypeOK'
           /\ \A old \in SUBSET pending : Pipe!Supersede(old) => Pipe!PipeTypeOK'
           /\ UNCHANGED pipe => Pipe!PipeTypeOK'
BY DEF Pipe!PipeTypeOK, Pipe!Take, Pipe!Finish, Pipe!PutBack, Pipe!Supersede, Pipe!Fates, Pipe!Endings, pipe

\* A worker that sends anything has a drawing to send it to.
LEMMA TargetIsDrawing ==
    ASSUME SyncInv, phase \notin {"idle", "send"}
    PROVE  Target \in Drawings
<1>1. CASE serves # None
  BY <1>1 DEF SyncInv, ServesBaseline, Owned, Context, Target
<1>2. CASE serves = None
  BY <1>2 DEF SyncInv, ServesBatch, Owned, Context, Target
<1> QED BY <1>1, <1>2

LEMMA TypesAtFirst == Init => TypeOK /\ Len(log) <= MaxEdits
<1> SUFFICES ASSUME Init PROVE TypeOK /\ Len(log) <= MaxEdits
  OBVIOUS
<1>1. Pipe!PipeTypeOK
  BY DEF Init, Pipe!Init, Pipe!PipeTypeOK, Pipe!Fates
<1>2. Nothing \in Contents
  BY BoundsNat DEF Nothing, Contents, Numbers
<1>3. log \in Seq([drawing : Drawings, handle : Handles, erases : BOOLEAN, silent : BOOLEAN]) /\ Len(log) = 0
  BY DEF Init
<1>4. /\ stamp \in [Batches \cup Sessions -> Context \cup {None}]
      /\ load \in [Batches -> SUBSET Edits]
  BY DEF Init
<1>5. /\ analysis \in [Analyses -> {"new", "sent", "registered", "done"}]
      /\ shot \in [Analyses -> Contents] /\ got \in Contents
      /\ copy \in [Drawings -> Contents]
      /\ serial \in [Drawings -> Nat] /\ lock \in [Drawings -> BOOLEAN]
  BY <1>2 DEF Init
<1>6. activated \in 0..MaxSwitches /\ Len(log) <= MaxEdits
  BY <1>3, BoundsNat DEF Init
<1>7. /\ front \in Drawings /\ command \in BOOLEAN /\ context \in Context \cup {None}
      /\ marked \in SUBSET Edits /\ greeted \in {"no", "queued", "done"}
      /\ due \in SUBSET Baselines /\ serves \in Baselines \cup {None} /\ phase \in Phases
      /\ base \in Nat /\ from \in Drawings \cup {None}
  BY DEF Init, Phases
<1> QED BY <1>1, <1>3, <1>4, <1>5, <1>6, <1>7 DEF TypeOK

\* Each step of the user and of the tracker keeps the types.
LEMMA UserTypes ==
    ASSUME SyncInv, User \/ Greeting
    PROVE  TypeOK' /\ Len(log') <= MaxEdits
<1> USE DEF editor, tracker, carried, pipe, worker, extracted, uploads, server
<1>1. TypeOK /\ Len(log) <= MaxEdits /\ Pipe!PipeTypeOK
  BY DEF SyncInv, TypeOK
<1>2. CASE CommandStarts \/ CommandCancelled
  BY <1>1, <1>2, PipeTypes DEF CommandStarts, CommandCancelled, TypeOK, Edits
<1>3. CASE CommandEnds
  <2>1. CASE marked # {} /\ context # None
    <3>1. PICK b \in Batches : Batch(b, marked)
      BY <1>3, <2>1 DEF CommandEnds
    <3>2. UNCHANGED log /\ marked \in SUBSET Edits /\ marked' = {} /\ command' = FALSE
      BY <1>1, <1>3, <2>1 DEF CommandEnds, TypeOK
    <3>3. /\ stamp' \in [Batches \cup Sessions -> Context \cup {None}]
          /\ load' \in [Batches -> SUBSET Edits]
          /\ Pipe!PipeTypeOK'
      BY <1>1, <3>1, <3>2, BatchTypes
    <3> QED BY <1>1, <1>3, <3>2, <3>3 DEF CommandEnds, TypeOK, Edits
  <2>2. CASE ~(marked # {} /\ context # None)
    BY <1>1, <1>3, <2>2, PipeTypes DEF CommandEnds, TypeOK, Edits
  <2> QED BY <2>1, <2>2
<1>4. ASSUME NEW h \in Handles, NEW erases \in BOOLEAN, Edit(h, erases)
      PROVE  TypeOK' /\ Len(log') <= MaxEdits
  <2>1. /\ log' \in Seq([drawing : Drawings, handle : Handles, erases : BOOLEAN, silent : BOOLEAN])
        /\ Len(log') <= MaxEdits /\ Len(log') \in Edits' /\ Edits \subseteq Edits'
    BY <1>1, <1>4, HappensTypes DEF Edit
  <2>2. marked' \in SUBSET Edits' /\ load' \in [Batches -> SUBSET Edits']
    BY <1>1, <1>4, <2>1 DEF Edit, TypeOK
  <2> QED BY <1>1, <1>4, <2>1, <2>2, PipeTypes DEF Edit, TypeOK
<1>5. ASSUME NEW h \in Handles, NEW erases \in BOOLEAN, ApplyFix(h, erases) PROVE TypeOK' /\ Len(log') <= MaxEdits
  <2>1. /\ log' \in Seq([drawing : Drawings, handle : Handles, erases : BOOLEAN, silent : BOOLEAN])
        /\ Len(log') <= MaxEdits /\ Len(log') \in Edits' /\ Edits \subseteq Edits'
    BY <1>1, <1>5, HappensTypes DEF ApplyFix
  <2>2. PICK b \in Batches : Batch(b, {Len(log')})
    BY <1>5 DEF ApplyFix
  <2>3. /\ stamp' \in [Batches \cup Sessions -> Context \cup {None}]
        /\ load' \in [Batches -> SUBSET (Edits')]
        /\ Pipe!PipeTypeOK'
    <3> DEFINE S == Edits'
    <3>1. {Len(log')} \in SUBSET S /\ Edits \subseteq S
      BY <2>1
    <3> HIDE DEF S
    <3>2. load' \in [Batches -> SUBSET S]
      BY <1>1, <2>2, <3>1, BatchTypes
    <3> QED BY <1>1, <2>2, <3>1, <3>2, BatchTypes DEF S
  <2>4. marked' \in SUBSET Edits'
    BY <1>1, <1>5, <2>1 DEF ApplyFix, TypeOK
  <2> QED BY <1>1, <1>5, <2>1, <2>3, <2>4 DEF ApplyFix, TypeOK
<1>6. ASSUME NEW d \in Drawings, ActivateDocument(d) PROVE TypeOK' /\ Len(log') <= MaxEdits
  <2>1. activated' \in 0..MaxSwitches
    BY <1>1, <1>6, BoundsNat DEF ActivateDocument, TypeOK
  <2> QED BY <1>1, <1>6, <2>1, PipeTypes DEF ActivateDocument, TypeOK, Edits
<1>7. CASE SessionInfo
  BY <1>1, <1>7, PipeTypes DEF SessionInfo, TypeOK, Edits
<1>8. ASSUME \/ UNCHANGED <<context, marked, stamp, due>>
             \/ \E s \in Baselines : NewSession(s),
             UNCHANGED log
      PROVE  /\ context' \in Context \cup {None} /\ marked' \in SUBSET Edits'
             /\ stamp' \in [Batches \cup Sessions -> Context \cup {None}] /\ due' \in SUBSET Baselines
  BY <1>1, <1>8, NewSessionTypes DEF TypeOK, Edits
<1>9. CASE RefreshActivated
  <2>1. activated' \in 0..MaxSwitches
    BY <1>1, <1>9, BoundsNat DEF RefreshActivated, TypeOK
  <2>2. /\ context' \in Context \cup {None} /\ marked' \in SUBSET Edits'
        /\ stamp' \in [Batches \cup Sessions -> Context \cup {None}] /\ due' \in SUBSET Baselines
    BY <1>8, <1>9 DEF RefreshActivated
  <2> QED BY <1>1, <1>9, <2>1, <2>2, PipeTypes DEF RefreshActivated, TypeOK, Edits
<1>10. CASE RefreshGreeted
  <2>1. /\ context' \in Context \cup {None} /\ marked' \in SUBSET Edits'
        /\ stamp' \in [Batches \cup Sessions -> Context \cup {None}] /\ due' \in SUBSET Baselines
    BY <1>8, <1>10 DEF RefreshGreeted
  <2> QED BY <1>1, <1>10, <2>1, PipeTypes DEF RefreshGreeted, TypeOK, Edits
<1> QED BY <1>2, <1>3, <1>4, <1>5, <1>6, <1>7, <1>9, <1>10 DEF User, Greeting

\* Each step of the worker keeps the types.
LEMMA WorkerTypes ==
    ASSUME SyncInv, Sends \/ Resyncs
    PROVE  TypeOK' /\ Len(log') <= MaxEdits
<1> USE DEF editor, tracker, carried, pipe, worker, extracted, uploads, server
<1>1. TypeOK /\ Len(log) <= MaxEdits /\ Pipe!PipeTypeOK
  BY DEF SyncInv, TypeOK
<1>2. Nothing \in Contents
  BY BoundsNat DEF Nothing, Contents, Numbers
<1>3. "waited" \in Pipe!Endings /\ "committed" \in Pipe!Endings /\ "resynced" \in Pipe!Endings
  BY DEF Pipe!Endings
<1>4. ASSUME phase \notin {"idle", "send"}
      PROVE  /\ Target \in Drawings
             /\ copy[Target] \in Contents
             /\ \A value \in Contents : [copy EXCEPT ![Target] = value] \in [Drawings -> Contents]
             /\ [serial EXCEPT ![Target] = @ + 1] \in [Drawings -> Nat]
             /\ \A on \in BOOLEAN : [lock EXCEPT ![Target] = on] \in [Drawings -> BOOLEAN]
  BY <1>1, <1>4, TargetIsDrawing DEF TypeOK
\* However a resync ends.
<1>5. ASSUME ResyncEnds
      PROVE  /\ Pipe!PipeTypeOK' /\ phase' \in Phases /\ base' \in Nat
             /\ got' \in Contents /\ from' \in Drawings \cup {None}
  <2>1. CASE serves = None
    BY <1>1, <1>2, <1>3, <1>5, <2>1, PipeTypes DEF ResyncEnds, Idle, Empty, Phases
  <2>2. CASE serves # None
    BY <1>1, <1>2, <1>5, <2>2, PipeTypes DEF ResyncEnds, Empty, Phases, TypeOK
  <2> QED BY <2>1, <2>2
<1>6. ASSUME NEW b \in Batches, TakeBatch(b) PROVE TypeOK' /\ Len(log') <= MaxEdits
  BY <1>1, <1>6, PipeTypes DEF TakeBatch, TypeOK, Edits, Phases
<1>7. CASE AnswerWait
  BY <1>1, <1>2, <1>3, <1>7, PipeTypes DEF AnswerWait, Idle, Empty, TypeOK, Edits, Phases
<1>8. CASE Answer
  <2>1. serves = None /\ active \in Batches /\ stamp[active] \in Context
    BY <1>1, <1>8 DEF Answer, SyncInv, ServesBaseline, ServesBatch, TypeOK, Pipe!PipeTypeOK
  <2>2. Target \in Drawings
    BY <2>1 DEF Target, Context
  <2>3. base' \in Nat /\ phase' \in Phases
    BY <1>1, <1>8, <2>2 DEF Answer, TypeOK, Phases
  <2> QED BY <1>1, <1>8, <2>3, PipeTypes DEF Answer, TypeOK, Edits
<1>9. CASE PutBack
  BY <1>1, <1>2, <1>9, PipeTypes DEF PutBack, Idle, Empty, TypeOK, Edits, Phases
<1>10. CASE Extract
  <2>1. \A h \in Handles : Latest(front, h) \in Numbers /\ 0 \in Numbers
    BY <1>1, BoundsNat, LatestIsNumber DEF TypeOK, Numbers
  <2>2. got' \in Contents
    BY <1>10, <2>1 DEF Extract, Contents
  <2> QED BY <1>1, <1>10, <2>2, PipeTypes DEF Extract, TypeOK, Edits, Phases
<1>11. CASE CommitDelta \/ DeltaAnswerLost
  <2>1. active \in Batches
    BY <1>1, <1>11 DEF CommitDelta, DeltaAnswerLost, Pipe!Finish, Pipe!PutBack, Pipe!PipeTypeOK
  <2>2. phase \notin {"idle", "send"}
    BY <1>11 DEF CommitDelta, DeltaAnswerLost
  <2>3. Merged(copy[Target]) \in Contents
    BY <1>1, <1>4, <2>1, <2>2, MergedIsContents
  <2>4. copy' \in [Drawings -> Contents]
    BY <1>4, <1>11, <2>2, <2>3 DEF CommitDelta, DeltaAnswerLost
  <2>5. Pipe!PipeTypeOK'
    BY <1>1, <1>3, <1>11, PipeTypes DEF CommitDelta, DeltaAnswerLost
  <2> QED BY <1>1, <1>2, <1>11, <2>4, <2>5 DEF CommitDelta, DeltaAnswerLost, Idle, Empty, TypeOK, Edits, Phases
<1>12. ASSUME NEW s \in Baselines, BaselineBegins(s) PROVE TypeOK' /\ Len(log') <= MaxEdits
  <2>1. Outdated(s) \subseteq pending
    BY DEF Outdated
  <2>2. Pipe!PipeTypeOK'
    BY <1>1, <1>12, <2>1, PipeTypes DEF BaselineBegins
  <2> QED BY <1>1, <1>12, <2>2 DEF BaselineBegins, TypeOK, Edits, Phases
<1>13. CASE BaselineChecks \/ BaselineThrows
  BY <1>1, <1>13, PipeTypes DEF BaselineChecks, BaselineThrows, TypeOK, Edits, Phases
<1>14. CASE ResyncRefused
  BY <1>1, <1>5, <1>14 DEF ResyncRefused, TypeOK, Edits
<1>15. CASE StartResync
  <2>1. lock' \in [Drawings -> BOOLEAN]
    BY <1>4, <1>15 DEF StartResync
  <2> QED BY <1>1, <1>15, <2>1, PipeTypes DEF StartResync, TypeOK, Edits, Phases
<1>16. CASE ExtractAll
  <2>1. got' \in Contents
    BY <1>1, <1>16, FullIsContents DEF ExtractAll, TypeOK
  <2> QED BY <1>1, <1>16, <2>1, PipeTypes DEF ExtractAll, TypeOK, Edits, Phases
<1>17. CASE CommitSnapshot
  <2>1. phase \notin {"idle", "send"} /\ got \in Contents
    BY <1>1, <1>17 DEF CommitSnapshot, TypeOK
  <2>2. /\ copy' \in [Drawings -> Contents] /\ serial' \in [Drawings -> Nat]
        /\ lock' \in [Drawings -> BOOLEAN]
    BY <1>4, <1>17, <2>1 DEF CommitSnapshot
  <2> QED BY <1>1, <1>5, <1>17, <2>2 DEF CommitSnapshot, TypeOK, Edits
<1>18. CASE ResyncFails
  <2>1. lock' \in [Drawings -> BOOLEAN]
    BY <1>1, <1>4, <1>18 DEF ResyncFails, TypeOK
  <2> QED BY <1>1, <1>5, <1>18, <2>1 DEF ResyncFails, TypeOK, Edits
<1>19. CASE BaselineClears
  BY <1>1, <1>2, <1>19, PipeTypes DEF BaselineClears, Idle, Empty, TypeOK, Edits, Phases
<1>20. ASSUME NEW d \in Drawings, LockExpires(d) PROVE TypeOK' /\ Len(log') <= MaxEdits
  BY <1>1, <1>20, PipeTypes DEF LockExpires, TypeOK, Edits
<1> QED BY <1>6, <1>7, <1>8, <1>9, <1>10, <1>11, <1>12, <1>13, <1>14, <1>15, <1>16, <1>17, <1>18, <1>19, <1>20
       DEF Sends, Resyncs

\* Each step of an analysis keeps the types.
LEMMA AnalysisTypes ==
    ASSUME SyncInv, NEW a \in Analyses, Analyse(a)
    PROVE  TypeOK' /\ Len(log') <= MaxEdits
<1> USE DEF editor, tracker, carried, pipe, worker, extracted, uploads, server
<1>1. TypeOK /\ Len(log) <= MaxEdits /\ Pipe!PipeTypeOK
  BY DEF SyncInv, TypeOK
<1>2. analysis[a] \in {"sent", "registered"} => stamp[a] \in Context /\ stamp[a].drawing \in Drawings
  BY DEF SyncInv, SessionsOwned, Owned, Context
<1>7. Nothing \in Contents
  BY BoundsNat DEF Nothing, Contents, Numbers
<1>3. CASE AnalysisSent(a)
  <2>1. Full(front) \in Contents /\ [drawing |-> front, session |-> a] \in Context
    BY <1>1, FullIsContents DEF TypeOK, Context, Sessions
  <2>2. /\ shot' \in [Analyses -> Contents]
        /\ analysis' \in [Analyses -> {"new", "sent", "registered", "done"}]
        /\ stamp' \in [Batches \cup Sessions -> Context \cup {None}]
    BY <1>1, <1>3, <2>1 DEF AnalysisSent, TypeOK
  <2> QED BY <1>1, <1>3, <2>2, PipeTypes DEF AnalysisSent, TypeOK, Edits
<1>4. CASE AnalysisRegistered(a)
  <2>1. /\ copy' \in [Drawings -> Contents] /\ serial' \in [Drawings -> Nat]
        /\ analysis' \in [Analyses -> {"new", "sent", "registered", "done"}]
    BY <1>1, <1>2, <1>4 DEF AnalysisRegistered, TypeOK
  <2>2. shot' \in [Analyses -> Contents]
    BY <1>1, <1>4, <1>7 DEF AnalysisRegistered, TypeOK
  <2> QED BY <1>1, <1>4, <2>1, <2>2, PipeTypes DEF AnalysisRegistered, TypeOK, Edits
<1>5. CASE AnalysisAnswered(a)
  <2>1. context' \in Context
    BY <1>2, <1>5 DEF AnalysisAnswered, SetDrawingContext, Context, Sessions
  <2> QED BY <1>1, <1>5, <2>1, PipeTypes DEF AnalysisAnswered, SetDrawingContext, TypeOK, Edits
<1>6. CASE AnalysisFails(a)
  <2>1. /\ analysis' \in [Analyses -> {"new", "sent", "registered", "done"}]
        /\ shot' \in [Analyses -> Contents]
    BY <1>1, <1>6, <1>7 DEF AnalysisFails, TypeOK
  <2> QED BY <1>1, <1>6, <2>1, PipeTypes DEF AnalysisFails, TypeOK, Edits
<1> QED BY <1>3, <1>4, <1>5, <1>6 DEF Analyse

LEMMA SyncTypes == SyncInv /\ [Next]_vars => TypeOK' /\ Len(log') <= MaxEdits
<1> SUFFICES ASSUME SyncInv, [Next]_vars PROVE TypeOK' /\ Len(log') <= MaxEdits
  OBVIOUS
<1>1. CASE UNCHANGED vars
  <2>1. TypeOK /\ Len(log) <= MaxEdits
    BY DEF SyncInv
  <2> QED BY <1>1, <2>1 DEF vars, editor, tracker, carried, pipe, worker, extracted, uploads, server,
             TypeOK, Edits, Pipe!PipeTypeOK
<1> QED BY <1>1, UserTypes, WorkerTypes, AnalysisTypes DEF Next

------------------------------------------------------------------------------
(* What the worker is busy with.                                            *)

Busy == PipeIsLive /\ ServesBaseline /\ ServesBatch /\ SessionsOwned /\ BaselineIsOfItsDrawing

\* A new batch is no one's that is waiting, being sent, or a session.
LEMMA BatchIsNew ==
    ASSUME SyncInv, NEW b \in Batches, NEW edits, Batch(b, edits),
           UNCHANGED <<due, serves, phase, from, analysis>>
    PROVE  Busy'
<1> USE DEF SyncInv, TypeOK, Pipe!PipeTypeOK, Sessions
<1>1. /\ fate[b] = "new" /\ active' = active /\ pending' = pending \cup {b}
      /\ fate' = [fate EXCEPT ![b] = "live"]
  BY DEF Batch, Pipe!Submit
<1>2. \A x \in Sessions \cup (Batches \ {b}) : stamp'[x] = stamp[x]
  BY TasksApart DEF Batch
<1>3. active # NoBatch => active # b
  BY <1>1 DEF PipeIsLive
<1>4. PipeIsLive'
  BY <1>1, <1>3 DEF PipeIsLive
<1>5. ServesBaseline' /\ BaselineIsOfItsDrawing'
  BY <1>1, <1>2 DEF ServesBaseline, Owned, BaselineIsOfItsDrawing
<1>6. ServesBatch'
  BY <1>1, <1>2, <1>3 DEF ServesBatch, Owned
<1>7. SessionsOwned'
  BY <1>2 DEF SessionsOwned, Owned
<1> QED BY <1>4, <1>5, <1>6, <1>7 DEF Busy

\* A new session was none before, so no baseline that is due is its own.
LEMMA SessionIsNew ==
    ASSUME SyncInv, NEW s \in Baselines, NewSession(s),
           UNCHANGED <<pipe, serves, phase, from, analysis>>
    PROVE  Busy'
<1> USE DEF SyncInv, TypeOK, Pipe!PipeTypeOK, Sessions, pipe
<1>1. stamp[s] = None /\ stamp'[s] \in Context /\ due' = due \cup {s}
  BY NewSessionTypes DEF NewSession
<1>2. \A x \in (Batches \cup Sessions) \ {s} : stamp'[x] = stamp[x]
  BY DEF NewSession
<1>3. ~Owned(s)
  BY <1>1, TasksApart DEF Owned, Context
<1>4. serves # s
  BY <1>3, TasksApart DEF ServesBaseline
<1>5. PipeIsLive'
  BY DEF PipeIsLive
<1>6. ServesBaseline' /\ BaselineIsOfItsDrawing'
  BY <1>2, <1>4 DEF ServesBaseline, Owned, BaselineIsOfItsDrawing
<1>7. ServesBatch'
  <2>1. active \in Batches => active # s /\ active \in (Batches \cup Sessions) \ {s}
    BY TasksApart
  <2> QED BY <1>2, <2>1 DEF ServesBatch, Owned
<1>8. SessionsOwned'
  <2>1. \A a \in Analyses : stamp'[a] = stamp[a]
    BY <1>2, TasksApart
  <2>2. \A x \in due' : stamp'[x] \in Context
    BY <1>1, <1>2 DEF SessionsOwned, Owned
  <2>3. Context' = Context
    BY DEF Context
  <2> QED BY <2>1, <2>2, <2>3 DEF SessionsOwned, Owned
<1> QED BY <1>5, <1>6, <1>7, <1>8 DEF Busy

\* The batch that was sent is done with or put back; the worker is idle.
LEMMA BatchEnds ==
    ASSUME SyncInv, serves = None, Pipe!PutBack \/ \E e \in Pipe!Endings : Pipe!Finish(e), Idle,
           UNCHANGED <<stamp, due, serves, analysis>>
    PROVE  Busy'
<1> USE DEF SyncInv, TypeOK, Pipe!PipeTypeOK
<1>1. active' = NoBatch /\ phase' = "idle"
  BY DEF Pipe!PutBack, Pipe!Finish, Idle
<1>2. PipeIsLive'
  BY <1>1 DEF PipeIsLive, Pipe!PutBack, Pipe!Finish
<1>3. (ServesBaseline /\ ServesBatch /\ BaselineIsOfItsDrawing)'
  BY <1>1 DEF ServesBaseline, ServesBatch, BaselineIsOfItsDrawing
<1>4. SessionsOwned'
  BY DEF SessionsOwned, Owned
<1> QED BY <1>2, <1>3, <1>4 DEF Busy

\* A resync ends its batch, or lets the baseline clear the sets.
LEMMA ResyncIsOver ==
    ASSUME SyncInv, ResyncEnds, phase \notin {"idle", "send"}, UNCHANGED <<stamp, due, serves, analysis>>
    PROVE  Busy'
<1>1. CASE serves = None
  <2>1. "resynced" \in Pipe!Endings
    BY DEF Pipe!Endings
  <2> QED BY <1>1, <2>1, BatchEnds DEF ResyncEnds
<1>2. CASE serves # None
  <2>1. phase' = "clear" /\ UNCHANGED <<pending, active, fate>>
    BY <1>2 DEF ResyncEnds, pipe
  <2> QED BY <1>2, <2>1 DEF Busy, SyncInv, PipeIsLive, ServesBaseline, ServesBatch, SessionsOwned, Owned,
             BaselineIsOfItsDrawing
<1> QED BY <1>1, <1>2

\* The steps that touch nothing of it.
LEMMA BusyStays ==
    ASSUME SyncInv, UNCHANGED <<stamp, pipe, due, serves, phase, from, analysis>>
    PROVE  Busy'
BY DEF Busy, SyncInv, PipeIsLive, ServesBaseline, ServesBatch, SessionsOwned, Owned, BaselineIsOfItsDrawing, pipe

LEMMA UserBusy == ASSUME SyncInv, User \/ Greeting PROVE Busy'
<1> USE DEF editor, tracker, carried, pipe, worker, extracted, uploads, server
<1>1. CASE CommandStarts \/ CommandCancelled \/ SessionInfo
  BY <1>1, BusyStays DEF CommandStarts, CommandCancelled, SessionInfo
<1>2. CASE CommandEnds
  <2>1. CASE marked # {} /\ context # None
    BY <1>2, <2>1, BatchIsNew DEF CommandEnds
  <2>2. CASE ~(marked # {} /\ context # None)
    BY <1>2, <2>2, BusyStays DEF CommandEnds
  <2> QED BY <2>1, <2>2
<1>3. ASSUME NEW h \in Handles, NEW erases \in BOOLEAN, Edit(h, erases) PROVE Busy'
  BY <1>3, BusyStays DEF Edit
<1>4. ASSUME NEW h \in Handles, NEW erases \in BOOLEAN, ApplyFix(h, erases) PROVE Busy'
  BY <1>4, BatchIsNew DEF ApplyFix
<1>5. ASSUME NEW d \in Drawings, ActivateDocument(d) PROVE Busy'
  BY <1>5, BusyStays DEF ActivateDocument
<1>6. CASE RefreshActivated
  BY <1>6, BusyStays, SessionIsNew DEF RefreshActivated
<1>7. CASE RefreshGreeted
  BY <1>7, BusyStays, SessionIsNew DEF RefreshGreeted
<1> QED BY <1>1, <1>2, <1>3, <1>4, <1>5, <1>6, <1>7 DEF User, Greeting

LEMMA SendsBusy == ASSUME SyncInv, Sends PROVE Busy'
<1> USE DEF editor, tracker, carried, pipe, worker, extracted, uploads, server
<1>1. ASSUME NEW b \in Batches, TakeBatch(b) PROVE Busy'
  <2>1. /\ active' = b /\ active = NoBatch /\ b \in pending /\ pending' = pending \ {b}
        /\ phase = "idle" /\ phase' = "send"
        /\ UNCHANGED <<fate, stamp, due, serves, from, analysis>>
    BY <1>1 DEF TakeBatch, Pipe!Take
  <2>2. serves = None
    BY <2>1 DEF SyncInv, ServesBaseline
  <2>3. PipeIsLive'
    BY <2>1 DEF SyncInv, PipeIsLive
  <2>4. b # NoBatch
    BY TasksApart
  <2>5. (ServesBaseline /\ ServesBatch /\ BaselineIsOfItsDrawing)'
    BY <2>1, <2>2, <2>4 DEF ServesBaseline, ServesBatch, BaselineIsOfItsDrawing
  <2>6. SessionsOwned'
    BY <2>1 DEF SyncInv, SessionsOwned, Owned
  <2> QED BY <2>3, <2>5, <2>6 DEF Busy
<1>2. phase \in {"send", "extract", "deltas"} \/ active # NoBatch => serves = None
  BY DEF SyncInv, ServesBaseline
<1>3. CASE AnswerWait
  <2>1. "waited" \in Pipe!Endings
    BY DEF Pipe!Endings
  <2> QED BY <1>2, <1>3, <2>1, BatchEnds DEF AnswerWait
<1>4. CASE Answer
  <2>1. /\ phase = "send" /\ phase' \in {"start", "extract"} /\ stamp[active] # None
        /\ UNCHANGED <<pending, active, fate, stamp, due, serves, from, analysis>>
    BY <1>4 DEF Answer
  <2>2. serves = None /\ active # NoBatch /\ active \in Batches
    BY <1>2, <2>1 DEF SyncInv, ServesBatch, TypeOK, Pipe!PipeTypeOK
  <2>3. Owned(active)
    BY <2>1, <2>2 DEF SyncInv, TypeOK, Owned
  <2> QED BY <2>1, <2>2, <2>3 DEF Busy, SyncInv, PipeIsLive, ServesBaseline, ServesBatch, SessionsOwned, Owned,
             BaselineIsOfItsDrawing
<1>5. CASE PutBack
  BY <1>2, <1>5, BatchEnds DEF PutBack
<1>6. CASE Extract
  <2>1. phase = "extract" /\ phase' = "deltas" /\ UNCHANGED <<pending, active, fate, stamp, due, serves, analysis>>
    BY <1>6 DEF Extract
  <2> QED BY <1>2, <2>1 DEF Busy, SyncInv, PipeIsLive, ServesBaseline, ServesBatch, SessionsOwned, Owned,
             BaselineIsOfItsDrawing
<1>7. CASE CommitDelta \/ DeltaAnswerLost
  <2>1. "committed" \in Pipe!Endings
    BY DEF Pipe!Endings
  <2> QED BY <1>2, <1>7, <2>1, BatchEnds DEF CommitDelta, DeltaAnswerLost
<1> QED BY <1>1, <1>3, <1>4, <1>5, <1>6, <1>7 DEF Sends

LEMMA ResyncsBusy == ASSUME SyncInv, Resyncs PROVE Busy'
<1> USE DEF editor, tracker, carried, pipe, worker, extracted, uploads, server
<1>1. ASSUME NEW s \in Baselines, BaselineBegins(s) PROVE Busy'
  <2>1. /\ phase = "idle" /\ s \in due /\ due' = due \ {s} /\ serves' = s /\ phase' = "check"
        /\ UNCHANGED <<stamp, from, analysis>>
    BY <1>1 DEF BaselineBegins
  <2>2. PICK old \in SUBSET Outdated(s) : Pipe!Supersede(old)
    BY <1>1 DEF BaselineBegins
  <2>3. PipeIsLive' /\ active' = NoBatch
    <3>1. \A b \in pending' : b \in pending /\ b \notin old /\ b \in Batches
      BY <2>2 DEF Pipe!Supersede, SyncInv, TypeOK, Pipe!PipeTypeOK
    <3>2. \A b \in pending' : fate'[b] = fate[b]
      BY <2>2, <3>1 DEF Pipe!Supersede
    <3>3. active' = NoBatch
      BY <2>2 DEF Pipe!Supersede
    <3> QED BY <3>1, <3>2, <3>3 DEF SyncInv, PipeIsLive
  <2>4. s # None /\ stamp[s] \in Context
    BY <2>1, TasksApart DEF SyncInv, SessionsOwned, Owned
  <2>5. (ServesBaseline /\ ServesBatch /\ BaselineIsOfItsDrawing)'
    BY <2>1, <2>3, <2>4 DEF ServesBaseline, ServesBatch, Owned, BaselineIsOfItsDrawing
  <2>6. SessionsOwned'
    BY <2>1 DEF SyncInv, SessionsOwned, Owned
  <2> QED BY <2>3, <2>5, <2>6 DEF Busy
<1>2. CASE BaselineChecks
  <2>1. serves # None
    BY <1>2 DEF BaselineChecks, SyncInv, ServesBatch
  <2> QED BY <1>2, <2>1 DEF BaselineChecks, Busy, SyncInv, PipeIsLive, ServesBaseline, ServesBatch, SessionsOwned,
             Owned, BaselineIsOfItsDrawing
<1>3. CASE BaselineThrows
  BY <1>3 DEF BaselineThrows, Busy, SyncInv, PipeIsLive, ServesBaseline, ServesBatch, SessionsOwned, Owned,
     BaselineIsOfItsDrawing
<1>4. CASE ResyncRefused
  BY <1>4, ResyncIsOver DEF ResyncRefused
<1>5. CASE StartResync
  BY <1>5 DEF StartResync, Busy, SyncInv, PipeIsLive, ServesBaseline, ServesBatch, SessionsOwned, Owned,
     BaselineIsOfItsDrawing
\* A baseline extracts only in front of its own document.
<1>6. CASE ExtractAll
  <2>1. /\ phase = "extractAll" /\ phase' = "snapshot" /\ from' = front
        /\ serves # None => from' = stamp[serves].drawing
        /\ UNCHANGED <<pending, active, fate, stamp, due, serves, analysis>>
    BY <1>6 DEF ExtractAll, Target
  <2> QED BY <2>1 DEF Busy, SyncInv, PipeIsLive, ServesBaseline, ServesBatch, SessionsOwned, Owned,
             BaselineIsOfItsDrawing
<1>7. CASE CommitSnapshot
  BY <1>7, ResyncIsOver DEF CommitSnapshot
<1>8. CASE ResyncFails
  BY <1>8, ResyncIsOver DEF ResyncFails
<1>9. CASE BaselineClears
  <2>1. serves # None /\ active = NoBatch
    BY <1>9 DEF BaselineClears, SyncInv, ServesBaseline, ServesBatch
  <2> QED BY <1>9, <2>1 DEF BaselineClears, Idle, Busy, SyncInv, PipeIsLive, ServesBaseline, ServesBatch,
             SessionsOwned, Owned, BaselineIsOfItsDrawing
<1>10. ASSUME NEW d \in Drawings, LockExpires(d) PROVE Busy'
  BY <1>10, BusyStays DEF LockExpires
<1> QED BY <1>1, <1>2, <1>3, <1>4, <1>5, <1>6, <1>7, <1>8, <1>9, <1>10 DEF Resyncs

LEMMA AnalysisBusy == ASSUME SyncInv, NEW a \in Analyses, Analyse(a) PROVE Busy'
<1> USE DEF editor, tracker, carried, pipe, worker, extracted, uploads, server
<1>1. CASE AnalysisSent(a)
  <2>1. /\ \A x \in (Batches \cup Sessions) \ {a} : stamp'[x] = stamp[x]
        /\ stamp'[a] = [drawing |-> front, session |-> a]
        /\ analysis' = [analysis EXCEPT ![a] = "sent"]
        /\ UNCHANGED <<pending, active, fate, due, serves, phase, from>>
    BY <1>1 DEF AnalysisSent, SyncInv, TypeOK, Sessions
  <2>2. stamp'[a] \in Context /\ Context' = Context
    BY <2>1 DEF SyncInv, TypeOK, Context, Sessions
  <2>3. \A x \in Batches \cup Baselines : stamp'[x] = stamp[x]
    BY <2>1, TasksApart DEF Sessions
  <2>4. due \subseteq Baselines /\ (serves # None => serves \in Baselines) /\ (active # NoBatch => active \in Batches)
    BY DEF SyncInv, TypeOK, Pipe!PipeTypeOK
  <2>5. PipeIsLive'
    BY <2>1 DEF SyncInv, PipeIsLive
  <2>6. (ServesBaseline /\ BaselineIsOfItsDrawing)'
    BY <2>1, <2>3, <2>4 DEF SyncInv, ServesBaseline, Owned, BaselineIsOfItsDrawing
  <2>7. ServesBatch'
    BY <2>1, <2>3, <2>4 DEF SyncInv, ServesBatch, Owned
  <2>8. SessionsOwned'
    <3>1. \A s \in due' : Owned(s)'
      BY <2>1, <2>2, <2>3, <2>4 DEF SyncInv, SessionsOwned, Owned
    <3>2. ASSUME NEW o \in Analyses, analysis'[o] \in {"sent", "registered"} PROVE Owned(o)'
      BY <2>1, <2>2, <3>2 DEF SyncInv, SessionsOwned, Owned, TypeOK, Sessions
    <3> QED BY <3>1, <3>2 DEF SessionsOwned
  <2> QED BY <2>5, <2>6, <2>7, <2>8 DEF Busy
<1>2. CASE AnalysisRegistered(a) \/ AnalysisAnswered(a) \/ AnalysisFails(a)
  <2>1. /\ UNCHANGED <<pending, active, fate, stamp, due, serves, phase, from>>
        /\ analysis[a] \in {"sent", "registered"}
        /\ \A o \in Analyses : o # a => analysis'[o] = analysis[o]
    BY <1>2 DEF AnalysisRegistered, AnalysisAnswered, AnalysisFails, SyncInv, TypeOK
  <2>2. \A o \in Analyses : analysis'[o] \in {"sent", "registered"} => analysis[o] \in {"sent", "registered"}
    BY <2>1
  <2>3. SessionsOwned'
    BY <2>1, <2>2 DEF SyncInv, SessionsOwned, Owned
  <2> QED BY <2>1, <2>3 DEF Busy, SyncInv, PipeIsLive, ServesBaseline, ServesBatch, Owned, BaselineIsOfItsDrawing
<1> QED BY <1>1, <1>2 DEF Analyse

------------------------------------------------------------------------------
LEMMA SyncAtFirst == Init => SyncInv
<1> SUFFICES ASSUME Init PROVE SyncInv
  OBVIOUS
<1>1. TypeOK /\ Len(log) <= MaxEdits
  BY TypesAtFirst
<1>2. PipeIsLive /\ ServesBaseline /\ ServesBatch /\ SessionsOwned /\ BaselineIsOfItsDrawing
  BY DEF Init, Pipe!Init, PipeIsLive, ServesBaseline, ServesBatch, SessionsOwned, BaselineIsOfItsDrawing
<1> QED BY <1>1, <1>2 DEF SyncInv

LEMMA SyncStays == SyncInv /\ [Next]_vars => SyncInv'
<1> SUFFICES ASSUME SyncInv, [Next]_vars PROVE SyncInv'
  OBVIOUS
<1>1. Busy'
  <2>1. CASE UNCHANGED vars
    BY <2>1, BusyStays DEF vars, carried, pipe, worker, extracted, uploads
  <2> QED BY <2>1, UserBusy, SendsBusy, ResyncsBusy, AnalysisBusy DEF Next
<1> QED BY <1>1, SyncTypes DEF SyncInv, Busy

\* The variables keep their types, for any number of drawings, batches,
\* baselines and analyses.
THEOREM SyncIsTyped == Spec => []TypeOK
<1>1. SyncInv => TypeOK
  BY DEF SyncInv
<1> QED BY SyncAtFirst, SyncStays, <1>1, PTL DEF Spec

------------------------------------------------------------------------------
(* The copy of an entity goes forward.  Copies, what was extracted and what  *)
(* an analysis took are numbers of edits of the handle they stand under; an  *)
(* erasure is the last edit of its entity; and as long as no snapshot has    *)
(* come in between, what was extracted is not behind the copy.              *)

Shows(contents) ==
    \A h \in Handles : contents[h] # 0 => contents[h] \in Edits /\ log[contents[h]].handle = h
EraseIsLast ==
    \A n, m \in Edits : log[n].erases /\ log[m].drawing = log[n].drawing /\ log[m].handle = log[n].handle => m <= n
CopiesShow ==
    /\ Shows(got)
    /\ \A a \in Analyses : Shows(shot[a])
    /\ \A d \in Drawings : Shows(copy[d])
Own(d, h) == copy[d][h] # 0 /\ log[copy[d][h]].drawing = d
DeltaNotBehind ==
    phase = "deltas" /\ from = Target /\ base = serial[Target] =>
        \A h \in Handles : got[h] # 0 /\ Own(Target, h) => copy[Target][h] <= got[h]
SnapshotNotBehind ==
    phase = "snapshot" /\ from = Target /\ ~Aside =>
        \A h \in Handles : Own(Target, h) => copy[Target][h] <= got[h]
BaseIsKnown == phase \in {"extract", "deltas"} => base <= serial[Target]
FromIsKnown == phase \in {"deltas", "snapshot"} => from # None
Forward == EraseIsLast /\ CopiesShow /\ BaseIsKnown /\ FromIsKnown /\ DeltaNotBehind /\ SnapshotNotBehind
ForwardInv == SyncInv /\ Forward

\* Latest is the greatest of the edits of an entity, or there is none.
LEMMA LatestIsGreatest ==
    ASSUME TypeOK, NEW d, NEW h
    PROVE  /\ \A m \in Edits : log[m].drawing = d /\ log[m].handle = h => m <= Latest(d, h)
           /\ Latest(d, h) = 0 \/ (Latest(d, h) \in Edits /\ log[Latest(d, h)].drawing = d /\ log[Latest(d, h)].handle = h)
           /\ \A m \in Edits : m \in Nat /\ m > 0
<1> DEFINE mine == {n \in Edits : log[n].drawing = d /\ log[n].handle = h}
<1>1. Len(log) \in Nat /\ DOMAIN log = 1..Len(log)
  BY DEF TypeOK
<1>2. mine \subseteq 1..Len(log) /\ \A m \in Edits : m \in Nat /\ m > 0
  BY <1>1 DEF Edits
<1>3. CASE mine = {}
  <2>1. Latest(d, h) = 0
    BY <1>3 DEF Latest
  <2> QED BY <1>2, <1>3, <2>1
<1>4. CASE mine # {}
  <2>1. \E n \in mine : \A m \in mine : m <= n
    BY <1>1, <1>2, <1>4, HasGreatest
  <2>2. Latest(d, h) = CHOOSE n \in mine : \A m \in mine : m <= n
    BY <1>4 DEF Latest
  <2>3. Latest(d, h) \in mine /\ \A m \in mine : m <= Latest(d, h)
    BY <2>1, <2>2
  <2> QED BY <1>2, <2>3
<1> QED BY <1>3, <1>4

\* So what Full takes shows its entities, and is behind no copy of its own.
LEMMA FullShows ==
    ASSUME TypeOK, NEW d \in Drawings
    PROVE  Shows(Full(d))
BY LatestIsGreatest DEF Shows, Full

LEMMA OwnIsNotAhead ==
    ASSUME ForwardInv, NEW d \in Drawings, NEW h \in Handles, Own(d, h)
    PROVE  copy[d][h] <= Latest(d, h)
<1>1. copy[d][h] \in Edits /\ log[copy[d][h]].handle = h /\ log[copy[d][h]].drawing = d
  BY DEF ForwardInv, Forward, CopiesShow, Shows, Own
<1>2. TypeOK
  BY DEF ForwardInv, SyncInv
<1> QED BY <1>1, <1>2, LatestIsGreatest

\* An entity that was erased has no edit any more, so an erasure stays the last.
LEMMA ErasureStaysLast ==
    ASSUME ForwardInv, NEW h \in Handles, NEW erases \in BOOLEAN, NEW silent \in BOOLEAN, Happens(h, erases, silent)
    PROVE  /\ EraseIsLast' /\ Edits \subseteq Edits' /\ \A n \in Edits : log'[n] = log[n]
<1>1. TypeOK /\ EraseIsLast
  BY DEF ForwardInv, SyncInv, Forward
<1>2. Len(log) \in Nat /\ DOMAIN log = 1..Len(log)
  BY <1>1 DEF TypeOK
<1> DEFINE k == Len(log) + 1
           new == [drawing |-> front, handle |-> h, erases |-> erases, silent |-> silent]
<1>3. log' = Append(log, new)
  BY DEF Happens
<1>4. DOMAIN log' = 1..k /\ log'[k] = new /\ \A n \in 1..Len(log) : log'[n] = log[n]
  BY <1>1, <1>2, <1>3 DEF TypeOK
<1>5. Edits = 1..Len(log) /\ Edits' = 1..k
  BY <1>2, <1>4 DEF Edits
<1>6. ASSUME NEW n \in Edits, log[n].erases, log[n].drawing = front, log[n].handle = h
      PROVE  FALSE
  <2>1. Latest(front, h) \in Edits /\ n <= Latest(front, h)
        /\ log[Latest(front, h)].drawing = front /\ log[Latest(front, h)].handle = h
    BY <1>1, <1>6, LatestIsGreatest
  <2>2. Latest(front, h) <= n
    BY <1>1, <1>6, <2>1 DEF EraseIsLast
  <2>3. Latest(front, h) = n /\ n # 0
    BY <1>2, <1>5, <2>1, <2>2
  <2> QED BY <1>6, <2>3 DEF Happens, IsThere
<1>7. ASSUME NEW n \in Edits', NEW m \in Edits', log'[n].erases, log'[m].drawing = log'[n].drawing,
             log'[m].handle = log'[n].handle
      PROVE  m <= n
  <2>1. CASE n = k
    BY <1>2, <1>5, <2>1
  <2>2. CASE n \in Edits /\ m \in Edits
    BY <1>1, <1>4, <1>5, <1>7, <2>2 DEF EraseIsLast
  <2>3. CASE n \in Edits /\ m = k
    BY <1>4, <1>5, <1>6, <1>7, <2>3
  <2> QED BY <1>2, <1>5, <2>1, <2>2, <2>3
<1> HIDE DEF k, new
<1>8. EraseIsLast'
  BY <1>7 DEF EraseIsLast
<1>9. Edits \subseteq Edits' /\ \A n \in Edits : log'[n] = log[n]
  BY <1>2, <1>4, <1>5 DEF k
<1> QED BY <1>8, <1>9

\* The merge of a delta shows its entities, too.
LEMMA MergedShows ==
    ASSUME TypeOK, active \in Batches, NEW old, Shows(got), Shows(old)
    PROVE  Shows(Merged(old))
<1> SUFFICES ASSUME NEW h \in Handles, Merged(old)[h] # 0
             PROVE  Merged(old)[h] \in Edits /\ log[Merged(old)[h]].handle = h
  BY DEF Shows
<1>1. CASE h \in Erased(active)
  <2>1. \E n \in load[active] : log[n].handle = h /\ Erasure(n)
    BY <1>1 DEF Erased
  <2>2. Merged(old)[h] = CHOOSE n \in load[active] : log[n].handle = h /\ Erasure(n)
    BY <1>1 DEF Merged
  <2>3. Merged(old)[h] \in load[active] /\ log[Merged(old)[h]].handle = h
    BY <2>1, <2>2
  <2> QED BY <2>3 DEF TypeOK
<1>2. CASE h \notin Erased(active)
  BY <1>2 DEF Merged, Shows
<1> QED BY <1>1, <1>2

\* A step of the user, of the tracker or of an analysis that leaves the copies
\* and the worker alone; the log may grow.
LEMMA ForwardFrame ==
    ASSUME ForwardInv, EraseIsLast', Edits \subseteq Edits', \A n \in Edits : log'[n] = log[n],
           UNCHANGED <<got, copy, serial, base, phase, from>>,
           phase \notin {"idle", "send"} => Target' = Target,
           Aside => Aside',
           \A a \in Analyses : Shows(shot[a])'
    PROVE  Forward'
<1> USE DEF ForwardInv, Forward
<1>1. Shows(got)' /\ \A d \in Drawings : Shows(copy[d])'
  BY DEF CopiesShow, Shows
<1>2. CopiesShow'
  BY <1>1 DEF CopiesShow
<1>3. ASSUME NEW d \in Drawings, NEW h \in Handles, Own(d, h)' PROVE Own(d, h)
  <2>1. copy[d][h] \in Edits /\ copy'[d][h] = copy[d][h]
    BY <1>3 DEF CopiesShow, Shows, Own
  <2> QED BY <1>3, <2>1 DEF Own
<1>4. BaseIsKnown' /\ FromIsKnown'
  BY DEF BaseIsKnown, FromIsKnown
<1>5. phase \notin {"idle", "send"} => Target \in Drawings
  BY TargetIsDrawing
<1>6. DeltaNotBehind'
  BY <1>3, <1>5 DEF DeltaNotBehind
<1>7. SnapshotNotBehind'
  BY <1>3, <1>5 DEF SnapshotNotBehind
<1> QED BY <1>2, <1>4, <1>6, <1>7

\* A step of the worker after which nothing extracted waits to be committed.
LEMMA ForwardQuiet ==
    ASSUME ForwardInv, UNCHANGED <<log, shot>>, phase' \notin {"extract", "deltas", "snapshot"},
           Shows(got)', \A d \in Drawings : Shows(copy[d])'
    PROVE  Forward'
<1>1. EraseIsLast'
  BY DEF ForwardInv, Forward, EraseIsLast, Edits
<1>2. CopiesShow'
  BY DEF ForwardInv, Forward, CopiesShow, Shows, Edits
<1> QED BY <1>1, <1>2 DEF Forward, BaseIsKnown, FromIsKnown, DeltaNotBehind, SnapshotNotBehind

\* What was there shows the same when the log is the same.
LEMMA ShownStays ==
    ASSUME ForwardInv, UNCHANGED log
    PROVE  /\ \A a \in Analyses : UNCHANGED shot => Shows(shot[a])'
           /\ UNCHANGED got => Shows(got)'
           /\ \A d \in Drawings : UNCHANGED copy => Shows(copy[d])'
           /\ EraseIsLast' /\ Edits' = Edits /\ \A n \in Edits : log'[n] = log[n]
           /\ got' = Nothing => Shows(got)'
BY DEF ForwardInv, Forward, CopiesShow, Shows, EraseIsLast, Edits, Nothing

\* A batch or a session that is stamped is not the one the worker is at.
LEMMA TargetStays ==
    ASSUME SyncInv, phase \notin {"idle", "send"}, UNCHANGED <<serves, active>>,
           \A x \in Batches \cup Baselines : stamp[x] \in Context /\ (x \in Batches => fate[x] # "new")
                                             => stamp'[x] = stamp[x]
    PROVE  Target' = Target
<1>1. CASE serves # None
  <2>1. stamp[serves] \in Context /\ serves \in Baselines /\ serves \notin Batches
    BY <1>1, TasksApart DEF SyncInv, ServesBaseline, Owned, TypeOK
  <2> QED BY <1>1, <2>1 DEF Target
<1>2. CASE serves = None
  <2>1. stamp[active] \in Context /\ active \in Batches /\ fate[active] # "new"
    BY <1>2 DEF SyncInv, ServesBatch, Owned, PipeIsLive, TypeOK, Pipe!PipeTypeOK
  <2> QED BY <1>2, <2>1 DEF Target
<1> QED BY <1>1, <1>2

LEMMA UserForward == ASSUME ForwardInv, User \/ Greeting PROVE Forward'
<1> USE DEF editor, tracker, carried, pipe, worker, extracted, uploads, server
<1>1. SyncInv /\ TypeOK
  BY DEF ForwardInv, SyncInv
\* Where stamps change, they are of the batch or session that is new.
<1>2. ASSUME NEW b \in Batches, NEW edits, Batch(b, edits), UNCHANGED serves
      PROVE  phase \notin {"idle", "send"} => Target' = Target
  <2>1. fate[b] = "new" /\ UNCHANGED active /\ \A x \in Batches \cup Baselines : x # b => stamp'[x] = stamp[x]
    BY <1>1, <1>2 DEF Batch, Pipe!Submit, TypeOK, Sessions
  <2> QED BY <1>1, <1>2, <2>1, TargetStays
<1>3. ASSUME NEW s \in Baselines, NewSession(s), UNCHANGED <<serves, active>>
      PROVE  phase \notin {"idle", "send"} => Target' = Target
  <2>1. stamp[s] \notin Context /\ \A x \in Batches \cup Baselines : x # s => stamp'[x] = stamp[x]
    BY <1>1, <1>3, TasksApart DEF NewSession, TypeOK, Sessions, Context
  <2> QED BY <1>1, <1>3, <2>1, TargetStays
<1>4. UNCHANGED analysis => (Aside => Aside')
  BY DEF Aside
<1>5. UNCHANGED stamp /\ UNCHANGED <<serves, active>> => Target' = Target
  BY DEF Target
\* The log stays as it is.
<1>6. ASSUME UNCHANGED <<log, got, copy, serial, base, phase, from, serves, active, shot, analysis>>,
             phase \notin {"idle", "send"} => Target' = Target
      PROVE  Forward'
  BY <1>4, <1>6, ShownStays, ForwardFrame
<1>7. CASE CommandStarts \/ CommandCancelled \/ SessionInfo
  BY <1>5, <1>6, <1>7 DEF CommandStarts, CommandCancelled, SessionInfo
<1>8. CASE CommandEnds
  <2>1. CASE marked # {} /\ context # None
    BY <1>2, <1>6, <1>8, <2>1 DEF CommandEnds, Batch, Pipe!Submit
  <2>2. CASE ~(marked # {} /\ context # None)
    BY <1>5, <1>6, <1>8, <2>2 DEF CommandEnds
  <2> QED BY <2>1, <2>2
<1>9. ASSUME NEW d \in Drawings, ActivateDocument(d) PROVE Forward'
  BY <1>5, <1>6, <1>9 DEF ActivateDocument
<1>10. CASE RefreshActivated
  BY <1>3, <1>5, <1>6, <1>10 DEF RefreshActivated
<1>11. CASE RefreshGreeted
  BY <1>3, <1>5, <1>6, <1>11 DEF RefreshGreeted
\* The log grows.
<1>12. ASSUME NEW h \in Handles, NEW erases \in BOOLEAN, NEW silent \in BOOLEAN, Happens(h, erases, silent),
              UNCHANGED <<got, copy, serial, base, phase, from, serves, active, shot, analysis>>,
              phase \notin {"idle", "send"} => Target' = Target
       PROVE  Forward'
  <2>1. EraseIsLast' /\ Edits \subseteq Edits' /\ \A n \in Edits : log'[n] = log[n]
    BY <1>12, ErasureStaysLast
  <2>2. \A a \in Analyses : Shows(shot[a])'
    BY <1>12, <2>1 DEF ForwardInv, Forward, CopiesShow, Shows
  <2> QED BY <1>4, <1>12, <2>1, <2>2, ForwardFrame
<1>13. ASSUME NEW h \in Handles, NEW erases \in BOOLEAN, Edit(h, erases) PROVE Forward'
  BY <1>5, <1>12, <1>13 DEF Edit
<1>14. ASSUME NEW h \in Handles, NEW erases \in BOOLEAN, ApplyFix(h, erases) PROVE Forward'
  <2>1. PICK b \in Batches : Batch(b, {Len(log')})
    BY <1>14 DEF ApplyFix
  <2>2. Happens(h, erases, erases) /\ UNCHANGED <<got, copy, serial, base, phase, from, serves, active, shot, analysis>>
    BY <1>14, <2>1 DEF ApplyFix, Batch, Pipe!Submit
  <2>3. phase \notin {"idle", "send"} => Target' = Target
    BY <1>2, <2>1, <2>2
  <2> QED BY <1>12, <2>2, <2>3
<1> QED BY <1>7, <1>8, <1>9, <1>10, <1>11, <1>13, <1>14 DEF User, Greeting

LEMMA AnalysisForward == ASSUME ForwardInv, NEW a \in Analyses, Analyse(a) PROVE Forward'
<1> USE DEF editor, tracker, carried, pipe, worker, extracted, uploads, server
<1>1. SyncInv /\ TypeOK
  BY DEF ForwardInv, SyncInv
<1>2. Analyse(a) => UNCHANGED <<log, got, base, phase, from, serves, active>>
  BY DEF Analyse, AnalysisSent, AnalysisRegistered, AnalysisAnswered, AnalysisFails
<1>3. Aside'
  BY <1>1 DEF Analyse, AnalysisSent, AnalysisRegistered, AnalysisAnswered, AnalysisFails, Aside, TypeOK
<1>4. phase \notin {"idle", "send"} => Target' = Target
  <2>1. \A x \in Batches \cup Baselines : stamp'[x] = stamp[x]
    BY <1>1, TasksApart DEF Analyse, AnalysisSent, AnalysisRegistered, AnalysisAnswered, AnalysisFails, TypeOK, Sessions
  <2> QED BY <1>1, <1>2, <2>1, TargetStays
<1>5. CASE AnalysisSent(a)
  <2>1. Shows(Full(front))
    BY <1>1, FullShows DEF TypeOK
  <2>2. shot'[a] = Full(front) /\ \A o \in Analyses : o # a => shot'[o] = shot[o]
    BY <1>1, <1>5 DEF AnalysisSent, TypeOK
  <2>3. \A o \in Analyses : Shows(shot[o])'
    <3>1. \A o \in Analyses : Shows(shot[o])
      BY DEF ForwardInv, Forward, CopiesShow
    <3>2. \A o \in Analyses : Shows(shot'[o])
      BY <2>1, <2>2, <3>1
    <3> QED BY <1>2, <3>2 DEF Shows, Edits
  <2>4. UNCHANGED <<copy, serial>>
    BY <1>5 DEF AnalysisSent
  <2> QED BY <1>2, <1>3, <1>4, <2>3, <2>4, ShownStays, ForwardFrame
<1>6. CASE AnalysisAnswered(a)
  <2>1. UNCHANGED <<copy, serial, shot>>
    BY <1>6 DEF AnalysisAnswered
  <2> QED BY <1>2, <1>3, <1>4, <2>1, ShownStays, ForwardFrame
\* What it extracted is forgotten.
<1>8. ASSUME shot' = [shot EXCEPT ![a] = Nothing], UNCHANGED log PROVE \A o \in Analyses : Shows(shot[o])'
  <2>1. \A o \in Analyses : Shows(shot[o])
    BY DEF ForwardInv, Forward, CopiesShow
  <2>2. \A o \in Analyses : shot'[o] = IF o = a THEN Nothing ELSE shot[o]
    BY <1>1, <1>8 DEF TypeOK
  <2>3. Shows(Nothing)
    BY DEF Shows, Nothing
  <2>4. \A o \in Analyses : Shows(shot'[o])
    BY <2>1, <2>2, <2>3
  <2> QED BY <1>8, <2>4 DEF Shows, Edits
<1>9. CASE AnalysisFails(a)
  <2>1. UNCHANGED <<copy, serial>> /\ \A o \in Analyses : Shows(shot[o])'
    BY <1>2, <1>8, <1>9 DEF AnalysisFails
  <2> QED BY <1>2, <1>3, <1>4, <2>1, ShownStays, ForwardFrame
\* A snapshot of its own: a delta that is on its way has another base now.
<1>7. CASE AnalysisRegistered(a)
  <2> DEFINE d == stamp[a].drawing
  <2>1. d \in Drawings
    BY <1>1, <1>7 DEF AnalysisRegistered, SyncInv, SessionsOwned, Owned, Context
  <2>2. /\ copy' = [copy EXCEPT ![d] = shot[a]] /\ serial' = [serial EXCEPT ![d] = @ + 1]
        /\ shot' = [shot EXCEPT ![a] = Nothing]
    BY <1>7 DEF AnalysisRegistered
  <2>3. \A o \in Drawings : copy'[o] = IF o = d THEN shot[a] ELSE copy[o]
    BY <1>1, <2>1, <2>2 DEF TypeOK
  <2>4. \A o \in Drawings : serial[o] \in Nat /\ serial'[o] = IF o = d THEN serial[o] + 1 ELSE serial[o]
    BY <1>1, <2>1, <2>2 DEF TypeOK
  <2> HIDE DEF d
  <2>5. Shows(got)' /\ \A o \in Analyses : Shows(shot[o])'
    BY <1>2, <1>8, <2>2, ShownStays, Zenon
  <2>6. \A o \in Drawings : Shows(copy[o])'
    <3>1. Shows(shot[a]) /\ \A o \in Drawings : Shows(copy[o])
      BY DEF ForwardInv, Forward, CopiesShow
    <3>2. \A o \in Drawings : Shows(copy'[o])
      BY <2>3, <3>1
    <3> QED BY <1>2, <3>2 DEF Shows, Edits
  <2>7. phase \notin {"idle", "send"} => Target \in Drawings
    BY <1>1, TargetIsDrawing
  <2>8. base \in Nat
    BY <1>1 DEF TypeOK
  <2>9. BaseIsKnown'
    BY <1>2, <1>4, <2>4, <2>7, <2>8 DEF BaseIsKnown, ForwardInv, Forward
  <2>10. DeltaNotBehind'
    <3>1. SUFFICES ASSUME phase' = "deltas", from' = Target', base' = serial'[Target']
                   PROVE  \A h \in Handles : got'[h] # 0 /\ Own(Target, h)' => copy'[Target'][h] <= got'[h]
      BY DEF DeltaNotBehind
    <3>2. phase = "deltas" /\ Target' = Target /\ Target \in Drawings /\ base <= serial[Target]
      BY <1>2, <1>4, <2>7, <3>1 DEF ForwardInv, Forward, BaseIsKnown
    <3>3. Target # d /\ base = serial[Target] /\ from = Target
      BY <1>2, <2>4, <2>8, <3>1, <3>2
    <3>4. copy'[Target] = copy[Target] /\ got' = got /\ log' = log
      BY <1>2, <2>3, <3>2, <3>3
    <3>5. \A h \in Handles : got[h] # 0 /\ Own(Target, h) => copy[Target][h] <= got[h]
      BY <3>2, <3>3 DEF ForwardInv, Forward, DeltaNotBehind
    <3> QED BY <3>2, <3>4, <3>5 DEF Own
  <2>11. SnapshotNotBehind' /\ FromIsKnown'
    BY <1>2, <1>3 DEF SnapshotNotBehind, FromIsKnown, ForwardInv, Forward
  <2>12. EraseIsLast'
    BY <1>2, ShownStays
  <2> QED BY <2>5, <2>6, <2>9, <2>10, <2>11, <2>12 DEF Forward, CopiesShow
<1> QED BY <1>5, <1>6, <1>7, <1>9 DEF Analyse

LEMMA SendsForward == ASSUME ForwardInv, Sends PROVE Forward'
<1> USE DEF editor, tracker, carried, pipe, worker, extracted, uploads, server
<1>1. SyncInv /\ TypeOK
  BY DEF ForwardInv, SyncInv
<1>2. CASE \E b \in Batches : TakeBatch(b)
  <2>1. UNCHANGED <<log, shot, got, copy>> /\ phase' = "send"
    BY <1>2 DEF TakeBatch
  <2> QED BY <2>1, ShownStays, ForwardQuiet
<1>3. CASE AnswerWait \/ PutBack
  <2>1. UNCHANGED <<log, shot, copy>> /\ phase' = "idle" /\ got' = Nothing
    BY <1>3 DEF AnswerWait, PutBack, Idle, Empty
  <2> QED BY <2>1, ShownStays, ForwardQuiet
<1>4. CASE Answer
  <2>1. UNCHANGED <<log, got, copy, shot, serial, serves, active, stamp>>
    BY <1>4 DEF Answer
  <2>2. CASE phase' = "start"
    BY <2>1, <2>2, ShownStays, ForwardQuiet
  <2>3. CASE phase' = "extract" /\ base' = serial[Target]
    <3>1. Target' = Target /\ phase = "send" /\ serves = None /\ active # NoBatch
      BY <1>1, <1>4, <2>1 DEF Target, Answer, SyncInv, ServesBaseline, ServesBatch
    <3>2. active \in Batches /\ stamp[active] \in Context
      BY <1>1, <1>4, <3>1 DEF Answer, TypeOK, Pipe!PipeTypeOK
    <3>3. Target \in Drawings
      BY <3>1, <3>2 DEF Target, Context
    <3>4. BaseIsKnown'
      BY <1>1, <2>1, <2>3, <3>1, <3>3 DEF BaseIsKnown, TypeOK
    <3>5. CopiesShow' /\ EraseIsLast'
      BY <2>1, ShownStays DEF CopiesShow
    <3> QED BY <2>3, <3>4, <3>5 DEF Forward, FromIsKnown, DeltaNotBehind, SnapshotNotBehind
  <2> QED BY <1>4, <2>2, <2>3 DEF Answer
<1>5. CASE Extract
  <2>1. UNCHANGED <<log, copy, shot, serial, serves, active, stamp, base>> /\ phase = "extract" /\ phase' = "deltas" /\ from' = front
    BY <1>5 DEF Extract
  <2>2. \A h \in Handles : got'[h] # 0 => got'[h] = Latest(front, h)
    BY <1>5 DEF Extract
  <2>3. Target' = Target /\ Target \in Drawings /\ front \in Drawings
    BY <1>1, <2>1, TargetIsDrawing DEF Target, TypeOK
  <2>4. \A h \in Handles : got'[h] # 0 => got'[h] \in Edits /\ log[got'[h]].handle = h
    BY <1>1, <2>2, LatestIsGreatest
  <2>5. Shows(got)'
    BY <2>1, <2>4 DEF Shows, Edits
  <2>6. CopiesShow' /\ EraseIsLast'
    BY <2>1, <2>5, ShownStays DEF CopiesShow
  <2>7. BaseIsKnown' /\ FromIsKnown'
    BY <2>1, <2>3, TasksApart DEF BaseIsKnown, FromIsKnown, ForwardInv, Forward
  <2>8. DeltaNotBehind'
    <3>1. SUFFICES ASSUME front = Target, NEW h \in Handles, got'[h] # 0, Own(Target, h)
                   PROVE  copy[Target][h] <= got'[h]
      BY <2>1, <2>3 DEF DeltaNotBehind, Own
    <3> QED BY <2>2, <2>3, <3>1, OwnIsNotAhead
  <2> QED BY <2>1, <2>6, <2>7, <2>8 DEF Forward, SnapshotNotBehind
<1>6. CASE CommitDelta \/ DeltaAnswerLost
  <2>1. UNCHANGED <<log, shot>> /\ phase = "deltas" /\ phase' = "idle" /\ got' = Nothing
    BY <1>6 DEF CommitDelta, DeltaAnswerLost, Idle, Empty
  <2>2. active \in Batches
    BY <1>1, <2>1 DEF SyncInv, ServesBaseline, ServesBatch, TypeOK, Pipe!PipeTypeOK
  <2>3. Shows(got) /\ \A d \in Drawings : Shows(copy[d])
    BY DEF ForwardInv, Forward, CopiesShow
  <2>4. \A d \in Drawings : copy'[d] = IF d = Target THEN Merged(copy[Target]) ELSE copy[d]
    BY <1>1, <1>6 DEF CommitDelta, DeltaAnswerLost, TypeOK
  <2>5. \A d \in Drawings : Shows(copy'[d])
    BY <1>1, <2>2, <2>3, <2>4, MergedShows
  <2>6. \A d \in Drawings : Shows(copy[d])'
    BY <2>1, <2>5 DEF Shows, Edits
  <2> QED BY <2>1, <2>6, ShownStays, ForwardQuiet
<1> QED BY <1>2, <1>3, <1>4, <1>5, <1>6 DEF Sends

LEMMA ResyncsForward == ASSUME ForwardInv, Resyncs PROVE Forward'
<1> USE DEF editor, tracker, carried, pipe, worker, extracted, uploads, server
<1>1. SyncInv /\ TypeOK
  BY DEF ForwardInv, SyncInv
<1>2. CASE \/ \E s \in Baselines : BaselineBegins(s)
           \/ BaselineChecks \/ BaselineThrows \/ StartResync
  <2>1. UNCHANGED <<log, shot, got, copy>> /\ phase' \notin {"extract", "deltas", "snapshot"}
    BY <1>2 DEF BaselineBegins, BaselineChecks, BaselineThrows, StartResync
  <2> QED BY <2>1, ShownStays, ForwardQuiet
<1>3. ResyncEnds => got' = Nothing /\ phase' \in {"idle", "clear"}
  BY DEF ResyncEnds, Idle, Empty
<1>4. CASE ResyncRefused \/ ResyncFails \/ BaselineClears
  <2>1. UNCHANGED <<log, shot, copy>> /\ phase' \in {"idle", "clear"} /\ got' = Nothing
    BY <1>3, <1>4 DEF ResyncRefused, ResyncFails, BaselineClears, Idle, Empty
  <2> QED BY <2>1, ShownStays, ForwardQuiet
<1>5. CASE ExtractAll
  <2>1. /\ UNCHANGED <<log, copy, shot, serves, active, stamp, analysis>> /\ phase = "extractAll" /\ phase' = "snapshot"
        /\ from' = front /\ got' = Full(front)
    BY <1>5 DEF ExtractAll
  <2>2. Target' = Target /\ Target \in Drawings /\ front \in Drawings
    BY <1>1, <2>1, TargetIsDrawing DEF Target, TypeOK
  <2>3. Shows(got')
    BY <1>1, <2>1, <2>2, FullShows
  <2>4. Shows(got)'
    BY <2>1, <2>3 DEF Shows, Edits
  <2>5. CopiesShow' /\ EraseIsLast'
    BY <2>1, <2>4, ShownStays DEF CopiesShow
  <2>6. SnapshotNotBehind'
    <3>1. SUFFICES ASSUME front = Target, NEW h \in Handles, Own(Target, h)
                   PROVE  copy[Target][h] <= got'[h]
      BY <2>1, <2>2 DEF SnapshotNotBehind, Own
    <3>2. got'[h] = Latest(Target, h)
      BY <2>1, <3>1 DEF Full
    <3> QED BY <2>2, <3>1, <3>2, OwnIsNotAhead
  <2>7. FromIsKnown'
    BY <2>1, <2>2, TasksApart DEF FromIsKnown
  <2> QED BY <2>1, <2>5, <2>6, <2>7 DEF Forward, BaseIsKnown, DeltaNotBehind
<1>6. CASE CommitSnapshot
  <2>1. UNCHANGED <<log, shot>> /\ phase' \in {"idle", "clear"} /\ got' = Nothing
    BY <1>3, <1>6 DEF CommitSnapshot
  <2>2. Shows(got) /\ \A d \in Drawings : Shows(copy[d])
    BY DEF ForwardInv, Forward, CopiesShow
  <2>3. \A d \in Drawings : copy'[d] = IF d = Target THEN got ELSE copy[d]
    BY <1>1, <1>6 DEF CommitSnapshot, TypeOK
  <2>4. \A d \in Drawings : Shows(copy[d])'
    BY <2>1, <2>2, <2>3 DEF Shows, Edits
  <2> QED BY <2>1, <2>4, ShownStays, ForwardQuiet
<1>7. CASE \E d \in Drawings : LockExpires(d)
  <2>1. UNCHANGED <<log, got, copy, serial, base, phase, from, shot, serves, active, stamp, analysis>>
    BY <1>7 DEF LockExpires
  <2>2. Target' = Target /\ (Aside => Aside')
    BY <2>1 DEF Target, Aside
  <2> QED BY <2>1, <2>2, ShownStays, ForwardFrame
<1> QED BY <1>2, <1>4, <1>5, <1>6, <1>7 DEF Resyncs

LEMMA ForwardAtFirst == Init => ForwardInv
<1> SUFFICES ASSUME Init PROVE ForwardInv
  OBVIOUS
<1>1. EraseIsLast
  BY DEF Init, EraseIsLast, Edits
<1>2. CopiesShow
  BY DEF Init, CopiesShow, Shows, Nothing
<1>3. BaseIsKnown /\ FromIsKnown /\ DeltaNotBehind /\ SnapshotNotBehind
  BY DEF Init, BaseIsKnown, FromIsKnown, DeltaNotBehind, SnapshotNotBehind
<1> QED BY <1>1, <1>2, <1>3, SyncAtFirst DEF ForwardInv, Forward

LEMMA ForwardStays == ForwardInv /\ [Next]_vars => ForwardInv'
<1> SUFFICES ASSUME ForwardInv, [Next]_vars PROVE ForwardInv'
  OBVIOUS
<1>1. CASE UNCHANGED vars
  <2>1. UNCHANGED <<log, got, copy, serial, base, phase, from, shot, serves, active, stamp, analysis>>
    BY <1>1 DEF vars, editor, carried, pipe, worker, extracted, uploads, server
  <2>2. Target' = Target /\ (Aside => Aside')
    BY <2>1 DEF Target, Aside
  <2>3. Forward'
    BY <2>1, <2>2, ShownStays, ForwardFrame
  <2> QED BY <2>3, SyncStays DEF ForwardInv
<1>2. CASE Next
  <2>1. Forward'
    BY <1>2, UserForward, SendsForward, ResyncsForward, AnalysisForward DEF Next
  <2> QED BY <2>1, SyncStays DEF ForwardInv
<1> QED BY <1>1, <1>2

\* One step at a time.  A delta of the base that is current carries nothing
\* older than the copy; nor does a snapshot, unless an analysis sent its own.
LEMMA StepGoesForward ==
    ASSUME ForwardInv, [Next]_vars, NEW d \in Drawings, NEW h \in Handles,
           copy'[d][h] < copy[d][h], log[copy[d][h]].drawing = d
    PROVE  Strayed \/ (serial'[d] # serial[d] /\ Aside)
<1> USE DEF editor, tracker, carried, pipe, worker, extracted, uploads, server
<1>1. TypeOK /\ copy[d][h] \in Nat /\ serial[d] \in Nat
  <2>1. TypeOK
    BY DEF ForwardInv, SyncInv
  <2>2. copy \in [Drawings -> [Handles -> 0..MaxEdits]] /\ serial \in [Drawings -> Nat]
    BY <2>1 DEF TypeOK, Contents, Numbers
  <2>3. copy[d][h] \in 0..MaxEdits
    BY <2>2
  <2> QED BY <2>1, <2>2, <2>3, BoundsNat
<1>2. copy' # copy
  BY <1>1
<1>3. CommitDelta \/ DeltaAnswerLost \/ CommitSnapshot \/ \E a \in Analyses : AnalysisRegistered(a)
  <2>1. ~User
    BY <1>2 DEF User, CommandStarts, CommandEnds, CommandCancelled, Edit, ApplyFix, ActivateDocument
  <2>2. ~Greeting
    BY <1>2 DEF Greeting, SessionInfo, RefreshActivated, RefreshGreeted
  <2>3. Sends => CommitDelta \/ DeltaAnswerLost
    BY <1>2 DEF Sends, TakeBatch, AnswerWait, Answer, PutBack, Extract
  <2>4. Resyncs => CommitSnapshot
    BY <1>2 DEF Resyncs, BaselineBegins, BaselineChecks, BaselineThrows, ResyncRefused, StartResync,
       ExtractAll, ResyncFails, BaselineClears, LockExpires
  <2>5. \A a \in Analyses : Analyse(a) => AnalysisRegistered(a)
    BY <1>2 DEF Analyse, AnalysisSent, AnalysisAnswered, AnalysisFails
  <2> QED BY <1>2, <2>1, <2>2, <2>3, <2>4, <2>5 DEF Next, vars
<1>4. copy[d][h] \in Edits /\ log[copy[d][h]].handle = h /\ Own(d, h)
  <2>1. copy[d][h] # 0
    <3>1. copy'[d][h] \in Nat
      BY SyncTypes DEF ForwardInv, TypeOK, Contents, Numbers
    <3> QED BY <1>1, <3>1
  <2> QED BY <2>1 DEF ForwardInv, Forward, CopiesShow, Shows, Own
<1>5. CASE CommitDelta \/ DeltaAnswerLost
  <2>1. SUFFICES ASSUME ~Strayed PROVE FALSE
    OBVIOUS
  <2>2. phase = "deltas" /\ base = serial[Target] /\ copy' = [copy EXCEPT ![Target] = Merged(copy[Target])]
    BY <1>5 DEF CommitDelta, DeltaAnswerLost
  <2>8. serves = None
    BY <2>2 DEF ForwardInv, SyncInv, ServesBaseline
  <2>3. from = Target /\ (\A n \in load[active] : log[n].drawing = Target)
    BY <2>1, <2>2, <2>8 DEF Strayed, ForwardInv, Forward, FromIsKnown
  <2>4. Target = d /\ copy'[d] = Merged(copy[d])
    BY <1>1, <2>2 DEF TypeOK
  <2>5. active \in Batches
    BY <1>1, <2>2 DEF ForwardInv, SyncInv, ServesBaseline, ServesBatch, TypeOK, Pipe!PipeTypeOK
  <2>6. CASE h \in Erased(active)
    <3>1. \E n \in load[active] : log[n].handle = h /\ Erasure(n)
      BY <2>6 DEF Erased
    <3>2. copy'[d][h] = CHOOSE n \in load[active] : log[n].handle = h /\ Erasure(n)
      BY <2>4, <2>6 DEF Merged
    <3> DEFINE e == copy'[d][h]
    <3>3. e \in load[active] /\ log[e].handle = h /\ log[e].erases
      BY <3>1, <3>2 DEF Erasure
    <3>4. e \in Edits /\ log[e].drawing = d
      BY <1>1, <2>3, <2>4, <2>5, <3>3 DEF TypeOK
    <3>5. copy[d][h] <= e
      BY <1>4, <3>3, <3>4 DEF ForwardInv, Forward, EraseIsLast
    <3>6. e \in Nat
      BY <1>1, <3>4, LatestIsGreatest
    <3> QED BY <1>1, <3>5, <3>6
  <2>7. CASE h \notin Erased(active)
    <3>1. copy'[d][h] = IF got[h] # 0 THEN got[h] ELSE copy[d][h]
      BY <2>4, <2>7 DEF Merged
    <3>2. got[h] # 0 => copy[d][h] <= got[h]
      BY <1>4, <2>2, <2>3, <2>4 DEF ForwardInv, Forward, DeltaNotBehind
    <3>3. got[h] \in Nat
      BY <1>1 DEF TypeOK, Contents, Numbers
    <3> QED BY <1>1, <3>1, <3>2, <3>3
  <2> QED BY <2>6, <2>7
<1>6. CASE CommitSnapshot
  <2>1. phase = "snapshot" /\ copy' = [copy EXCEPT ![Target] = got] /\ serial' = [serial EXCEPT ![Target] = serial[Target] + 1]
    BY <1>6 DEF CommitSnapshot
  <2>2. Target = d /\ copy'[d][h] = got[h] /\ serial'[d] = serial[d] + 1
    BY <1>1, <2>1 DEF TypeOK
  <2>3. CASE Aside
    BY <1>1, <2>2, <2>3
  <2>4. CASE ~Aside /\ ~Strayed
    <3>1. from = Target
      BY <2>1, <2>4 DEF Strayed, Target, ForwardInv, SyncInv, BaselineIsOfItsDrawing, Forward, FromIsKnown
    <3>2. copy[d][h] <= got[h]
      BY <1>4, <2>1, <2>2, <2>4, <3>1 DEF ForwardInv, Forward, SnapshotNotBehind
    <3>3. got[h] \in Nat
      BY <1>1 DEF TypeOK, Contents, Numbers
    <3> QED BY <1>1, <2>2, <3>2, <3>3
  <2> QED BY <2>3, <2>4
<1>7. ASSUME NEW a \in Analyses, AnalysisRegistered(a)
      PROVE  serial'[d] # serial[d] /\ Aside
  <2>1. /\ analysis[a] = "sent" /\ copy' = [copy EXCEPT ![stamp[a].drawing] = shot[a]]
        /\ serial' = [serial EXCEPT ![stamp[a].drawing] = serial[stamp[a].drawing] + 1]
    BY <1>7 DEF AnalysisRegistered
  <2>2. stamp[a].drawing = d
    BY <1>1, <2>1 DEF TypeOK
  <2>3. serial'[d] = serial[d] + 1
    BY <1>1, <2>1, <2>2 DEF TypeOK
  <2> QED BY <1>1, <2>1, <2>3 DEF Aside
<1> QED BY <1>3, <1>5, <1>6, <1>7

\* The server's copy of an entity never goes back to an older version
\* (DrawingRevisionTracker.cs 415-437, 496-560, 716-759, cad_interop.py 419),
\* for any number of edits, batches, switches and analyses.
THEOREM CopiesGoForward == Spec => CopyGoesForward
<1>1. ForwardInv /\ [Next]_vars =>
        [\A d \in Drawings, h \in Handles :
            copy'[d][h] < copy[d][h] /\ log[copy[d][h]].drawing = d =>
                Strayed \/ (serial'[d] # serial[d] /\ Aside)]_vars
  BY StepGoesForward
<1> QED BY ForwardAtFirst, ForwardStays, <1>1, PTL DEF Spec, CopyGoesForward

------------------------------------------------------------------------------
(* No edit is forgotten but where the code gives it up.  A batch holds edits *)
(* of one drawing, so no erasure of another one hides an edit in it; what is *)
(* extracted for a batch is of its handles and of the document in front, and *)
(* nothing is left over from the extraction before.                          *)

MarkedOfFront == \A m \in marked : log[m].drawing = front /\ ~log[m].silent
NothingYet == phase \notin {"deltas", "snapshot"} => got = Nothing
GotOfDocument == \A h \in Handles : got[h] # 0 => log[got[h]].drawing = from
GotOfBatch == phase = "deltas" => \A h \in Handles : got[h] # 0 => h \in Put(active) /\ ~log[got[h]].erases
Gathered == MarkedOfFront /\ NothingYet /\ GotOfDocument /\ GotOfBatch
CoverInv == ForwardInv /\ Gathered

LogGrows == Edits \subseteq Edits' /\ \A n \in Edits : log'[n] = log[n]

\* What a batch brings is settled when it is submitted.
LEMMA LoadStays ==
    ASSUME TypeOK, LogGrows, NEW b \in Batches, load'[b] = load[b]
    PROVE  /\ Erased(b)' = Erased(b) /\ Put(b)' = Put(b)
           /\ \A n \in Edits : Brings(b, n) => Brings(b, n)'
<1>1. load[b] \subseteq Edits
  BY DEF TypeOK
<1>2. \A n \in load[b] : log'[n] = log[n]
  BY <1>1 DEF LogGrows
<1>3. Erased(b)' = Erased(b)
  BY <1>2 DEF Erased, Erasure
<1>4. Put(b)' = Put(b)
  BY <1>2, <1>3 DEF Put
<1> QED BY <1>3, <1>4 DEF Brings, Erasure, LogGrows

\* A step that extracts nothing and leaves the batch at hand alone.
LEMMA GatheredStays ==
    ASSUME CoverInv, LogGrows, UNCHANGED <<got, from>>,
           phase' = phase \/ {phase, phase'} \cap {"deltas", "snapshot"} = {},
           phase = "deltas" => active' = active /\ load'[active] = load[active],
           MarkedOfFront'
    PROVE  Gathered'
<1>1. TypeOK /\ ServesBaseline /\ ServesBatch /\ Shows(got)
  BY DEF CoverInv, ForwardInv, SyncInv, Forward, CopiesShow
<1>2. \A h \in Handles : got[h] # 0 => log'[got[h]] = log[got[h]]
  BY <1>1 DEF Shows, LogGrows
<1>3. GotOfDocument' /\ NothingYet'
  BY <1>2 DEF CoverInv, Gathered, GotOfDocument, NothingYet, Nothing
<1>4. GotOfBatch'
  <2> SUFFICES ASSUME phase' = "deltas", NEW h \in Handles, got'[h] # 0
               PROVE  h \in Put(active)' /\ ~log'[got'[h]].erases
    BY DEF GotOfBatch
  <2>1. phase = "deltas" /\ active \in Batches /\ active' = active /\ load'[active] = load[active]
    BY <1>1 DEF ServesBaseline, ServesBatch, TypeOK, Pipe!PipeTypeOK
  <2>2. h \in Put(active) /\ ~log[got[h]].erases
    BY <2>1 DEF CoverInv, Gathered, GotOfBatch
  <2>3. Put(active)' = Put(active)
    <3> DEFINE b == active
    <3>1. b \in Batches /\ load'[b] = load[b]
      BY <2>1
    <3>2. \A n \in load[b] : log'[n] = log[n]
      BY <1>1, <3>1 DEF TypeOK, LogGrows
    <3> QED BY <2>1, <3>1, <3>2 DEF Put, Erased, Erasure
  <2> QED BY <1>2, <2>2, <2>3
<1> QED BY <1>3, <1>4 DEF Gathered

LEMMA NothingGathered ==
    ASSUME phase' \notin {"deltas", "snapshot"}, got' = Nothing, MarkedOfFront'
    PROVE  Gathered'
BY DEF Gathered, NothingYet, GotOfDocument, GotOfBatch, Nothing

\* Each step keeps it: a delta is of its batch and of the document in front.
LEMMA GatheredKept == ASSUME CoverInv, [Next]_vars PROVE Gathered'
<1> USE DEF editor, tracker, carried, pipe, worker, extracted, uploads, server
<1>0. ForwardInv /\ SyncInv /\ TypeOK /\ Gathered /\ ServesBaseline /\ ServesBatch
  BY DEF CoverInv, ForwardInv, SyncInv
<1>1. /\ UNCHANGED log => LogGrows
      /\ \A h \in Handles, erases, silent \in BOOLEAN : Happens(h, erases, silent) => LogGrows
  BY <1>0, ErasureStaysLast DEF LogGrows, Edits
<1>2. UNCHANGED <<log, front>> /\ (marked' = marked \/ marked' = {}) => MarkedOfFront'
  BY <1>0 DEF MarkedOfFront, Gathered
<1>3. marked' = {} => MarkedOfFront'
  BY DEF MarkedOfFront
<1>4. ASSUME NEW b \in Batches, NEW edits, Batch(b, edits)
      PROVE  phase = "deltas" => active' = active /\ load'[active] = load[active]
  <2> SUFFICES ASSUME phase = "deltas" PROVE active' = active /\ load'[active] = load[active]
    OBVIOUS
  <2>1. fate[b] = "new" /\ active' = active /\ load' = [load EXCEPT ![b] = edits]
    BY <1>4 DEF Batch, Pipe!Submit
  <2>2. active \in Batches /\ fate[active] = "live"
    BY <1>0 DEF ServesBaseline, ServesBatch, SyncInv, PipeIsLive, TypeOK, Pipe!PipeTypeOK
  <2> QED BY <1>0, <2>1, <2>2 DEF TypeOK
<1>5. CASE CommandStarts \/ CommandCancelled \/ SessionInfo
  BY <1>1, <1>2, <1>5, GatheredStays DEF CommandStarts, CommandCancelled, SessionInfo
<1>6. CASE CommandEnds
  <2>1. CASE marked # {} /\ context # None
    BY <1>1, <1>2, <1>4, <1>6, <2>1, GatheredStays DEF CommandEnds
  <2>2. CASE ~(marked # {} /\ context # None)
    BY <1>1, <1>2, <1>6, <2>2, GatheredStays DEF CommandEnds
  <2> QED BY <2>1, <2>2
<1>7. ASSUME NEW h \in Handles, NEW erases \in BOOLEAN, NEW silent \in BOOLEAN, Happens(h, erases, silent),
             marked' = marked \/ (~silent /\ marked' = marked \cup {Len(log')}), UNCHANGED front
      PROVE  MarkedOfFront'
  <2>1. log' = Append(log, [drawing |-> front, handle |-> h, erases |-> erases, silent |-> silent])
    BY <1>7 DEF Happens
  <2>2. log'[Len(log')].drawing = front /\ log'[Len(log')].silent = silent
    BY <1>0, <2>1 DEF TypeOK
  <2>3. \A m \in marked : log'[m].drawing = front /\ ~log'[m].silent
    BY <1>0, <1>1, <1>7 DEF TypeOK, LogGrows, Gathered, MarkedOfFront
  <2> QED BY <1>7, <2>2, <2>3 DEF MarkedOfFront
<1>8. ASSUME NEW h \in Handles, NEW erases \in BOOLEAN, Edit(h, erases) PROVE Gathered'
  <2>1. MarkedOfFront'
    BY <1>7, <1>8 DEF Edit
  <2> QED BY <1>1, <1>8, <2>1, GatheredStays DEF Edit
<1>9. ASSUME NEW h \in Handles, NEW erases \in BOOLEAN, ApplyFix(h, erases) PROVE Gathered'
  <2>1. PICK b \in Batches : Batch(b, {Len(log')})
    BY <1>9 DEF ApplyFix
  <2>2. MarkedOfFront'
    BY <1>7, <1>9 DEF ApplyFix
  <2> QED BY <1>1, <1>4, <1>9, <2>1, <2>2, GatheredStays DEF ApplyFix
<1>10. ASSUME NEW d \in Drawings, ActivateDocument(d) PROVE Gathered'
  BY <1>1, <1>3, <1>10, GatheredStays DEF ActivateDocument
<1>11. CASE RefreshActivated \/ RefreshGreeted
  <2>1. marked' = marked \/ marked' = {}
    BY <1>11 DEF RefreshActivated, RefreshGreeted, NewSession, SetDrawingContext
  <2> QED BY <1>1, <1>2, <1>11, <2>1, GatheredStays DEF RefreshActivated, RefreshGreeted
<1>12. ASSUME NEW b \in Batches, TakeBatch(b) PROVE Gathered'
  BY <1>1, <1>2, <1>12, GatheredStays DEF TakeBatch
<1>13. CASE AnswerWait \/ PutBack \/ CommitDelta \/ DeltaAnswerLost
  BY <1>2, <1>13, NothingGathered DEF AnswerWait, PutBack, CommitDelta, DeltaAnswerLost, Idle, Empty
<1>14. CASE Answer
  BY <1>1, <1>2, <1>14, GatheredStays DEF Answer
<1>15. CASE Extract
  <2>1. UNCHANGED <<log, front, marked, active, load>> /\ from' = front /\ phase' = "deltas"
    BY <1>15 DEF Extract
  <2>2. \A h \in Handles : got'[h] # 0 => h \in Put(active) /\ IsThere(front, h) /\ got'[h] = Latest(front, h)
    BY <1>15 DEF Extract
  <2>3. \A h \in Handles : got'[h] # 0 => log[got'[h]].drawing = front /\ ~log[got'[h]].erases
    BY <1>0, <2>2, LatestIsGreatest DEF IsThere
  <2>4. Put(active)' = Put(active)
    BY <2>1 DEF Put, Erased, Erasure
  <2> QED BY <1>2, <2>1, <2>2, <2>3, <2>4 DEF Gathered, NothingYet, GotOfDocument, GotOfBatch
<1>16. CASE (\E s \in Baselines : BaselineBegins(s)) \/ BaselineChecks \/ BaselineThrows \/ StartResync
  BY <1>1, <1>2, <1>16, GatheredStays DEF BaselineBegins, BaselineChecks, BaselineThrows, StartResync
<1>17. ResyncEnds => got' = Nothing /\ phase' \notin {"deltas", "snapshot"}
  BY DEF ResyncEnds, Idle, Empty
<1>18. CASE ResyncRefused \/ CommitSnapshot \/ ResyncFails
  BY <1>2, <1>17, <1>18, NothingGathered DEF ResyncRefused, CommitSnapshot, ResyncFails
<1>19. CASE ExtractAll
  <2>1. UNCHANGED <<log, front, marked>> /\ from' = front /\ phase' = "snapshot" /\ got' = Full(front)
    BY <1>19 DEF ExtractAll
  <2>2. \A h \in Handles : got'[h] # 0 => log[got'[h]].drawing = front
    BY <1>0, <2>1, LatestIsGreatest DEF Full
  <2> QED BY <1>2, <2>1, <2>2 DEF Gathered, NothingYet, GotOfDocument, GotOfBatch
<1>20. CASE BaselineClears
  BY <1>3, <1>20, NothingGathered DEF BaselineClears, Idle, Empty
<1>21. CASE \E d \in Drawings : LockExpires(d)
  BY <1>1, <1>2, <1>21, GatheredStays DEF LockExpires
<1>22. ASSUME NEW a \in Analyses, Analyse(a) PROVE Gathered'
  BY <1>1, <1>2, <1>22, GatheredStays
     DEF Analyse, AnalysisSent, AnalysisRegistered, AnalysisAnswered, AnalysisFails, SetDrawingContext
<1>23. CASE UNCHANGED vars
  BY <1>1, <1>2, <1>23, GatheredStays DEF vars
<1> QED
  BY <1>5, <1>6, <1>8, <1>9, <1>10, <1>11, <1>12, <1>13, <1>14, <1>15, <1>16, <1>18, <1>19, <1>20, <1>21, <1>22, <1>23
     DEF Next, User, Greeting, Sends, Resyncs

LEMMA CoverStays == CoverInv /\ [Next]_vars => CoverInv'
BY GatheredKept, ForwardStays DEF CoverInv

\* Whoever knows of an edit keeps it: a step that takes no batch and commits
\* nothing, but may submit a batch or add to the log.
LEMMA KnownStays ==
    ASSUME CoverInv, LogGrows, NEW n \in Edits, Covered(n), UNCHANGED <<copy, due, serves, phase, got, active>>,
           pending \subseteq pending',
           \A b \in Batches : b \in pending \/ b = active => load'[b] = load[b] /\ stamp'[b] = stamp[b],
           \A s \in Baselines : stamp[s] \in Context => stamp'[s] = stamp[s],
           Marked(n) => Covered(n)'
    PROVE  Covered(n)'
<1> DEFINE d == log[n].drawing
           h == log[n].handle
<1>0. /\ TypeOK /\ log'[n] = log[n] /\ pending \in SUBSET Batches /\ active \in Batches \cup {NoBatch}
      /\ due \in SUBSET Baselines /\ serves \in Baselines \cup {None}
      /\ \A s \in due : stamp[s] \in Context
      /\ serves # None => stamp[serves] \in Context /\ active = NoBatch
      /\ NoBatch \notin Batches
  BY TasksApart
     DEF CoverInv, ForwardInv, SyncInv, TypeOK, Pipe!PipeTypeOK, LogGrows, SessionsOwned, ServesBaseline, Owned
<1>1. CASE Told(n)
  BY <1>0, <1>1 DEF Told, Covered
<1>2. CASE Carried(n)
  <2>1. PICK b \in pending : stamp[b] # None /\ stamp[b].drawing = d /\ Brings(b, n)
    BY <1>2 DEF Carried
  <2>2. Brings(b, n)' /\ b \in pending' /\ stamp'[b] = stamp[b]
    BY <1>0, <2>1, LoadStays
  <2> QED BY <1>0, <2>1, <2>2 DEF Carried, Covered
<1>3. CASE Sent(n)
  <2>1. active \in Batches /\ serves = None /\ stamp'[active] = stamp[active] /\ load'[active] = load[active]
    BY <1>0, <1>3 DEF Sent
  <2>2. Target' = Target
    BY <2>1 DEF Target
  <2>3. Brings(active, n) => Brings(active, n)'
    <3> DEFINE b == active
    <3>1. \A m \in load[b] : log'[m] = log[m]
      BY <1>0, <2>1 DEF TypeOK, LogGrows
    <3>2. Erased(b)' = Erased(b) /\ Put(b)' = Put(b)
      BY <2>1, <3>1 DEF Erased, Erasure, Put
    <3> QED BY <1>0, <2>1, <3>2 DEF Brings, Erasure
  <2> QED BY <1>0, <1>3, <2>1, <2>2, <2>3 DEF Sent, Erasure, Covered
<1>4. CASE InBaseline(n)
  BY <1>0, <1>4 DEF InBaseline, Covered
<1> QED BY <1>1, <1>2, <1>3, <1>4 DEF Covered

\* The worker's steps leave the marks and what the batches carry alone.
LEMMA WorkerLeaves ==
    ASSUME UNCHANGED <<editor, tracker, carried>>, NEW n
    PROVE  /\ Marked(n) => Covered(n)'
           /\ copy' = copy /\ Told(n) => Covered(n)'
           /\ Told(n)' => Covered(n)'
           /\ \A b : Brings(b, n)' <=> Brings(b, n)
           /\ pending \subseteq pending' /\ Carried(n) => Covered(n)'
           /\ due \subseteq due' /\ (\E s \in due : stamp[s].drawing = log[n].drawing) => Covered(n)'
<1> USE DEF editor, tracker, carried
<1>1. \A b : Brings(b, n)' <=> Brings(b, n)
  BY DEF Brings, Put, Erased, Erasure
<1>2. pending \subseteq pending' /\ Carried(n) => Carried(n)'
  BY <1>1 DEF Carried
<1> QED BY <1>1, <1>2 DEF Covered, Marked, Told, InBaseline

\* What there is to say of the latest edit of an entity.
LEMMA OfLatest ==
    ASSUME CoverInv, NEW n \in Edits, n = Latest(log[n].drawing, log[n].handle)
    PROVE  /\ TypeOK /\ Gathered /\ PipeIsLive /\ ServesBaseline /\ ServesBatch
           /\ log[n].drawing \in Drawings /\ log[n].handle \in Handles /\ n \in Nat /\ n # 0
           /\ pending \in SUBSET Batches /\ active \in Batches \cup {NoBatch} /\ NoBatch \notin Batches
           /\ active # NoBatch => serves = None
           /\ phase \notin {"deltas", "snapshot"} => got[log[n].handle] # n
           /\ \A m \in Edits : log[m].drawing = log[n].drawing /\ log[m].handle = log[n].handle =>
                  m <= n /\ m \in Nat /\ (log[m].erases => m = n)
<1>1. TypeOK /\ Gathered /\ PipeIsLive /\ ServesBaseline /\ ServesBatch
  BY DEF CoverInv, ForwardInv, SyncInv
<1>2. log[n] \in [drawing : Drawings, handle : Handles, erases : BOOLEAN, silent : BOOLEAN]
  <2>1. \A S : log \in Seq(S) => log[n] \in S
    BY DEF Edits
  <2> QED BY <1>1, <2>1 DEF TypeOK
<1>3. n \in Nat /\ n # 0
  BY <1>1, LatestIsGreatest
<1>4. pending \in SUBSET Batches /\ active \in Batches \cup {NoBatch}
  BY <1>1 DEF TypeOK, Pipe!PipeTypeOK
<1>5. active # NoBatch => serves = None
  BY <1>1 DEF ServesBaseline
<1>6. phase \notin {"deltas", "snapshot"} => got[log[n].handle] # n
  BY <1>1, <1>2, <1>3 DEF Gathered, NothingYet, Nothing
<1>7. ASSUME NEW m \in Edits, log[m].drawing = log[n].drawing, log[m].handle = log[n].handle
      PROVE  m <= n /\ m \in Nat /\ (log[m].erases => m = n)
  <2>1. m <= n /\ m \in Nat
    BY <1>1, <1>7, LatestIsGreatest
  <2>2. log[m].erases => n <= m
    BY <1>7 DEF CoverInv, ForwardInv, Forward, EraseIsLast
  <2> QED BY <1>3, <2>1, <2>2
<1> QED BY <1>1, <1>2, <1>3, <1>4, <1>5, <1>6, <1>7, TasksApart

\* The first steps of a batch, and its way back to the queue.
LEMMA BatchCovers ==
    ASSUME CoverInv, NEW n \in Edits, n = Latest(log[n].drawing, log[n].handle), Covered(n),
           Sends, ~GivesUp
    PROVE  Covered(n)'
<1> DEFINE d == log[n].drawing
           h == log[n].handle
<1>0. /\ TypeOK /\ Gathered /\ PipeIsLive /\ ServesBaseline /\ ServesBatch
      /\ d \in Drawings /\ h \in Handles /\ n # 0
      /\ pending \in SUBSET Batches /\ active \in Batches \cup {NoBatch} /\ NoBatch \notin Batches
      /\ active # NoBatch => serves = None
  BY OfLatest
<1>1. phase \notin {"deltas", "snapshot"} => got[h] # n
  BY OfLatest
<1>2. \A m \in Edits : log[m].drawing = d /\ log[m].handle = h => m <= n /\ m \in Nat /\ n \in Nat
  BY OfLatest
<1>3. \A m \in Edits : log[m].drawing = d /\ log[m].handle = h /\ log[m].erases => m = n
  BY OfLatest
<1> USE DEF editor, tracker, carried, pipe, worker, extracted, uploads, server
<1>4. UNCHANGED <<editor, tracker, carried>> /\ UNCHANGED <<due, serves>>
  BY DEF Sends, TakeBatch, AnswerWait, Answer, PutBack, Extract, CommitDelta, DeltaAnswerLost
<1>5. log' = log /\ stamp' = stamp
  BY <1>4
<1>6. CASE Marked(n)
  BY <1>4, <1>6, WorkerLeaves
<1>7. CASE InBaseline(n)
  <2>1. CASE \E s \in due : stamp[s].drawing = d
    BY <1>4, <2>1, WorkerLeaves
  <2>2. CASE serves # None
    BY <1>0, <2>2 DEF Sends, TakeBatch, AnswerWait, Answer, PutBack, Extract, CommitDelta, DeltaAnswerLost,
       Pipe!Finish, Pipe!PutBack, ServesBaseline
  <2> QED BY <1>7, <2>1, <2>2 DEF InBaseline
<1>8. ASSUME NEW b \in Batches, TakeBatch(b), Told(n) \/ Carried(n) \/ Sent(n) PROVE Covered(n)'
  <2>1. /\ active = NoBatch /\ phase = "idle" /\ active' = b /\ phase' = "send" /\ pending' = pending \ {b}
        /\ serves' = serves /\ serves = None /\ UNCHANGED copy
    BY <1>0, <1>8 DEF TakeBatch, Pipe!Take, ServesBaseline
  <2>2. CASE Told(n)
    BY <1>4, <2>1, <2>2, WorkerLeaves
  <2>3. CASE Carried(n)
    <3>1. PICK c \in pending : stamp[c] # None /\ stamp[c].drawing = d /\ Brings(c, n)
      BY <2>3 DEF Carried
    <3>2. Brings(c, n)'
      BY <1>4, <3>1, WorkerLeaves
    <3>3. CASE c = b
      <4>1. Target' = stamp[b].drawing
        BY <1>5, <2>1 DEF Target
      <4>2. Brings(active, n)'
        BY <2>1, <3>2, <3>3 DEF Brings, Put, Erased, Erasure
      <4> QED BY <1>0, <1>5, <2>1, <3>1, <3>3, <4>1, <4>2 DEF Sent, Covered
    <3>4. CASE c # b
      BY <1>5, <2>1, <3>1, <3>2, <3>4 DEF Carried, Covered
    <3> QED BY <3>3, <3>4
  <2> QED BY <1>8, <2>1, <2>2, <2>3 DEF Sent
<1>9. CASE Answer
  <2>1. phase = "send" /\ phase' \in {"start", "extract"} /\ UNCHANGED <<copy, pending, active, got>>
    BY <1>9 DEF Answer
  <2>2. Sent(n) => Sent(n)'
    <3>1. SUFFICES ASSUME Sent(n) PROVE Sent(n)'
      OBVIOUS
    <3>2. active # NoBatch /\ stamp[active] # None /\ Target = d /\ Brings(active, n)
      BY <1>1, <2>1, <3>1 DEF Sent
    <3>3. Brings(active, n)' /\ Target' = Target
      BY <1>4, <1>5, <2>1, <3>2 DEF Target, Brings, Put, Erased, Erasure
    <3> QED BY <1>5, <2>1, <3>2, <3>3 DEF Sent
  <2> QED BY <1>4, <1>6, <1>7, <2>1, <2>2, WorkerLeaves DEF Covered
<1>10. CASE PutBack
  <2>1. /\ active \in Batches /\ serves = None /\ pending' = pending \cup {active}
        /\ phase \in {"extract", "deltas", "start"} /\ UNCHANGED copy
    BY <1>0, <1>10 DEF PutBack, Pipe!PutBack
  <2>2. CASE Sent(n)
    <3>1. stamp[active] # None /\ stamp[active].drawing = d
      BY <2>1, <2>2 DEF Sent, Target
    <3>2. Brings(active, n)
      <4>1. CASE phase = "deltas" /\ got[h] = n
        BY <1>0, <4>1 DEF Gathered, GotOfBatch, Brings
      <4>2. CASE ~(phase = "deltas" /\ got[h] = n)
        BY <1>1, <2>1, <2>2, <4>2 DEF Sent, Brings, Erasure
      <4> QED BY <4>1, <4>2
    <3>3. PICK b \in Batches : b = active
      BY <2>1
    <3>4. Brings(b, n)'
      BY <1>4, <3>2, <3>3, WorkerLeaves
    <3> QED BY <1>5, <2>1, <3>1, <3>3, <3>4 DEF Carried, Covered
  <2> QED BY <1>4, <1>6, <1>7, <2>1, <2>2, WorkerLeaves DEF Covered
<1>11. CASE Extract
  <2>1. /\ phase = "extract" /\ phase' = "deltas" /\ front = Target
        /\ UNCHANGED <<copy, pending, active>>
    BY <1>11 DEF Extract, GivesUp
  <2>2. Sent(n) => Sent(n)'
    <3>1. SUFFICES ASSUME Sent(n) PROVE Sent(n)'
      OBVIOUS
    <3>2. active # NoBatch /\ stamp[active] # None /\ Target = d /\ Brings(active, n)
      BY <1>1, <2>1, <3>1 DEF Sent
    <3>3. Target' = Target
      BY <1>4, <1>5, <2>1 DEF Target
    <3>4. CASE log[n].erases
      BY <1>4, <1>5, <2>1, <3>2, <3>3, <3>4 DEF Sent, Brings, Erasure
    <3>5. CASE ~log[n].erases
      <4>1. h \in Put(active) /\ IsThere(front, h) /\ Latest(front, h) = n
        BY <1>0, <2>1, <3>2, <3>5 DEF Brings, IsThere
      <4>2. got'[h] = n
        BY <1>0, <1>11, <4>1 DEF Extract
      <4> QED BY <1>5, <2>1, <3>2, <3>3, <4>2 DEF Sent
    <3> QED BY <3>4, <3>5
  <2> QED BY <1>4, <1>6, <1>7, <2>1, <2>2, WorkerLeaves DEF Covered
<1>12. CASE CommitDelta \/ DeltaAnswerLost
  <2>1. /\ phase = "deltas" /\ ~Strayed /\ pending \subseteq pending' /\ base = serial[Target]
        /\ copy' = [copy EXCEPT ![Target] = Merged(copy[Target])]
    BY <1>12 DEF CommitDelta, DeltaAnswerLost, Pipe!Finish, Pipe!PutBack, GivesUp
  <2>2. active \in Batches /\ from = Target /\ (\A m \in load[active] : log[m].drawing = Target)
    BY <1>0, <2>1 DEF Strayed, CoverInv, ForwardInv, Forward, FromIsKnown, ServesBaseline, ServesBatch
  <2>3. load[active] \subseteq Edits
    BY <1>0, <2>2 DEF TypeOK
  <2>4. Target # d /\ Told(n) => Told(n)'
    BY <1>0, <1>5, <2>1 DEF Told, TypeOK
  <2>5. ASSUME Target = d, Told(n) \/ Sent(n) PROVE Told(n)'
    <3>1. copy'[d] = Merged(copy[d])
      BY <1>0, <2>1, <2>5 DEF TypeOK
    <3>2. CASE h \in Erased(active)
      <4>1. \E m \in load[active] : log[m].handle = h /\ Erasure(m)
        BY <3>2 DEF Erased
      <4>2. copy'[d][h] = CHOOSE m \in load[active] : log[m].handle = h /\ Erasure(m)
        BY <1>0, <3>1, <3>2 DEF Merged
      <4> DEFINE e == copy'[d][h]
      <4>3. e \in load[active] /\ log[e].handle = h /\ log[e].erases
        BY <4>1, <4>2 DEF Erasure
      <4>4. e = n
        BY <1>3, <2>2, <2>3, <2>5, <4>3
      <4> QED BY <1>5, <4>4 DEF Told
    <3>3. CASE h \notin Erased(active)
      <4>1. copy'[d][h] = IF got[h] # 0 THEN got[h] ELSE copy[d][h]
        BY <1>0, <3>1, <3>3 DEF Merged
      <4>2. got[h] # 0 => got[h] \in Edits /\ log[got[h]].handle = h /\ log[got[h]].drawing = d
        BY <1>0, <2>2, <2>5 DEF CoverInv, ForwardInv, Forward, CopiesShow, Shows, Gathered, GotOfDocument
      <4>3. CASE got[h] = n
        BY <1>0, <1>5, <4>1, <4>3 DEF Told
      <4>4. CASE Told(n)
        <5>1. Own(Target, h) /\ copy[d][h] = n
          BY <1>0, <2>5, <4>4 DEF Told, Own
        <5>2. got[h] # 0 => n <= got[h] /\ got[h] <= n /\ got[h] \in Nat /\ n \in Nat
          BY <1>0, <1>2, <2>1, <2>2, <2>5, <4>2, <5>1 DEF CoverInv, ForwardInv, Forward, DeltaNotBehind
        <5>3. got[h] # 0 => got[h] = n
          BY <5>2
        <5> QED BY <1>5, <4>1, <5>1, <5>3 DEF Told
      <4>5. CASE Sent(n)
        <5>1. got[h] = n \/ (Erasure(n) /\ n \in load[active])
          BY <2>1, <4>5 DEF Sent
        <5>2. Erasure(n) /\ n \in load[active] => h \in Erased(active)
          BY DEF Erased
        <5> QED BY <3>3, <4>3, <5>1, <5>2
      <4> QED BY <2>5, <4>4, <4>5
    <3> QED BY <3>2, <3>3
  <2>6. Sent(n) => Target = d
    BY DEF Sent
  <2> QED BY <1>4, <1>6, <1>7, <2>1, <2>4, <2>5, <2>6, WorkerLeaves DEF Covered
<1>13. ~AnswerWait
  BY DEF GivesUp
<1> QED BY <1>6, <1>7, <1>8, <1>9, <1>10, <1>11, <1>12, <1>13 DEF Sends, Covered

\* A baseline, or the full resync of a batch.
LEMMA ResyncCovers ==
    ASSUME CoverInv, NEW n \in Edits, n = Latest(log[n].drawing, log[n].handle), Covered(n),
           Resyncs, ~GivesUp
    PROVE  Covered(n)'
<1> DEFINE d == log[n].drawing
           h == log[n].handle
<1>0. /\ TypeOK /\ Gathered /\ PipeIsLive /\ ServesBaseline /\ ServesBatch
      /\ d \in Drawings /\ h \in Handles /\ n # 0
      /\ pending \in SUBSET Batches /\ active \in Batches \cup {NoBatch} /\ NoBatch \notin Batches
      /\ active # NoBatch => serves = None
  BY OfLatest
<1>1. phase \notin {"deltas", "snapshot"} => got[h] # n
  BY OfLatest
<1>2. \A m \in Edits : log[m].drawing = d /\ log[m].handle = h => m <= n /\ m \in Nat /\ n \in Nat
  BY OfLatest
<1> USE DEF editor, tracker, carried, pipe, worker, extracted, uploads, server
<1>3. ~(BaselineChecks \/ BaselineThrows \/ ResyncRefused \/ ResyncFails \/ BaselineClears)
  BY DEF GivesUp
<1>4. UNCHANGED <<editor, tracker, carried>>
  BY <1>3 DEF Resyncs, BaselineBegins, StartResync, ExtractAll, CommitSnapshot, LockExpires
<1>5. log' = log /\ stamp' = stamp
  BY <1>4
<1>6. ASSUME NEW s \in Baselines, BaselineBegins(s) PROVE Covered(n)'
  <2>1. PICK old \in SUBSET Outdated(s) : Pipe!Supersede(old)
    BY <1>6 DEF BaselineBegins
  <2>2. /\ phase = "idle" /\ s \in due /\ due' = due \ {s} /\ serves' = s /\ phase' = "check"
        /\ active = NoBatch /\ pending' = pending \ old /\ UNCHANGED copy /\ serves = None /\ s # None
    BY <1>0, <1>6, <2>1, TasksApart DEF BaselineBegins, Pipe!Supersede, ServesBaseline
  <2>3. stamp[s].drawing = d => InBaseline(n)'
    BY <1>5, <2>2 DEF InBaseline
  <2>4. CASE Carried(n)
    <3>1. PICK b \in pending : stamp[b] # None /\ stamp[b].drawing = d /\ Brings(b, n)
      BY <2>4 DEF Carried
    <3>2. Brings(b, n)'
      BY <1>4, <3>1, WorkerLeaves
    <3>3. CASE b \in old
      BY <2>1, <2>3, <3>1, <3>3 DEF Outdated, Covered
    <3>4. CASE b \notin old
      BY <1>5, <2>2, <3>1, <3>2, <3>4 DEF Carried, Covered
    <3> QED BY <3>3, <3>4
  <2>5. CASE \E t \in due : stamp[t].drawing = d
    BY <1>5, <2>2, <2>3, <2>5 DEF InBaseline, Covered
  <2> QED BY <1>4, <2>2, <2>4, <2>5, WorkerLeaves DEF Covered, Sent, InBaseline
\* The worker goes on for whom it was busy.
<1>7. ASSUME UNCHANGED <<copy, pending, active, due, serves>>, Sent(n) => Sent(n)',
             serves # None /\ stamp[serves].drawing = d /\ (phase \in {"check", "start", "extractAll"} \/ got[h] = n)
                 => phase' \in {"check", "start", "extractAll"} \/ got'[h] = n
      PROVE  Covered(n)'
  <2>1. InBaseline(n) => InBaseline(n)'
    BY <1>5, <1>7 DEF InBaseline
  <2> QED BY <1>4, <1>7, <2>1, WorkerLeaves DEF Covered
<1>8. UNCHANGED <<serves, active>> => Target' = Target
  BY <1>5 DEF Target
<1>9. CASE StartResync
  <2>1. phase = "start" /\ phase' = "extractAll" /\ UNCHANGED <<copy, pending, active, due, serves, got>>
    BY <1>9 DEF StartResync
  <2>2. Sent(n) => Sent(n)'
    BY <1>5, <1>8, <2>1 DEF Sent
  <2> QED BY <1>7, <2>1, <2>2
<1>10. CASE ExtractAll
  <2>1. /\ phase = "extractAll" /\ front = Target /\ got' = Full(front)
        /\ UNCHANGED <<copy, pending, active, due, serves>>
    BY <1>10 DEF ExtractAll, GivesUp
  <2>2. Target = d => got'[h] = n
    BY <1>0, <2>1 DEF Full
  <2>3. Sent(n) => Sent(n)'
    BY <1>5, <1>8, <2>1, <2>2 DEF Sent
  <2>4. serves # None /\ stamp[serves].drawing = d => Target = d
    BY DEF Target
  <2> QED BY <1>7, <2>1, <2>2, <2>3, <2>4
<1>11. CASE CommitSnapshot
  <2>1. /\ phase = "snapshot" /\ ~Strayed /\ ~Aside /\ copy' = [copy EXCEPT ![Target] = got]
        /\ UNCHANGED <<pending, due>>
    BY <1>11 DEF CommitSnapshot, GivesUp, ResyncEnds, Pipe!Finish, Idle, Empty
  <2>2. from = Target
    BY <2>1 DEF Strayed, Target, CoverInv, ForwardInv, SyncInv, BaselineIsOfItsDrawing, Forward, FromIsKnown
  <2>3. Target # d /\ Told(n) => Told(n)'
    BY <1>0, <1>5, <2>1 DEF Told, TypeOK
  <2>4. Target = d => copy'[d][h] = got[h]
    BY <1>0, <2>1 DEF TypeOK
  <2>5. Target = d /\ got[h] = n => Told(n)'
    BY <1>5, <2>4 DEF Told
  <2>6. Target = d /\ Told(n) => got[h] = n
    <3>1. SUFFICES ASSUME Target = d, Told(n) PROVE got[h] = n
      OBVIOUS
    <3>2. Own(Target, h) /\ copy[d][h] = n
      BY <1>0, <3>1 DEF Told, Own
    <3>3. n <= got[h]
      BY <1>0, <2>1, <2>2, <3>1, <3>2 DEF CoverInv, ForwardInv, Forward, SnapshotNotBehind
    <3>4. got[h] \in Nat /\ n \in Nat
      <4>1. got[h] \in 0..MaxEdits
        BY <1>0 DEF TypeOK, Contents, Numbers
      <4> QED BY <1>2, <4>1, BoundsNat
    <3>5. got[h] \in Edits /\ log[got[h]].handle = h /\ log[got[h]].drawing = d
      <4>1. got[h] # 0
        BY <1>0, <3>3, <3>4
      <4> QED BY <1>0, <2>2, <3>1, <4>1 DEF CoverInv, ForwardInv, Forward, CopiesShow, Shows, Gathered, GotOfDocument
    <3> QED BY <1>2, <3>3, <3>4, <3>5
  <2>7. Sent(n) => Target = d /\ got[h] = n
    BY <2>1 DEF Sent
  <2>8. InBaseline(n) => (\E s \in due : stamp[s].drawing = d) \/ (Target = d /\ got[h] = n)
    BY <2>1 DEF InBaseline, Target
  <2> QED BY <1>4, <2>1, <2>3, <2>5, <2>6, <2>7, <2>8, WorkerLeaves DEF Covered
<1>12. CASE \E o \in Drawings : LockExpires(o)
  <2>1. UNCHANGED <<copy, pending, active, due, serves, phase, got, load>>
    BY <1>12 DEF LockExpires
  <2>2. Sent(n) => Sent(n)'
    BY <1>5, <1>8, <2>1 DEF Sent, Brings, Put, Erased, Erasure
  <2> QED BY <1>7, <2>1, <2>2
<1> QED BY <1>3, <1>6, <1>9, <1>10, <1>11, <1>12 DEF Resyncs

\* One step at a time: what is covered stays so, or the step gives it up.
LEMMA StepCovers ==
    ASSUME CoverInv, [Next]_vars, NEW n \in Edits, n = Latest(log[n].drawing, log[n].handle), Covered(n), ~GivesUp
    PROVE  Covered(n)'
<1> USE DEF editor, tracker, carried, pipe, worker, extracted, uploads, server
<1>0. ForwardInv /\ SyncInv /\ TypeOK /\ PipeIsLive /\ Gathered
  BY DEF CoverInv, ForwardInv, SyncInv
<1>1. /\ UNCHANGED log => LogGrows
      /\ \A h \in Handles, erases, silent \in BOOLEAN : Happens(h, erases, silent) => LogGrows
  BY <1>0, ErasureStaysLast DEF LogGrows, Edits
<1>2. ASSUME LogGrows, marked \subseteq marked', UNCHANGED context PROVE Marked(n) => Covered(n)'
  BY <1>2 DEF LogGrows, Marked, Covered
\* A batch that is submitted is none that waits or is being sent.
<1>3. ASSUME NEW b \in Batches, NEW edits, Batch(b, edits)
      PROVE  /\ pending' = pending \cup {b} /\ active' = active /\ load'[b] = edits /\ stamp'[b] = context
             /\ \A c \in Batches : c \in pending \/ c = active => load'[c] = load[c] /\ stamp'[c] = stamp[c]
             /\ \A s \in Baselines : stamp'[s] = stamp[s]
  <2>1. /\ fate[b] = "new" /\ pending' = pending \cup {b} /\ active' = active
        /\ stamp' = [stamp EXCEPT ![b] = context] /\ load' = [load EXCEPT ![b] = edits]
    BY <1>3 DEF Batch, Pipe!Submit
  <2>2. b \notin pending /\ b # active
    BY <1>0, <2>1, TasksApart DEF PipeIsLive
  <2> QED BY <1>0, <2>1, <2>2, TasksApart DEF TypeOK, Sessions
<1>4. CASE CommandStarts \/ CommandCancelled \/ SessionInfo
  BY <1>1, <1>2, <1>4, KnownStays DEF CommandStarts, CommandCancelled, SessionInfo
<1>5. CASE CommandEnds
  <2>1. CASE marked # {} /\ context # None
    <3>1. PICK b \in Batches : Batch(b, marked)
      BY <1>5, <2>1 DEF CommandEnds
    <3>2. UNCHANGED <<log, copy, due, serves, phase, got>>
      BY <1>5, <2>1 DEF CommandEnds
    <3>3. ASSUME Marked(n) PROVE Covered(n)'
      <4>1. n \in load'[b] /\ stamp'[b] # None /\ stamp'[b].drawing = log'[n].drawing /\ b \in pending'
        BY <1>3, <2>1, <3>1, <3>2, <3>3 DEF Marked
      <4>2. ~log[n].erases => log[n].handle \notin Erased(b)'
        <5>1. SUFFICES ASSUME NEW m \in marked, log[m].erases, log[m].handle = log[n].handle
                       PROVE  log[n].erases
          BY <1>3, <3>1, <3>2 DEF Erased, Erasure
        <5>2. m \in Edits /\ log[m].drawing = front /\ log[n].drawing = front
          BY <1>0, <3>3 DEF TypeOK, Gathered, MarkedOfFront, Marked
        <5> QED BY <5>1, <5>2, OfLatest
      <4>3. ~log[n].silent
        BY <1>0, <3>3 DEF Gathered, MarkedOfFront, Marked
      <4>4. Brings(b, n)'
        BY <3>2, <4>1, <4>2, <4>3 DEF Brings, Put, Erasure
      <4> QED BY <4>1, <4>4 DEF Carried, Covered
    <3> QED BY <1>1, <1>3, <3>1, <3>2, <3>3, KnownStays
  <2>2. CASE ~(marked # {} /\ context # None)
    BY <1>1, <1>2, <1>5, <2>2, KnownStays DEF CommandEnds
  <2> QED BY <2>1, <2>2
<1>6. ASSUME NEW h \in Handles, NEW erases \in BOOLEAN, Edit(h, erases) PROVE Covered(n)'
  <2>1. LogGrows /\ Happens(h, erases, FALSE) /\ marked \subseteq marked'
    BY <1>1, <1>6 DEF Edit
  <2> QED BY <1>2, <1>6, <2>1, KnownStays DEF Edit
<1>7. ASSUME NEW h \in Handles, NEW erases \in BOOLEAN, ApplyFix(h, erases) PROVE Covered(n)'
  <2>1. PICK b \in Batches : Batch(b, {Len(log')})
    BY <1>7 DEF ApplyFix
  <2>2. LogGrows /\ UNCHANGED <<context, marked, copy, due, serves, phase, got>>
    BY <1>1, <1>7 DEF ApplyFix
  <2> QED BY <1>2, <1>3, <2>1, <2>2, KnownStays
<1>8. ~(\E o \in Drawings : ActivateDocument(o)) /\ ~RefreshActivated /\ ~RefreshGreeted
  BY DEF GivesUp
<1>9. ASSUME NEW a \in Analyses, Analyse(a) PROVE Covered(n)'
  <2>1. AnalysisSent(a) \/ AnalysisFails(a)
    BY <1>9 DEF Analyse, GivesUp
  <2>2. \A x \in Batches \cup Baselines : stamp'[x] = stamp[x]
    BY <1>0, <2>1, TasksApart DEF AnalysisSent, AnalysisFails, TypeOK, Sessions
  <2> QED BY <1>1, <1>2, <2>1, <2>2, KnownStays DEF AnalysisSent, AnalysisFails
<1>10. CASE UNCHANGED vars
  BY <1>1, <1>2, <1>10, KnownStays DEF vars
<1> QED BY <1>4, <1>5, <1>6, <1>7, <1>8, <1>9, <1>10, BatchCovers, ResyncCovers DEF Next, User, Greeting

\* An edit that a step makes is marked, or has a batch of its own, unless the
\* step is of those that nobody is told of.
LEMMA NewIsCovered ==
    ASSUME CoverInv, [Next]_vars, NEW n \in Edits' \ Edits, ~NeverTold
    PROVE  Covered(n)'
<1> USE DEF editor, tracker, carried, pipe, worker, extracted, uploads, server
<1>0. TypeOK /\ Len(log) \in Nat
  BY DEF CoverInv, ForwardInv, SyncInv, TypeOK
<1>1. context # None /\ context.drawing = front
  BY DEF NeverTold
<1>2. log' # log
  BY DEF Edits
<1>3. ASSUME NEW h \in Handles, NEW erases \in BOOLEAN, NEW silent \in BOOLEAN, Happens(h, erases, silent)
      PROVE  n = Len(log') /\ log'[n] = [drawing |-> front, handle |-> h, erases |-> erases, silent |-> silent]
  <2> DEFINE new == [drawing |-> front, handle |-> h, erases |-> erases, silent |-> silent]
  <2>1. log' = Append(log, new)
    BY <1>3 DEF Happens
  <2> HIDE DEF new
  <2>2. Len(log') = Len(log) + 1 /\ DOMAIN log' = 1..(Len(log) + 1) /\ log'[Len(log) + 1] = new
    BY <1>0, <2>1 DEF TypeOK
  <2>3. DOMAIN log = 1..Len(log)
    BY <1>0 DEF TypeOK
  <2>4. n = Len(log) + 1
    BY <1>0, <2>2, <2>3 DEF Edits
  <2> QED BY <2>2, <2>4 DEF new
<1>4. ASSUME NEW h \in Handles, NEW erases \in BOOLEAN, Edit(h, erases) PROVE Covered(n)'
  <2>0. FALSE \in BOOLEAN /\ Happens(h, erases, FALSE)
    BY <1>4 DEF Edit
  <2>1. n = Len(log') /\ log'[n].drawing = front
    <3>1. n = Len(log') /\ log'[n] = [drawing |-> front, handle |-> h, erases |-> erases, silent |-> FALSE]
      BY <1>3, <2>0
    <3> QED BY <3>1
  <2>2. n \in marked' /\ context' = context
    BY <1>1, <1>4, <2>1 DEF Edit
  <2> QED BY <1>1, <2>1, <2>2 DEF Marked, Covered
<1>5. ASSUME NEW h \in Handles, ApplyFix(h, FALSE) PROVE Covered(n)'
  <2>0. FALSE \in BOOLEAN /\ Happens(h, FALSE, FALSE)
    BY <1>5 DEF ApplyFix
  <2>1. n = Len(log') /\ log'[n].drawing = front /\ ~log'[n].erases
    <3>1. n = Len(log') /\ log'[n] = [drawing |-> front, handle |-> h, erases |-> FALSE, silent |-> FALSE]
      BY <1>3, <2>0
    <3> QED BY <3>1
  <2>2. PICK b \in Batches : Batch(b, {n})
    BY <1>5, <2>1 DEF ApplyFix
  <2>3. b \in pending' /\ stamp'[b] = context /\ load'[b] = {n}
    BY <1>0, <2>2 DEF Batch, Pipe!Submit, TypeOK
  <2>4. Erased(b)' = {}
    BY <2>1, <2>3 DEF Erased, Erasure
  <2>5. Brings(b, n)'
    BY <2>1, <2>3, <2>4 DEF Brings, Put
  <2> QED BY <1>1, <2>1, <2>3, <2>5 DEF Carried, Covered
<1>6. User \/ UNCHANGED vars
  <2>1. ~Greeting
    BY <1>2 DEF Greeting, SessionInfo, RefreshActivated, RefreshGreeted
  <2>2. ~Sends
    BY <1>2 DEF Sends, TakeBatch, AnswerWait, Answer, PutBack, Extract, CommitDelta, DeltaAnswerLost
  <2>3. ~Resyncs
    BY <1>2 DEF Resyncs, BaselineBegins, BaselineChecks, BaselineThrows, ResyncRefused, StartResync,
       ExtractAll, CommitSnapshot, ResyncFails, BaselineClears, LockExpires
  <2>4. ~(\E a \in Analyses : Analyse(a))
    BY <1>2 DEF Analyse, AnalysisSent, AnalysisRegistered, AnalysisAnswered, AnalysisFails
  <2> QED BY <2>1, <2>2, <2>3, <2>4 DEF Next
<1>7. ~(CommandStarts \/ CommandEnds \/ CommandCancelled \/ \E d \in Drawings : ActivateDocument(d))
  BY <1>2 DEF CommandStarts, CommandEnds, CommandCancelled, ActivateDocument
<1>8. ~(\E h \in Handles : ApplyFix(h, TRUE))
  BY DEF NeverTold
<1>9. ~UNCHANGED vars
  BY <1>2 DEF vars
<1> QED BY <1>4, <1>5, <1>6, <1>7, <1>8, <1>9 DEF User

\* Every edit is covered from the start, but for those NeverTold names, and no
\* step but those that GivesUp names makes the tracker and the server forget
\* the latest edit of an entity (DrawingRevisionTracker.cs 109, 163-168, 330-787):
\* not the flush, not a batch that is put back behind others or superseded, not
\* a delta or a snapshot that was extracted before it and is committed after it.
\* For any number of drawings, handles, edits, batches, baselines and analyses.
THEOREM EditsAreCovered == Spec => EditsStayCovered
<1>1. Init => CoverInv
  BY ForwardAtFirst DEF Init, CoverInv, Gathered, MarkedOfFront, NothingYet, GotOfDocument, GotOfBatch, Nothing
<1>2. CoverInv /\ [Next]_vars =>
        [/\ \A n \in Edits :
               n = Latest(log[n].drawing, log[n].handle) /\ Covered(n) =>
                   \/ Covered(n)'
                   \/ n # Latest(log[n].drawing, log[n].handle)'
                   \/ GivesUp
         /\ \A n \in Edits' \ Edits : Covered(n)' \/ NeverTold]_vars
  BY StepCovers, NewIsCovered
<1> QED BY CoverStays, <1>1, <1>2, PTL DEF Spec, EditsStayCovered
==============================================================================
