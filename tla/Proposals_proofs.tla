--------------------------- MODULE Proposals_proofs ---------------------------
(* For any number of proposals, objects, threads, faults and commands of    *)
(* the user: the types, that every task is attended, that the drawing       *)
(* follows the answers, that a result is in one place only, and that a      *)
(* panel shown in time names every object of its proposal.                  *)
EXTENDS Proposals, SequenceTheorems, FiniteSetTheorems, FunctionTheorems, TLAPS

------------------------------------------------------------------------------
(* The dispatcher of the plugin.  That no task waits for nobody is not      *)
(* inductive by itself: that a thread may leave the drain to another one    *)
(* rests on the flag, which is set only while a drain is on its way.        *)

\* A set flag announces a drain.
FlagIsTrue == scheduled => OnItsWay
AttendedInv == DispatcherTypeOK /\ FlagIsTrue /\ Attended

LEMMA AttendedAtFirst == DispatcherInit => AttendedInv
<1> SUFFICES ASSUME DispatcherInit PROVE AttendedInv
  OBVIOUS
<1>1. DispatcherTypeOK
  <2>1. tasks \in Seq(Work)
    BY DEF DispatcherInit
  <2>2. caller \in [Threads -> {"out", "queued", "claimed"}]
    BY DEF DispatcherInit
  <2> QED BY <2>1, <2>2 DEF DispatcherInit, DispatcherTypeOK
<1>2. FlagIsTrue /\ Attended
  BY DEF DispatcherInit, FlagIsTrue, Attended
<1> QED BY <1>1, <1>2 DEF AttendedInv

\* Each step keeps the types.
LEMMA DispatcherTypes == DispatcherTypeOK /\ [DispatcherNext]_dispatcher => DispatcherTypeOK'
<1> SUFFICES ASSUME DispatcherTypeOK, [DispatcherNext]_dispatcher
             PROVE  DispatcherTypeOK'
  OBVIOUS
<1> USE DEF DispatcherTypeOK
<1>1. ASSUME NEW t \in Threads, NEW task \in Work, Enqueue(t, task) PROVE DispatcherTypeOK'
  BY <1>1 DEF Enqueue
<1>2. ASSUME NEW t \in Threads, Inside(t) PROVE DispatcherTypeOK'
  <2>1. CASE Claim(t)
    BY <2>1 DEF Claim
  <2>2. CASE Post(t)
    BY <2>2 DEF Post
  <2> QED BY <1>2, <2>1, <2>2 DEF Inside
<1>3. ASSUME NEW task \in Work, EnqueueOnUi(task) PROVE DispatcherTypeOK'
  BY <1>3 DEF EnqueueOnUi
<1>4. CASE UiThread
  <2>1. CASE DrainBegins
    <3>1. drains' \in Nat
      BY <2>1 DEF DrainBegins
    <3>2. ui' \in {"free", "drain", "run"} /\ scheduled' \in BOOLEAN
      BY <2>1 DEF DrainBegins
    <3>3. UNCHANGED <<tasks, hooked, command, caller, threw>>
      BY <2>1 DEF DrainBegins
    <3> QED BY <3>1, <3>2, <3>3
  <2>2. CASE RunTask
    <3>1. Tail(tasks) \in Seq(Work)
      BY <2>2, HeadTailProperties DEF RunTask
    <3> QED BY <2>2, <3>1 DEF RunTask
  <2>3. CASE FindsCommand \/ FindsNone \/ RunEnds
    BY <2>3 DEF FindsCommand, FindsNone, RunEnds
  <2> QED BY <1>4, <2>1, <2>2, <2>3 DEF UiThread
<1>5. CASE LookThrows \/ CommandBegins \/ CommandStops
  BY <1>5 DEF LookThrows, CommandBegins, CommandStops
<1>6. CASE UNCHANGED dispatcher
  BY <1>6 DEF dispatcher
<1> QED BY <1>1, <1>2, <1>3, <1>4, <1>5, <1>6 DEF DispatcherNext

\* Each step keeps the flag true to its word and every task attended.
LEMMA StaysAttended == AttendedInv /\ [DispatcherNext]_dispatcher => (FlagIsTrue /\ Attended)'
<1> SUFFICES ASSUME AttendedInv, [DispatcherNext]_dispatcher
             PROVE  (FlagIsTrue /\ Attended)'
  OBVIOUS
<1> USE DEF AttendedInv, DispatcherTypeOK, FlagIsTrue, Attended, OnItsWay
<1>1. ASSUME NEW t \in Threads, NEW task \in Work, Enqueue(t, task)
      PROVE  (FlagIsTrue /\ Attended)'
  <2>1. caller'[t] = "queued"
    BY <1>1 DEF Enqueue
  <2>2. FlagIsTrue'
    <3>1. ASSUME NEW s \in Threads, caller[s] = "claimed" PROVE caller'[s] = "claimed"
      BY <1>1, <3>1 DEF Enqueue
    <3> QED BY <1>1, <3>1 DEF Enqueue
  <2> QED BY <2>1, <2>2
<1>2. ASSUME NEW t \in Threads, Claim(t) PROVE (FlagIsTrue /\ Attended)'
  <2>1. OnItsWay'
    <3>1. CASE scheduled
      <4>1. ASSUME NEW s \in Threads, caller[s] = "claimed" PROVE caller'[s] = "claimed"
        BY <1>2, <4>1 DEF Claim
      <4> QED BY <1>2, <3>1, <4>1 DEF Claim
    <3>2. CASE ~scheduled
      BY <1>2, <3>2 DEF Claim
    <3> QED BY <3>1, <3>2
  <2> QED BY <2>1
<1>3. ASSUME NEW t \in Threads, Post(t) PROVE (FlagIsTrue /\ Attended)'
  BY <1>3 DEF Post
<1>4. ASSUME NEW task \in Work, EnqueueOnUi(task) PROVE (FlagIsTrue /\ Attended)'
  BY <1>4 DEF EnqueueOnUi
<1>5. CASE DrainBegins
  BY <1>5 DEF DrainBegins
<1>6. CASE FindsCommand
  BY <1>6 DEF FindsCommand
<1>7. CASE FindsNone
  BY <1>7 DEF FindsNone
<1>8. CASE LookThrows
  BY <1>8 DEF LookThrows
<1>9. CASE RunTask
  BY <1>9 DEF RunTask
<1>10. CASE RunEnds
  BY <1>10 DEF RunEnds
<1>11. CASE CommandBegins
  BY <1>11 DEF CommandBegins
<1>12. CASE CommandStops
  BY <1>12 DEF CommandStops
<1>13. CASE UNCHANGED dispatcher
  BY <1>13 DEF dispatcher
<1> QED BY <1>1, <1>2, <1>3, <1>4, <1>5, <1>6, <1>7, <1>8, <1>9, <1>10, <1>11, <1>12, <1>13
       DEF DispatcherNext, Inside, UiThread

\* A queued task always has somebody who will come for it
\* (SafeTaskDispatcher.cs 54-79), or the last look at the queue threw.
THEOREM EveryTaskIsAttended == DispatcherSpec => []Attended
<1>1. AttendedInv /\ [DispatcherNext]_dispatcher => AttendedInv'
  BY DispatcherTypes, StaysAttended DEF AttendedInv
<1>2. AttendedInv => Attended
  BY DEF AttendedInv
<1> QED BY AttendedAtFirst, <1>1, <1>2, PTL DEF DispatcherSpec

------------------------------------------------------------------------------
(* Types.                                                                   *)

Obj == UNION {Objects(p) : p \in Pids}
Orders ==
    {Note} \cup {Create(p, i) : p \in Pids, i \in 1..Size} \cup {DeleteOld(p) : p \in Pids}
    \cup {Modify(p) : p \in Pids} \cup UNION {{Delete(hs) : hs \in SUBSET Objects(p)} : p \in Pids}

TaskTypes == DispatcherTypeOK /\ tasks \in Seq(Orders)
LinkTypes ==
    /\ phase \in {"down", "flush", "receive"} /\ listed \in BOOLEAN
    /\ pending \in Seq(Results) /\ Len(pending) <= MaxPending
    /\ up \in Seq(Results) /\ down \in Seq(Orders)
    /\ held \in Results \cup {None}
BatchTypes ==
    /\ batch \in [Pids -> [kind : Kinds, handles : Seq(Obj)] \cup {None}]
    /\ \A p \in Pids : batch[p] # None => /\ batch[p].kind = kind[p]
                                          /\ batch[p].handles \in Seq(Objects(p))
ChatTypes ==
    /\ chat \in [pid : Pids \cup {None}, at : {"none", "sends", "waits"}, left : 0..Size, sent : BOOLEAN]
    /\ chat.at # "none" => /\ chat.pid \in Pids /\ batch[chat.pid] # None
                           /\ panel[chat.pid] = "none" /\ kind[chat.pid] \in {"create", "replace"}
    /\ chat.at = "sends" => chat.left # 0
PanelTypes ==
    /\ panel \in [Pids -> {"none", "shown", "approved", "rejected"}]
    /\ kind \in [Pids -> Kinds \cup {None}]
    /\ offered \in [Pids -> SUBSET Obj] /\ late \in [Pids -> BOOLEAN]
    /\ \A p \in Pids : offered[p] \subseteq Objects(p) /\ (panel[p] # "none" => kind[p] # None)
DrawTypes ==
    /\ new \in [Pids -> SUBSET Obj] /\ \A p \in Pids : new[p] \subseteq Objects(p)
    /\ old \in [Pids -> BOOLEAN] /\ changed \in [Pids -> BOOLEAN]
TypeInv == TaskTypes /\ LinkTypes /\ BatchTypes /\ ChatTypes /\ PanelTypes /\ DrawTypes

\* What is sent to the plugin can be given to its dispatcher.
LEMMA OrdersAreWork == Orders \subseteq Work
BY WorkAssumption DEF Orders

\* What an order says.
LEMMA OrderIs ==
    ASSUME NEW w \in Orders
    PROVE  \/ w.do = "note"
           \/ w.do = "create" /\ \E p \in Pids, i \in 1..Size : w = Create(p, i) /\ w.object = <<p, i>> /\ w.object \in Objects(p)
           \/ w.do = "delete" /\ \E p \in Pids : w.handles \subseteq Objects(p)
           \/ w.do \in {"delete old", "modify"} /\ w.of \in Pids
<1>1. CASE w = Note
  BY <1>1 DEF Note
<1>2. ASSUME NEW p \in Pids, NEW i \in 1..Size, w = Create(p, i)
      PROVE  w.do = "create" /\ w.object = <<p, i>> /\ w.object \in Objects(p)
  BY <1>2 DEF Create, Objects
<1>3. ASSUME NEW p \in Pids, w = DeleteOld(p) \/ w = Modify(p) PROVE w.do \in {"delete old", "modify"} /\ w.of \in Pids
  <2>1. CASE w = DeleteOld(p)
    BY <2>1 DEF DeleteOld
  <2>2. CASE w = Modify(p)
    BY <2>2 DEF Modify
  <2> QED BY <1>3, <2>1, <2>2
<1>4. ASSUME NEW p \in Pids, NEW hs \in SUBSET Objects(p), w = Delete(hs) PROVE w.do = "delete" /\ w.handles \subseteq Objects(p)
  BY <1>4 DEF Delete
<1>5. \/ w = Note
      \/ \E p \in Pids, i \in 1..Size : w = Create(p, i)
      \/ \E p \in Pids : w = DeleteOld(p) \/ w = Modify(p) \/ \E hs \in SUBSET Objects(p) : w = Delete(hs)
  BY DEF Orders
<1> QED BY <1>1, <1>2, <1>3, <1>4, <1>5

\* An object names its proposal.
LEMMA ObjectNames ==
    /\ \A p \in Pids : \A o \in Objects(p) : o[1] = p /\ o[2] \in 1..Size
    /\ \A r \in Results : r.object[1] \in Pids /\ r.object \in Objects(r.object[1]) /\ r.ok \in BOOLEAN
<1>1. \A p \in Pids : \A o \in Objects(p) : o[1] = p /\ o[2] \in 1..Size
  BY DEF Objects
<1>2. ASSUME NEW r \in Results
      PROVE  r.object[1] \in Pids /\ r.object \in Objects(r.object[1]) /\ r.ok \in BOOLEAN
  <2>1. r.object \in UNION {Objects(p) : p \in Pids} /\ r.ok \in BOOLEAN
    BY DEF Results
  <2>2. PICK p \in Pids : r.object \in Objects(p)
    BY <2>1
  <2> QED BY <1>1, <2>1, <2>2
<1> QED BY <1>1, <1>2

\* Where sequences go.
LEMMA AmongTail ==
    ASSUME NEW S, NEW q \in Seq(S), q # <<>>
    PROVE  Head(q) \in S /\ Tail(q) \in Seq(S) /\ Among(q) = {Head(q)} \cup Among(Tail(q))
<1>1. /\ Head(q) \in S /\ Tail(q) \in Seq(S) /\ Len(Tail(q)) = Len(q) - 1
      /\ \A i \in 1..Len(Tail(q)) : Tail(q)[i] = q[i + 1]
  BY HeadTailProperties
<1>2. Len(q) \in Nat \ {0} /\ DOMAIN q = 1..Len(q) /\ Head(q) = q[1]
  BY LenProperties, EmptySeq
<1>3. DOMAIN Tail(q) = 1..(Len(q) - 1)
  BY <1>1, LenProperties
<1>4. ASSUME NEW i \in DOMAIN q PROVE q[i] \in {Head(q)} \cup Among(Tail(q))
  <2>1. CASE i = 1
    BY <1>2, <2>1
  <2>2. CASE i # 1
    <3>1. i - 1 \in DOMAIN Tail(q) /\ (i - 1) + 1 = i
      BY <1>2, <1>3, <2>2
    <3>2. Tail(q)[i - 1] = q[i]
      BY <1>1, <1>3, <3>1
    <3> QED BY <3>1, <3>2 DEF Among
  <2> QED BY <2>1, <2>2
<1>5. ASSUME NEW i \in DOMAIN Tail(q) PROVE Tail(q)[i] \in Among(q)
  <2>1. i + 1 \in DOMAIN q /\ Tail(q)[i] = q[i + 1]
    BY <1>1, <1>2, <1>3
  <2> QED BY <2>1 DEF Among
<1>6. Head(q) \in Among(q)
  BY <1>2 DEF Among
<1> QED BY <1>1, <1>4, <1>5, <1>6 DEF Among

LEMMA AmongAppend ==
    ASSUME NEW S, NEW q \in Seq(S), NEW m \in S
    PROVE  Append(q, m) \in Seq(S) /\ Among(Append(q, m)) = Among(q) \cup {m}
<1>1. /\ Append(q, m) \in Seq(S) /\ Len(Append(q, m)) = Len(q) + 1
      /\ \A i \in 1..Len(q) : Append(q, m)[i] = q[i]
      /\ Append(q, m)[Len(q) + 1] = m
  BY AppendProperties
<1>2. Len(q) \in Nat /\ DOMAIN q = 1..Len(q) /\ DOMAIN Append(q, m) = 1..(Len(q) + 1)
  BY <1>1, LenProperties
<1>3. 1..(Len(q) + 1) = 1..Len(q) \cup {Len(q) + 1}
  BY <1>2
<1> QED BY <1>1, <1>2, <1>3 DEF Among

LEMMA AmongSome == ASSUME NEW S, NEW q \in Seq(S) PROVE Among(q) \subseteq S
<1>1. \A i \in DOMAIN q : q[i] \in S
  BY ElementOfSeq, LenProperties
<1> QED BY <1>1 DEF Among

LEMMA AmongNone == Among(<<>>) = {}
BY DEF Among

\* What Put does to the way to the plugin.
LEMMA PutTypes ==
    ASSUME LinkTypes, NEW q, q = <<>> \/ \E m \in Orders : q = <<m>>, Put(q)
    PROVE  /\ UNCHANGED <<phase, pending, held, up, listed>>
           /\ LinkTypes'
           /\ down' = down \/ \E m \in Orders : q = <<m>> /\ down' = Append(down, m)
<1>1. UNCHANGED <<phase, pending, held, up, listed>> /\ (down' = down \/ down' = down \o q)
  BY DEF Put
<1>2. down \in Seq(Orders)
  BY DEF LinkTypes
<1>3. down' \in Seq(Orders) /\ (down' = down \/ \E m \in Orders : q = <<m>> /\ down' = Append(down, m))
  <2>1. CASE q = <<>>
    <3>1. down \o q = down
      BY <1>2, <2>1
    <3> QED BY <1>1, <1>2, <3>1
  <2>2. ASSUME NEW m \in Orders, q = <<m>> PROVE down \o q = Append(down, m) /\ Append(down, m) \in Seq(Orders)
    BY <1>2, <2>2
  <2> QED BY <1>1, <1>2, <2>1, <2>2
<1> QED BY <1>1, <1>3 DEF LinkTypes

\* What each action of the user and of the server leaves alone.
LEMMA UserAndServerLeave ==
    /\ User \/ Server => UNCHANGED <<dispatcher, new, old, changed>>
    /\ \A p \in Pids : Approve(p) \/ Reject(p) => UNCHANGED <<offered, chat, kind, late>>
    /\ \A p \in Pids : \A k \in Kinds : Propose(p, k) => UNCHANGED <<link, offered, late>>
    /\ StopChat => UNCHANGED <<link, batch, panel, offered, kind, late>>
    /\ SendCreate => UNCHANGED <<panel, offered, kind, late>>
    /\ AllCame => UNCHANGED <<link, kind, late>>
    /\ TimeIsUp => UNCHANGED <<link, kind>>
    /\ HearResult => UNCHANGED <<chat, panel, offered, kind, late>>
<1> USE DEF browser, drawing, history
<1>1. \A p \in Pids : Approve(p) \/ Reject(p) => UNCHANGED <<offered, chat, kind, late>>
  BY DEF Approve, Reject
<1>2. \A p \in Pids : \A k \in Kinds : Propose(p, k) => UNCHANGED <<link, offered, late>>
  BY DEF Propose
<1>3. /\ StopChat => UNCHANGED <<link, batch, panel, offered, kind, late>>
      /\ SendCreate => UNCHANGED <<panel, offered, kind, late>>
      /\ AllCame => UNCHANGED <<link, kind, late>>
      /\ TimeIsUp => UNCHANGED <<link, kind>>
      /\ HearResult => UNCHANGED <<chat, panel, offered, kind, late>>
  BY DEF StopChat, SendCreate, AllCame, TimeIsUp, HearResult
<1>4. User \/ Server => UNCHANGED <<dispatcher, new, old, changed>>
  BY DEF User, Server, Approve, Reject, Propose, StopChat, SendCreate, AllCame, TimeIsUp, HearResult
<1> QED BY <1>1, <1>2, <1>3, <1>4

\* A panel is shown only for a proposal the chat waits for.
LEMMA ShowsTypes ==
    ASSUME TypeInv, NEW p \in Pids, p = chat.pid, chat.at # "none", Shows(p), UNCHANGED <<link, kind>>,
           late' = late \/ late' = [late EXCEPT ![p] = TRUE]
    PROVE  LinkTypes' /\ BatchTypes' /\ ChatTypes' /\ PanelTypes'
<1>1. LinkTypes'
  BY DEF TypeInv, LinkTypes, link
<1>2. /\ panel' = [panel EXCEPT ![p] = "shown"] /\ chat' = NoChat
      /\ offered' = [offered EXCEPT ![p] = Among(batch[p].handles)]
      /\ batch' = [batch EXCEPT ![p] = None] \/ batch' = batch
  BY DEF Shows
<1>3. BatchTypes'
  BY <1>2 DEF TypeInv, BatchTypes
<1>4. ChatTypes'
  BY <1>2, ProposalAssumption DEF NoChat, ChatTypes
<1>5. Among(batch[p].handles) \subseteq Objects(p)
  <2>1. batch[p].handles \in Seq(Objects(p))
    BY DEF TypeInv, BatchTypes, ChatTypes
  <2> QED BY <2>1, AmongSome
<1>6. Among(batch[p].handles) \subseteq Obj
  BY <1>5 DEF Obj
<1>7. kind[p] # None
  BY NoneIsNoValue DEF TypeInv, ChatTypes, Kinds
<1>8. PanelTypes'
  <2>1. panel' \in [Pids -> {"none", "shown", "approved", "rejected"}] /\ kind' \in [Pids -> Kinds \cup {None}]
    BY <1>2 DEF TypeInv, PanelTypes
  <2>2. offered' \in [Pids -> SUBSET Obj] /\ late' \in [Pids -> BOOLEAN]
    BY <1>2, <1>6 DEF TypeInv, PanelTypes
  <2>3. \A q \in Pids : offered'[q] \subseteq Objects(q) /\ (panel'[q] # "none" => kind'[q] # None)
    BY <1>2, <1>5, <1>7 DEF TypeInv, PanelTypes
  <2> QED BY <2>1, <2>2, <2>3 DEF PanelTypes
<1> QED BY <1>1, <1>3, <1>4, <1>8

\* What the user and the server do.
LEMMA UserTypes ==
    ASSUME TypeInv, User
    PROVE  TypeInv'
<1>1. UNCHANGED <<dispatcher, new, old, changed>>
  BY UserAndServerLeave
<1>2. TaskTypes' /\ DrawTypes'
  BY <1>1 DEF TypeInv, TaskTypes, DispatcherTypeOK, dispatcher, DrawTypes
<1>3. ASSUME NEW p \in Pids, NEW answer \in {"approved", "rejected"}, panel[p] = "shown",
             panel' = [panel EXCEPT ![p] = answer], batch' = [batch EXCEPT ![p] = None],
             UNCHANGED <<offered, chat, kind, late>>
      PROVE  BatchTypes' /\ ChatTypes' /\ PanelTypes'
  <2>1. BatchTypes'
    BY <1>3 DEF TypeInv, BatchTypes
  <2>2. ChatTypes'
    BY <1>3 DEF TypeInv, ChatTypes, BatchTypes, PanelTypes
  <2>3. PanelTypes'
    BY <1>3 DEF TypeInv, PanelTypes
  <2> QED BY <2>1, <2>2, <2>3
<1>4. ASSUME NEW p \in Pids, Approve(p) PROVE TypeInv'
  <2>1. DeleteOld(p) \in Orders /\ Modify(p) \in Orders
    BY DEF Orders
  <2>2. LinkTypes'
    BY <1>4, <2>1, PutTypes DEF Approve, TypeInv
  <2>3. BatchTypes' /\ ChatTypes' /\ PanelTypes'
    BY <1>3, <1>4, UserAndServerLeave DEF Approve
  <2> QED BY <1>2, <2>2, <2>3 DEF TypeInv
<1>5. ASSUME NEW p \in Pids, Reject(p) PROVE TypeInv'
  <2>1. Delete(offered[p]) \in Orders
    BY DEF Orders, TypeInv, PanelTypes
  <2>2. LinkTypes'
    BY <1>5, <2>1, PutTypes DEF Reject, TypeInv
  <2>3. BatchTypes' /\ ChatTypes' /\ PanelTypes'
    BY <1>3, <1>5, UserAndServerLeave DEF Reject
  <2> QED BY <1>2, <2>2, <2>3 DEF TypeInv
<1>6. ASSUME NEW p \in Pids, NEW k \in Kinds, Propose(p, k) PROVE TypeInv'
  <2> DEFINE b == [kind |-> k, handles |-> <<>>]
  <2>1. b \in [kind : Kinds, handles : Seq(Obj)] /\ b.handles \in Seq(Objects(p)) /\ b.kind = k /\ b # None
    <3>1. b \in [kind : Kinds, handles : Seq(Obj)]
      OBVIOUS
    <3>2. b.handles \in Seq(Objects(p)) /\ b.kind = k
      OBVIOUS
    <3> QED BY <3>1, <3>2, NoneIsNoValue DEF Obj
  <2>2. /\ UNCHANGED <<link, offered, late>> /\ kind[p] = None
        /\ kind' = [kind EXCEPT ![p] = k] /\ batch' = [batch EXCEPT ![p] = b]
    BY <1>6, UserAndServerLeave DEF Propose
  <2>3. panel[p] = "none" /\ batch[p] = None
    BY <2>2, NoneIsNoValue DEF TypeInv, PanelTypes, BatchTypes
  <2>4. Size \in 0..Size /\ Size # 0 /\ k # None
    BY ProposalAssumption, NoneIsNoValue
  <2> HIDE DEF b
  <2>5. LinkTypes'
    BY <2>2 DEF TypeInv, LinkTypes, link
  <2>6. BatchTypes'
    <3>1. \A q \in Pids : q # p => batch'[q] = batch[q] /\ kind'[q] = kind[q]
      BY <2>2 DEF TypeInv, BatchTypes, PanelTypes
    <3>2. batch'[p] = b /\ kind'[p] = k
      BY <2>2 DEF TypeInv, BatchTypes, PanelTypes
    <3>3. batch' \in [Pids -> [kind : Kinds, handles : Seq(Obj)] \cup {None}]
      BY <2>1, <2>2 DEF TypeInv, BatchTypes
    <3> QED BY <2>1, <3>1, <3>2, <3>3 DEF TypeInv, BatchTypes
  <2>7. CASE k = "modify"
    <3>1. chat' = NoChat /\ panel' = [panel EXCEPT ![p] = "shown"]
      BY <1>6, <2>7 DEF Propose
    <3>2. ChatTypes'
      BY <3>1, ProposalAssumption DEF NoChat, ChatTypes
    <3>3. PanelTypes'
      BY <2>2, <2>4, <3>1 DEF TypeInv, PanelTypes
    <3> QED BY <1>2, <2>5, <2>6, <3>2, <3>3 DEF TypeInv
  <2>8. CASE k # "modify"
    <3>1. chat' = [pid |-> p, at |-> "sends", left |-> Size, sent |-> FALSE] /\ panel' = panel
      BY <1>6, <2>8 DEF Propose, NoChat
    <3>2. kind'[p] \in {"create", "replace"} /\ batch'[p] # None
      BY <2>1, <2>2, <2>8 DEF Kinds, TypeInv, BatchTypes, PanelTypes
    <3>3. ChatTypes'
      BY <2>3, <2>4, <3>1, <3>2 DEF ChatTypes
    <3>4. PanelTypes'
      BY <2>2, <2>4, <3>1 DEF TypeInv, PanelTypes
    <3> QED BY <1>2, <2>5, <2>6, <3>3, <3>4 DEF TypeInv
  <2> QED BY <2>7, <2>8
<1>7. CASE StopChat
  <2>1. UNCHANGED <<link, batch, panel, offered, kind, late>> /\ chat' = NoChat
    BY <1>7, UserAndServerLeave DEF StopChat
  <2>2. LinkTypes' /\ BatchTypes' /\ PanelTypes'
    BY <2>1 DEF TypeInv, LinkTypes, BatchTypes, PanelTypes, link
  <2>3. ChatTypes'
    BY <2>1, ProposalAssumption DEF NoChat, ChatTypes
  <2> QED BY <1>2, <2>2, <2>3 DEF TypeInv
<1> QED BY <1>4, <1>5, <1>6, <1>7 DEF User

LEMMA ServerTypes ==
    ASSUME TypeInv, Server
    PROVE  TypeInv'
<1>1. UNCHANGED <<dispatcher, new, old, changed>>
  BY UserAndServerLeave
<1>2. TaskTypes' /\ DrawTypes'
  BY <1>1 DEF TypeInv, TaskTypes, DispatcherTypeOK, dispatcher, DrawTypes
<1>3. CASE SendCreate
  <2>1. chat.at = "sends" /\ chat.pid \in Pids /\ chat.left \in 1..Size
    BY <1>3, ProposalAssumption DEF SendCreate, TypeInv, ChatTypes
  <2>2. Create(chat.pid, chat.left) \in Orders
    BY <2>1 DEF Orders
  <2>3. LinkTypes'
    BY <1>3, <2>2, PutTypes DEF SendCreate, TypeInv
  <2>4. UNCHANGED <<panel, offered, kind, late>>
    BY <1>3, UserAndServerLeave
  <2>5. PanelTypes'
    BY <2>4 DEF TypeInv, PanelTypes
  <2>6. CASE chat.left > 1
    <3>1. chat' = [chat EXCEPT !.left = @ - 1, !.sent = chat.sent \/ Reached] /\ batch' = batch
      BY <1>3, <2>6 DEF SendCreate
    <3>2. chat.left - 1 \in 0..Size /\ chat.left - 1 # 0 /\ (chat.sent \/ Reached) \in BOOLEAN
      BY <2>1, <2>6, ProposalAssumption DEF Reached
    <3> DEFINE s == chat.sent \/ Reached
               n == chat.left - 1
    <3>3. chat' = [pid |-> chat.pid, at |-> chat.at, left |-> n, sent |-> s]
      BY <3>1 DEF TypeInv, ChatTypes
    <3> HIDE DEF s, n
    <3>4. n \in 0..Size /\ n # 0 /\ s \in BOOLEAN
      BY <3>2 DEF s, n
    <3>5. ChatTypes'
      <4>1. chat' \in [pid : Pids \cup {None}, at : {"none", "sends", "waits"}, left : 0..Size, sent : BOOLEAN]
        BY <2>1, <3>3, <3>4
      <4>2. UNCHANGED <<batch, panel, kind>>
        BY <2>4, <3>1
      <4>3. chat'.at = "sends" /\ chat'.pid = chat.pid /\ chat'.left # 0 /\ chat.at # "none"
        BY <2>1, <3>3, <3>4
      <4> QED BY <4>1, <4>2, <4>3 DEF TypeInv, ChatTypes
    <3>6. BatchTypes'
      BY <2>4, <3>1 DEF TypeInv, BatchTypes
    <3> QED BY <1>2, <2>3, <2>5, <3>5, <3>6 DEF TypeInv
  <2>7. CASE ~(chat.left > 1) /\ (chat.sent \/ Reached)
    <3>1. chat' = [chat EXCEPT !.left = 0, !.at = "waits"] /\ batch' = batch
      BY <1>3, <2>7 DEF SendCreate
    <3>2. ChatTypes'
      <4>1. chat' = [pid |-> chat.pid, at |-> "waits", left |-> 0, sent |-> chat.sent]
        BY <3>1 DEF TypeInv, ChatTypes
      <4>2. chat' \in [pid : Pids \cup {None}, at : {"none", "sends", "waits"}, left : 0..Size, sent : BOOLEAN]
        BY <4>1, ProposalAssumption DEF TypeInv, ChatTypes
      <4>3. chat'.at = "waits" /\ chat'.pid = chat.pid /\ chat.at # "none" /\ UNCHANGED <<batch, panel, kind>>
        BY <2>1, <2>4, <3>1, <4>1
      <4> QED BY <4>2, <4>3 DEF TypeInv, ChatTypes
    <3>3. BatchTypes'
      BY <2>4, <3>1 DEF TypeInv, BatchTypes
    <3> QED BY <1>2, <2>3, <2>5, <3>2, <3>3 DEF TypeInv
  <2>8. CASE ~(chat.left > 1) /\ ~(chat.sent \/ Reached)
    <3>1. chat' = NoChat /\ batch' = [batch EXCEPT ![chat.pid] = None]
      BY <1>3, <2>8 DEF SendCreate
    <3>2. ChatTypes'
      BY <3>1, ProposalAssumption DEF NoChat, ChatTypes
    <3>3. BatchTypes'
      BY <2>4, <3>1 DEF TypeInv, BatchTypes
    <3> QED BY <1>2, <2>3, <2>5, <3>2, <3>3 DEF TypeInv
  <2> QED BY <2>6, <2>7, <2>8
<1>4. CASE AllCame \/ TimeIsUp
  <2>1. /\ chat.at # "none" /\ Shows(chat.pid) /\ UNCHANGED <<link, kind>>
        /\ late' = late \/ late' = [late EXCEPT ![chat.pid] = TRUE]
    BY <1>4, UserAndServerLeave DEF AllCame, TimeIsUp
  <2>2. chat.pid \in Pids
    BY <2>1 DEF TypeInv, ChatTypes
  <2>3. LinkTypes' /\ BatchTypes' /\ ChatTypes' /\ PanelTypes'
    BY <2>1, <2>2, ShowsTypes
  <2> QED BY <1>2, <2>3 DEF TypeInv
<1>5. CASE HearResult
  <2> DEFINE r == Head(up)
             p == r.object[1]
  <2>1. r \in Results /\ Tail(up) \in Seq(Results)
    BY <1>5, AmongTail DEF HearResult, TypeInv, LinkTypes
  <2>2. p \in Pids /\ r.object \in Objects(p)
    BY <2>1, ObjectNames
  <2>3. /\ UNCHANGED <<phase, pending, held, down, listed>> /\ UNCHANGED <<chat, panel, offered, kind, late>>
        /\ up' = Tail(up)
        /\ batch' = batch \/ (batch[p] # None /\ batch' = [batch EXCEPT ![p].handles = Append(@, r.object)])
    BY <1>5, UserAndServerLeave DEF HearResult, Collects
  <2>4. LinkTypes'
    BY <2>1, <2>3 DEF TypeInv, LinkTypes
  <2>5. PanelTypes'
    BY <2>3 DEF TypeInv, PanelTypes
  <2> HIDE DEF r, p
  <2>6. CASE batch' = batch
    <3>1. BatchTypes' /\ ChatTypes'
      BY <2>3, <2>6 DEF TypeInv, BatchTypes, ChatTypes
    <3> QED BY <1>2, <2>4, <2>5, <3>1 DEF TypeInv
  <2>7. CASE batch[p] # None /\ batch' = [batch EXCEPT ![p].handles = Append(@, r.object)]
    <3> DEFINE h == Append(batch[p].handles, r.object)
               b == [kind |-> batch[p].kind, handles |-> h]
    <3>1. batch[p] \in [kind : Kinds, handles : Seq(Obj)] /\ batch[p].kind = kind[p] /\ batch[p].handles \in Seq(Objects(p))
      BY <2>2, <2>7 DEF TypeInv, BatchTypes
    <3>2. h \in Seq(Objects(p))
      BY <2>2, <3>1
    <3>3. r.object \in Obj
      BY <2>2 DEF Obj
    <3>4. h \in Seq(Obj)
      BY <3>1, <3>3
    <3>5. [batch[p] EXCEPT !.handles = Append(@, r.object)] = b
      <4> DEFINE c == batch[p]
      <4>1. c = [kind |-> c.kind, handles |-> c.handles]
        BY <3>1
      <4> HIDE DEF c
      <4>2. [c EXCEPT !.handles = Append(@, r.object)] = [kind |-> c.kind, handles |-> Append(c.handles, r.object)]
        BY <4>1
      <4> QED BY <4>2 DEF c
    <3>6. batch' = [batch EXCEPT ![p] = [batch[p] EXCEPT !.handles = Append(@, r.object)]]
      BY <2>7
    <3>7. batch' = [batch EXCEPT ![p] = b]
      BY <3>5, <3>6
    <3> HIDE DEF h
    <3>8. b \in [kind : Kinds, handles : Seq(Obj)] /\ b.kind = kind[p] /\ b.handles = h
      BY <3>1, <3>4
    <3> HIDE DEF b
    <3>9. b # None
      BY <3>8, NoneIsNoValue DEF Obj
    <3>10. BatchTypes'
      BY <2>2, <2>3, <3>2, <3>7, <3>8 DEF TypeInv, BatchTypes
    <3>11. \A q \in Pids : batch[q] # None => batch'[q] # None
      BY <3>7, <3>9 DEF TypeInv, BatchTypes
    <3>12. ChatTypes'
      BY <2>3, <3>11 DEF TypeInv, ChatTypes
    <3> QED BY <1>2, <2>4, <2>5, <3>10, <3>12 DEF TypeInv
  <2> QED BY <2>3, <2>6, <2>7
<1> QED BY <1>3, <1>4, <1>5 DEF Server
\* What the plugin does, and what only passes the connection.
LEMMA PluginLeaves ==
    /\ Plugin => UNCHANGED <<batch, chat, panel, offered, kind, late>>
    /\ Moves \/ Breaks => UNCHANGED <<dispatcher, batch, chat, panel, offered, kind, late, new, old, changed>>
    /\ Restart => UNCHANGED <<dispatcher, pending, held, panel, offered, kind, late, new, old, changed>>
<1> USE DEF server, browser, drawing, history
<1>1. \A t \in Threads : PluginHears(t) \/ OtherWork(t) \/ Schedules(t)
        => UNCHANGED <<batch, chat, panel, offered, kind, late>>
  BY DEF PluginHears, OtherWork, Schedules
<1>2. OtherWorkOnUi \/ PluginRuns \/ Looks \/ UserBegins \/ UserStops
        => UNCHANGED <<batch, chat, panel, offered, kind, late>>
  BY DEF OtherWorkOnUi, PluginRuns, Looks, UserBegins, UserStops
<1>3. Moves \/ Breaks => UNCHANGED <<dispatcher, batch, chat, panel, offered, kind, late, new, old, changed>>
  BY DEF Moves, Breaks
<1>4. Restart => UNCHANGED <<dispatcher, pending, held, panel, offered, kind, late, new, old, changed>>
  BY DEF Restart
<1> QED BY <1>1, <1>2, <1>3, <1>4 DEF Plugin

\* A step of the plugin is one of its dispatcher's.
LEMMA PluginIsDispatcher ==
    ASSUME TypeInv, Plugin
    PROVE  DispatcherNext /\ tasks' \in Seq(Orders)
<1>1. tasks \in Seq(Orders) /\ down \in Seq(Orders)
  BY DEF TypeInv, TaskTypes, LinkTypes
<1>2. Note \in Orders
  BY DEF Orders
<1>3. ASSUME NEW t \in Threads, PluginHears(t) PROVE DispatcherNext /\ tasks' \in Seq(Orders)
  <2>1. Head(down) \in Orders
    BY <1>1, <1>3, AmongTail DEF PluginHears, Receive
  <2>2. Enqueue(t, Head(down))
    BY <1>3 DEF PluginHears
  <2>3. tasks' = Append(tasks, Head(down))
    BY <2>2 DEF Enqueue
  <2>4. tasks' \in Seq(Orders)
    BY <1>1, <2>1, <2>3, AmongAppend
  <2> QED BY <2>1, <2>2, <2>4, OrdersAreWork DEF DispatcherNext
<1>4. ASSUME NEW t \in Threads, OtherWork(t) PROVE DispatcherNext /\ tasks' \in Seq(Orders)
  <2>1. Enqueue(t, Note)
    BY <1>4 DEF OtherWork
  <2>2. tasks' \in Seq(Orders)
    BY <1>1, <1>2, <2>1 DEF Enqueue
  <2> QED BY <1>2, <2>1, <2>2, OrdersAreWork DEF DispatcherNext
<1>5. CASE OtherWorkOnUi
  <2>1. EnqueueOnUi(Note)
    BY <1>5 DEF OtherWorkOnUi
  <2>2. tasks' \in Seq(Orders)
    BY <1>1, <1>2, <2>1 DEF EnqueueOnUi
  <2> QED BY <1>2, <2>1, <2>2, OrdersAreWork DEF DispatcherNext
<1>6. CASE PluginRuns
  <2>1. RunTask
    BY <1>6 DEF PluginRuns
  <2>2. tasks' \in Seq(Orders)
    BY <1>1, <2>1, AmongTail DEF RunTask
  <2> QED BY <2>1, <2>2 DEF DispatcherNext, UiThread
<1>7. ASSUME NEW t \in Threads, Schedules(t) PROVE DispatcherNext /\ tasks' \in Seq(Orders)
  <2>1. Inside(t)
    BY <1>7 DEF Schedules
  <2>2. tasks' = tasks
    BY <2>1 DEF Inside, Claim, Post
  <2> QED BY <1>1, <2>1, <2>2 DEF DispatcherNext
<1>8. CASE Looks \/ UserBegins \/ UserStops
  <2>1. \/ DrainBegins \/ FindsCommand \/ FindsNone \/ RunEnds \/ LookThrows
        \/ CommandBegins \/ CommandStops
    BY <1>8 DEF Looks, UserBegins, UserStops
  <2>2. tasks' = tasks
    BY <2>1 DEF DrainBegins, FindsCommand, FindsNone, RunEnds, LookThrows, CommandBegins, CommandStops
  <2> QED BY <1>1, <2>1, <2>2 DEF DispatcherNext, UiThread
<1> QED BY <1>3, <1>4, <1>5, <1>6, <1>7, <1>8 DEF Plugin

\* The task that runs.
LEMMA RunTypes ==
    ASSUME TypeInv, PluginRuns
    PROVE  LinkTypes' /\ DrawTypes'
<1> DEFINE task == Head(tasks)
<1>1. task \in Orders
  BY AmongTail DEF PluginRuns, RunTask, TypeInv, TaskTypes
<1>2. held = None /\ Carries(task)
  BY DEF PluginRuns
<1> HIDE DEF task
<1>3. CASE task.do = "create"
  <2>1. PICK p \in Pids, i \in 1..Size : task.object = <<p, i>> /\ task.object \in Objects(p)
    BY <1>1, <1>3, OrderIs
  <2>2. PICK ok \in BOOLEAN : Draws(task.object, ok)
    BY <1>2, <1>3 DEF Carries
  <2> DEFINE o == task.object
             m == Result(o, ok)
  <2>3. o[1] = p /\ o \in Objects(p) /\ o \in Obj
    BY <2>1 DEF Obj
  <2>4. m \in Results
    BY <2>3 DEF Result, Results, Obj
  <2>5. /\ new' = IF ok THEN [new EXCEPT ![o[1]] = @ \cup {o}] ELSE new
        /\ UNCHANGED <<old, changed>> /\ Send(m)
    BY <2>2 DEF Draws
  <2> HIDE DEF m, o
  <2>6. LinkTypes'
    <3>1. /\ UNCHANGED <<phase, pending, down, listed>>
          /\ (up' = Append(up, m) /\ held' = held) \/ (up' = up /\ held' = m)
      BY <2>5 DEF Send
    <3>2. Append(up, m) \in Seq(Results)
      BY <2>4, AppendProperties DEF TypeInv, LinkTypes
    <3> QED BY <2>4, <3>1, <3>2 DEF TypeInv, LinkTypes
  <2>7. DrawTypes'
    BY <2>3, <2>5 DEF TypeInv, DrawTypes
  <2> QED BY <2>6, <2>7
<1>4. CASE task.do = "delete"
  <2>1. /\ new' = [p \in Pids |-> new[p] \ task.handles] /\ UNCHANGED <<old, changed, link>>
    BY <1>2, <1>4 DEF Carries, Erases
  <2>2. LinkTypes'
    BY <2>1 DEF TypeInv, LinkTypes, link
  <2>3. DrawTypes'
    BY <2>1 DEF TypeInv, DrawTypes
  <2> QED BY <2>2, <2>3
<1>5. CASE task.do \in {"note", "delete old", "modify"}
  <2>1. /\ UNCHANGED <<new, link>>
        /\ old' = old \/ old' = [old EXCEPT ![task.of] = FALSE]
        /\ changed' = changed \/ changed' = [changed EXCEPT ![task.of] = TRUE]
    BY <1>2, <1>5 DEF Carries, drawing
  <2>2. LinkTypes'
    BY <2>1 DEF TypeInv, LinkTypes, link
  <2>3. DrawTypes'
    BY <2>1 DEF TypeInv, DrawTypes
  <2> QED BY <2>2, <2>3
<1> QED BY <1>1, <1>3, <1>4, <1>5, OrderIs

LEMMA PluginTypes ==
    ASSUME TypeInv, Plugin
    PROVE  TypeInv'
<1>1. DispatcherNext /\ tasks' \in Seq(Orders)
  BY PluginIsDispatcher
<1>2. TaskTypes'
  BY <1>1, DispatcherTypes DEF TypeInv, TaskTypes
<1>3. UNCHANGED <<batch, chat, panel, offered, kind, late>>
  BY PluginLeaves
<1>4. BatchTypes' /\ ChatTypes' /\ PanelTypes'
  BY <1>3 DEF TypeInv, BatchTypes, ChatTypes, PanelTypes
<1>5. CASE PluginRuns
  BY <1>2, <1>4, <1>5, RunTypes DEF TypeInv
<1>6. CASE ~PluginRuns
  <2>1. /\ UNCHANGED <<new, old, changed, phase, pending, held, up, listed>>
        /\ down' = down \/ (down # <<>> /\ down' = Tail(down))
    <3>1. \A t \in Threads : PluginHears(t) => /\ UNCHANGED <<new, old, changed, phase, pending, held, up, listed>>
                                              /\ down # <<>> /\ down' = Tail(down)
      BY DEF PluginHears, Receive, drawing
    <3>2. \A t \in Threads : OtherWork(t) \/ Schedules(t) => UNCHANGED <<new, old, changed, link>>
      BY DEF OtherWork, Schedules, drawing
    <3>3. OtherWorkOnUi \/ Looks \/ UserBegins \/ UserStops => UNCHANGED <<new, old, changed, link>>
      BY DEF OtherWorkOnUi, Looks, UserBegins, UserStops, drawing
    <3> QED BY <1>6, <3>1, <3>2, <3>3 DEF Plugin, link
  <2>2. DrawTypes'
    BY <2>1 DEF TypeInv, DrawTypes
  <2>3. down' \in Seq(Orders)
    BY <2>1, AmongTail DEF TypeInv, LinkTypes
  <2>4. LinkTypes'
    BY <2>1, <2>3 DEF TypeInv, LinkTypes
  <2> QED BY <1>2, <1>4, <2>2, <2>4 DEF TypeInv
<1> QED BY <1>5, <1>6

\* What is queued is at most MaxPending.
LEMMA EnqueuedTypes ==
    ASSUME NEW q \in Seq(Results), Len(q) <= MaxPending, NEW m \in Results
    PROVE  Enqueued(q, m) \in Seq(Results) /\ Len(Enqueued(q, m)) <= MaxPending
<1>1. CASE Len(q) >= MaxPending
  <2>1. q # <<>>
    BY <1>1, LinkAssumption
  <2>2. Tail(q) \in Seq(Results) /\ Len(Tail(q)) = Len(q) - 1
    BY <2>1, HeadTailProperties
  <2>3. Enqueued(q, m) = Append(Tail(q), m)
    BY <1>1 DEF Enqueued
  <2> QED BY <1>1, <2>2, <2>3, LenProperties, AppendProperties
<1>2. CASE ~(Len(q) >= MaxPending)
  <2>1. Enqueued(q, m) = Append(q, m)
    BY <1>2 DEF Enqueued
  <2> QED BY <1>2, <2>1, LenProperties, AppendProperties, LinkAssumption
<1> QED BY <1>1, <1>2

LEMMA ConnectionTypes ==
    ASSUME TypeInv, Moves \/ Breaks \/ Restart
    PROVE  TypeInv'
<1>1. UNCHANGED <<dispatcher, panel, offered, kind, late, new, old, changed>>
  BY PluginLeaves
<1>2. TaskTypes' /\ PanelTypes' /\ DrawTypes'
  BY <1>1 DEF TypeInv, TaskTypes, DispatcherTypeOK, dispatcher, PanelTypes, DrawTypes
<1>3. CASE Moves \/ Breaks
  <2>1. UNCHANGED <<batch, chat>>
    BY <1>3, PluginLeaves
  <2>2. BatchTypes' /\ ChatTypes'
    BY <1>1, <2>1 DEF TypeInv, BatchTypes, ChatTypes
  <2>3. LinkTypes'
    <3> USE DEF TypeInv, LinkTypes
    <3>1. CASE QueueHeld
      <4>1. held \in Results
        BY <3>1 DEF QueueHeld
      <4>2. Enqueued(pending, held) \in Seq(Results) /\ Len(Enqueued(pending, held)) <= MaxPending
        BY <4>1, EnqueuedTypes
      <4> QED BY <3>1, <4>2 DEF QueueHeld
    <3>2. CASE Connect \/ FlushEnds \/ Notice
      BY <3>2 DEF Connect, FlushEnds, Notice
    <3>3. CASE Flush
      <4>1. /\ pending # <<>> /\ up' = Append(up, Head(pending)) /\ pending' = Tail(pending)
            /\ UNCHANGED <<phase, held, down, listed>>
        BY <3>3 DEF Flush
      <4>2. Head(pending) \in Results /\ Tail(pending) \in Seq(Results) /\ Len(Tail(pending)) = Len(pending) - 1
        BY <4>1, HeadTailProperties
      <4>3. Len(pending') <= MaxPending
        BY <4>1, <4>2, LenProperties, LinkAssumption
      <4>4. up' \in Seq(Results)
        BY <4>1, <4>2, AppendProperties
      <4> QED BY <4>1, <4>2, <4>3, <4>4
    <3>4. CASE Breaks
      BY <3>4 DEF Breaks, Break
    <3> QED BY <1>3, <3>1, <3>2, <3>3, <3>4 DEF Moves
  <2> QED BY <1>2, <2>2, <2>3 DEF TypeInv
<1>4. CASE Restart
  <2>1. /\ batch' = [p \in Pids |-> None] /\ chat' = NoChat /\ listed' = FALSE
        /\ UNCHANGED <<pending, held>>
        /\ (phase' = "down" /\ up' = <<>> /\ down' = <<>>) \/ UNCHANGED <<phase, up, down>>
    BY <1>4 DEF Restart
  <2>2. BatchTypes'
    BY <2>1 DEF BatchTypes
  <2>3. ChatTypes'
    BY <2>1, ProposalAssumption DEF NoChat, ChatTypes
  <2>4. LinkTypes'
    <3>1. phase' \in {"down", "flush", "receive"} /\ listed' \in BOOLEAN
      BY <2>1 DEF TypeInv, LinkTypes
    <3>2. up' \in Seq(Results) /\ down' \in Seq(Orders)
      <4>1. <<>> \in Seq(Results) /\ <<>> \in Seq(Orders)
        OBVIOUS
      <4>2. up' \in {<<>>, up} /\ down' \in {<<>>, down}
        BY <2>1
      <4> QED BY <4>1, <4>2 DEF TypeInv, LinkTypes
    <3> QED BY <2>1, <3>1, <3>2 DEF TypeInv, LinkTypes
  <2> QED BY <1>2, <2>2, <2>3, <2>4 DEF TypeInv
<1> QED BY <1>3, <1>4

LEMMA TypesKept == TypeInv /\ [Next]_vars => TypeInv'
<1> SUFFICES ASSUME TypeInv, [Next]_vars PROVE TypeInv'
  OBVIOUS
<1>1. CASE UNCHANGED vars
  <2>1. TaskTypes' /\ LinkTypes'
    BY <1>1 DEF TypeInv, TaskTypes, DispatcherTypeOK, LinkTypes, vars, dispatcher, link
  <2>2. BatchTypes' /\ ChatTypes' /\ PanelTypes' /\ DrawTypes'
    BY <1>1 DEF TypeInv, BatchTypes, ChatTypes, PanelTypes, DrawTypes, vars, server, browser, drawing, history
  <2> QED BY <2>1, <2>2 DEF TypeInv
<1>2. CASE Next
  BY <1>2, UserTypes, ServerTypes, PluginTypes, ConnectionTypes DEF Next
<1> QED BY <1>1, <1>2

LEMMA TypeInit == Init => TypeInv
<1> SUFFICES ASSUME Init PROVE TypeInv
  OBVIOUS
<1>1. DispatcherInit /\ LinkInit
  BY DEF Init
<1>2. TaskTypes
  <2>1. DispatcherTypeOK
    BY <1>1, AttendedAtFirst DEF AttendedInv
  <2>2. tasks \in Seq(Orders)
    BY <1>1 DEF DispatcherInit
  <2> QED BY <2>1, <2>2 DEF TaskTypes
<1>3. LinkTypes
  <2>1. phase = "receive" /\ listed = TRUE /\ pending = <<>> /\ up = <<>> /\ down = <<>> /\ held = None
    BY <1>1 DEF LinkInit
  <2>2. Len(<<>>) = 0
    OBVIOUS
  <2>3. <<>> \in Seq(Results) /\ <<>> \in Seq(Orders)
    OBVIOUS
  <2> QED BY <2>1, <2>2, <2>3, LinkAssumption DEF LinkTypes
<1>4. BatchTypes
  BY DEF Init, BatchTypes
<1>5. ChatTypes
  BY ProposalAssumption DEF Init, NoChat, ChatTypes
<1>6. PanelTypes
  BY DEF Init, PanelTypes
<1>7. DrawTypes
  BY DEF Init, DrawTypes
<1> QED BY <1>2, <1>3, <1>4, <1>5, <1>6, <1>7 DEF TypeInv

LEMMA TypesImplied == TypeInv => TypeOK
<1> SUFFICES ASSUME TypeInv PROVE TypeOK
  OBVIOUS
<1> USE DEF TypeInv
<1>1. DispatcherTypeOK
  BY DEF TaskTypes
<1>2. down \in Seq(Work)
  BY OrdersAreWork, SeqMonotonic DEF LinkTypes
<1>3. /\ phase \in {"down", "flush", "receive"} /\ listed \in BOOLEAN
      /\ pending \in Seq(Results) /\ Len(pending) <= MaxPending
      /\ up \in Seq(Results) /\ held \in Results \cup {None}
  BY DEF LinkTypes
<1>4. ASSUME NEW p \in Pids, batch[p] # None
      PROVE  batch[p].kind = kind[p] /\ Among(batch[p].handles) \subseteq Objects(p)
  <2>1. batch[p].handles \in Seq(Objects(p)) /\ batch[p].kind = kind[p]
    BY <1>4 DEF BatchTypes
  <2> QED BY <2>1, AmongSome
<1>5. ASSUME NEW p \in Pids
      PROVE  /\ offered[p] \cup new[p] \subseteq Objects(p)
             /\ panel[p] \in {"none", "shown", "approved", "rejected"} /\ kind[p] \in Kinds \cup {None}
  BY DEF PanelTypes, DrawTypes
<1>6. chat.at \in {"none", "sends", "waits"} /\ chat.left \in 0..Size
  BY DEF ChatTypes
<1> QED BY <1>1, <1>2, <1>3, <1>4, <1>5, <1>6 DEF TypeOK

\* The state of the server, of the browser, of the drawing and of both queues
\* between them has its types, for any number of proposals and objects, after
\* any faults (websocket.py 184-410, SocketClient.cs 36-65).
THEOREM ProposalsAreTyped == Spec => []TypeOK
<1>1. Spec => []TypeInv
  BY TypeInit, TypesKept, PTL DEF Spec
<1> QED BY <1>1, TypesImplied, PTL
------------------------------------------------------------------------------
(* The plugin's tasks.                                                      *)

LEMMA StepsOfDispatcher == TypeInv /\ [Next]_vars => [DispatcherNext]_dispatcher
<1>1. ASSUME TypeInv, Plugin PROVE DispatcherNext
  BY <1>1, PluginIsDispatcher
<1>2. User \/ Server \/ Moves \/ Breaks \/ Restart => UNCHANGED dispatcher
  BY UserAndServerLeave, PluginLeaves DEF dispatcher
<1>3. UNCHANGED vars => UNCHANGED dispatcher
  BY DEF vars
<1> QED BY <1>1, <1>2, <1>3 DEF Next

\* A queued task has somebody who will come for it, whatever the server, the
\* user and the connection do (SafeTaskDispatcher.cs 54 and 83); the one
\* exception is a look at the queue that threw (114-117).
THEOREM ProposedWorkIsAttended == Spec => []Attended
<1>1. Spec => []TypeInv
  BY TypeInit, TypesKept, PTL DEF Spec
<1>2. Init => AttendedInv
  BY AttendedAtFirst DEF Init
<1>3. TypeInv /\ AttendedInv /\ [Next]_vars => AttendedInv'
  BY StepsOfDispatcher, DispatcherTypes, StaysAttended DEF AttendedInv
<1>4. AttendedInv => Attended
  BY DEF AttendedInv
<1> QED BY <1>1, <1>2, <1>3, <1>4, PTL DEF Spec

------------------------------------------------------------------------------
(* The answers decide.  AnswersDecide is about the step that carries out an *)
(* order; that the user has answered by then is known only because every    *)
(* order that is still on its way, or waits as a task, was given for an     *)
(* answer and an answer is never taken back.                                *)

Ordered(w) ==
    /\ w.do = "delete" => \E p \in Pids : w.handles \subseteq Objects(p) /\ panel[p] = "rejected"
    /\ w.do = "delete old" => panel[w.of] = "approved" /\ kind[w.of] = "replace"
    /\ w.do = "modify" => panel[w.of] = "approved" /\ kind[w.of] = "modify"
OrderInv == \A w \in Among(down) \cup Among(tasks) : Ordered(w)

\* An answer stands, and so does what was proposed.
LEMMA AnswersStand ==
    ASSUME TypeInv, [Next]_vars, NEW p \in Pids
    PROVE  /\ panel[p] \in {"approved", "rejected"} => panel'[p] = panel[p]
           /\ kind[p] # None => kind'[p] = kind[p]
           /\ panel[p] # "none" => panel'[p] # "none"
<1>1. panel \in [Pids -> {"none", "shown", "approved", "rejected"}] /\ kind \in [Pids -> Kinds \cup {None}]
  BY DEF TypeInv, PanelTypes
<1>2. CASE \E q \in Pids : Approve(q) \/ Reject(q)
  <2>1. PICK q \in Pids : Approve(q) \/ Reject(q)
    BY <1>2
  <2>2. /\ panel[q] = "shown" /\ kind' = kind
        /\ panel' = [panel EXCEPT ![q] = "approved"] \/ panel' = [panel EXCEPT ![q] = "rejected"]
    BY <2>1, UserAndServerLeave DEF Approve, Reject
  <2> QED BY <1>1, <2>2
<1>3. CASE \E q \in Pids : \E k \in Kinds : Propose(q, k)
  <2>1. PICK q \in Pids, k \in Kinds : Propose(q, k)
    BY <1>3
  <2>2. /\ kind[q] = None /\ kind' = [kind EXCEPT ![q] = k]
        /\ panel' = panel \/ panel' = [panel EXCEPT ![q] = "shown"]
    BY <2>1 DEF Propose
  <2>3. panel[q] = "none"
    BY <2>2 DEF TypeInv, PanelTypes
  <2> QED BY <1>1, <2>2, <2>3
<1>4. CASE AllCame \/ TimeIsUp
  <2>1. kind' = kind /\ panel' = [panel EXCEPT ![chat.pid] = "shown"] /\ chat.at # "none"
    BY <1>4, UserAndServerLeave DEF AllCame, TimeIsUp, Shows
  <2>2. chat.pid \in Pids /\ panel[chat.pid] = "none"
    BY <2>1 DEF TypeInv, ChatTypes
  <2> QED BY <1>1, <2>1, <2>2
<1>5. CASE StopChat \/ SendCreate \/ HearResult \/ Plugin \/ Moves \/ Breaks \/ Restart
  BY <1>5, UserAndServerLeave, PluginLeaves
<1>6. CASE UNCHANGED vars
  BY <1>6 DEF vars, browser, history
<1> QED BY <1>2, <1>3, <1>4, <1>5, <1>6 DEF Next, User, Server

\* What an order says goes on being so.
LEMMA OrderedStands ==
    ASSUME TypeInv, [Next]_vars, NEW w \in Orders, Ordered(w)
    PROVE  Ordered(w)'
<1>1. CASE w.do \in {"delete old", "modify"}
  <2>1. w.of \in Pids
    BY <1>1, OrderIs
  <2>2. kind[w.of] # None
    BY <1>1, <2>1, NoneIsNoValue DEF Ordered, Kinds
  <2> QED BY <1>1, <2>1, <2>2, AnswersStand DEF Ordered
<1>2. CASE w.do \in {"note", "create", "delete"}
  BY <1>2, AnswersStand DEF Ordered
<1> QED BY <1>1, <1>2, OrderIs

\* Where the orders of a step come from.
OrderedBy(q) == \A w \in Among(q) : w \in Orders /\ Ordered(w)'

LEMMA OrdersFrom ==
    ASSUME TypeInv, OrderInv, [Next]_vars, OrderedBy(down'), OrderedBy(tasks')
    PROVE  OrderInv'
BY DEF OrderInv, OrderedBy

LEMMA OrderKept == TypeInv /\ OrderInv /\ [Next]_vars => OrderInv'
<1> SUFFICES ASSUME TypeInv, OrderInv, [Next]_vars PROVE OrderInv'
  OBVIOUS
<1>1. down \in Seq(Orders) /\ tasks \in Seq(Orders)
  BY DEF TypeInv, LinkTypes, TaskTypes
<1>2. OrderedBy(down) /\ OrderedBy(tasks)
  <2>1. Among(down) \subseteq Orders /\ Among(tasks) \subseteq Orders
    BY <1>1, AmongSome
  <2> QED BY <2>1, OrderedStands DEF OrderInv, OrderedBy
<1>3. ASSUME NEW q \in Seq(Orders), OrderedBy(q), q # <<>> PROVE OrderedBy(Tail(q)) /\ OrderedBy(<<Head(q)>>)
  <2>1. Among(q) = {Head(q)} \cup Among(Tail(q)) /\ Head(q) \in Orders
    BY <1>3, AmongTail
  <2>2. Among(<<Head(q)>>) = {Head(q)}
    BY DEF Among
  <2> QED BY <1>3, <2>1, <2>2 DEF OrderedBy
<1>4. ASSUME NEW q \in Seq(Orders), OrderedBy(q), NEW m \in Orders, Ordered(m)' PROVE OrderedBy(Append(q, m))
  <2>1. Among(Append(q, m)) = Among(q) \cup {m}
    BY AmongAppend
  <2> QED BY <1>4, <2>1 DEF OrderedBy
<1>5. ASSUME NEW q, q = <<>> \/ \E m \in Orders : q = <<m>> /\ Ordered(m)', Put(q) PROVE OrderedBy(down')
  <2>1. CASE down' = down
    BY <1>2, <2>1
  <2>2. CASE down' # down
    <3>1. PICK m \in Orders : q = <<m>> /\ down' = Append(down, m)
      BY <1>5, <2>2, PutTypes DEF TypeInv
    <3>2. Ordered(m)'
      BY <1>5, <2>2, <3>1, PutTypes DEF TypeInv
    <3> QED BY <1>1, <1>2, <1>4, <3>1, <3>2
  <2> QED BY <2>1, <2>2
<1>6. \A m \in Orders : m.do \in {"note", "create"} => Ordered(m)'
  BY DEF Ordered
<1>7. CASE User
  <2>1. tasks' = tasks
    BY <1>7, UserAndServerLeave DEF dispatcher
  <2>2. ASSUME NEW p \in Pids, Approve(p) PROVE OrderedBy(down')
    <3> DEFINE b == batch[p]
               q == IF b = None THEN <<>>
                    ELSE IF b.kind = "replace" THEN <<DeleteOld(p)>>
                    ELSE IF b.kind = "modify" THEN <<Modify(p)>> ELSE <<>>
    <3>1. Put(q) /\ panel' = [panel EXCEPT ![p] = "approved"] /\ kind' = kind
      BY <2>2, UserAndServerLeave DEF Approve
    <3>2. panel'[p] = "approved" /\ (b # None => b.kind = kind'[p])
      BY <3>1 DEF TypeInv, PanelTypes, BatchTypes
    <3>3. DeleteOld(p) \in Orders /\ Modify(p) \in Orders
      BY DEF Orders
    <3>4. b # None /\ b.kind = "replace" => Ordered(DeleteOld(p))'
      BY <3>2 DEF Ordered, DeleteOld
    <3>5. b # None /\ b.kind = "modify" => Ordered(Modify(p))'
      BY <3>2 DEF Ordered, Modify
    <3>6. q = <<>> \/ \E m \in Orders : q = <<m>> /\ Ordered(m)'
      BY <3>3, <3>4, <3>5
    <3> QED BY <1>5, <3>1, <3>6
  <2>3. ASSUME NEW p \in Pids, Reject(p) PROVE OrderedBy(down')
    <3> DEFINE q == IF offered[p] = {} THEN <<>> ELSE <<Delete(offered[p])>>
    <3>1. Put(q) /\ panel' = [panel EXCEPT ![p] = "rejected"]
      BY <2>3 DEF Reject
    <3>2. Delete(offered[p]) \in Orders /\ offered[p] \subseteq Objects(p) /\ panel'[p] = "rejected"
      BY <3>1 DEF Orders, TypeInv, PanelTypes
    <3>3. PICK w \in Orders : w = Delete(offered[p])
      BY <3>2
    <3>4. w.do = "delete" /\ w.handles \subseteq Objects(p)
      BY <3>2, <3>3 DEF Delete
    <3>5. Ordered(w)'
      BY <3>2, <3>4 DEF Ordered
    <3>6. q = <<>> \/ \E m \in Orders : q = <<m>> /\ Ordered(m)'
      BY <3>3, <3>5
    <3> QED BY <1>5, <3>1, <3>6
  <2>4. ASSUME StopChat \/ \E p \in Pids : \E k \in Kinds : Propose(p, k) PROVE OrderedBy(down')
    <3>1. \A p \in Pids : \A k \in Kinds : Propose(p, k) => down' = down
      BY DEF Propose, link
    <3>2. StopChat => down' = down
      BY DEF StopChat, link
    <3>3. down' = down
      BY <2>4, <3>1, <3>2
    <3> QED BY <1>2, <3>3
  <2>5. OrderedBy(down')
    <3>1. \/ \E p \in Pids : Approve(p)
          \/ \E p \in Pids : Reject(p)
          \/ StopChat \/ \E p \in Pids : \E k \in Kinds : Propose(p, k)
      BY <1>7 DEF User
    <3> QED BY <2>2, <2>3, <2>4, <3>1
  <2>6. OrderedBy(tasks')
    BY <1>2, <2>1
  <2> QED BY <2>5, <2>6, OrdersFrom
<1>8. CASE Server
  <2>1. tasks' = tasks
    BY <1>8, UserAndServerLeave DEF dispatcher
  <2>2. CASE SendCreate
    <3> DEFINE w == Create(chat.pid, chat.left)
    <3>1. Put(<<w>>)
      BY <2>2 DEF SendCreate
    <3>2. w \in Orders
      BY <2>2, ProposalAssumption DEF SendCreate, TypeInv, ChatTypes, Orders
    <3>3. w.do = "create"
      BY DEF Create
    <3> HIDE DEF w
    <3>4. OrderedBy(down')
      BY <1>5, <1>6, <3>1, <3>2, <3>3
    <3> QED BY <1>2, <2>1, <3>4, OrdersFrom
  <2>3. CASE AllCame \/ TimeIsUp \/ HearResult
    <3>1. down' = down
      BY <2>3 DEF AllCame, TimeIsUp, HearResult, link
    <3> QED BY <1>2, <2>1, <3>1, OrdersFrom
  <2> QED BY <1>8, <2>2, <2>3 DEF Server
<1>9. CASE Plugin
  <2>1. ASSUME NEW t \in Threads, PluginHears(t) PROVE OrderInv'
    <3>1. down # <<>> /\ down' = Tail(down) /\ tasks' = Append(tasks, Head(down))
      BY <2>1 DEF PluginHears, Receive, Enqueue
    <3>2. OrderedBy(down') /\ OrderedBy(<<Head(down)>>) /\ Head(down) \in Orders
      BY <1>1, <1>2, <1>3, <3>1, AmongTail
    <3>3. PICK w \in Orders : w = Head(down)
      BY <3>2
    <3>4. w \in Among(<<Head(down)>>)
      BY <3>3 DEF Among
    <3>5. Ordered(w)'
      BY <3>2, <3>4 DEF OrderedBy
    <3>6. OrderedBy(tasks')
      BY <1>1, <1>2, <1>4, <3>1, <3>3, <3>5
    <3> QED BY <3>2, <3>6, OrdersFrom
  <2>2. CASE OtherWorkOnUi \/ \E t \in Threads : OtherWork(t)
    <3>1. tasks' = Append(tasks, Note) /\ down' = down
      BY <2>2 DEF OtherWorkOnUi, OtherWork, Enqueue, EnqueueOnUi, link
    <3>2. Note \in Orders /\ Note.do = "note"
      BY DEF Orders, Note
    <3>3. OrderedBy(tasks')
      BY <1>1, <1>2, <1>4, <1>6, <3>1, <3>2
    <3> QED BY <1>2, <3>1, <3>3, OrdersFrom
  <2>3. CASE PluginRuns
    <3>1. tasks # <<>> /\ tasks' = Tail(tasks)
      BY <2>3 DEF PluginRuns, RunTask
    <3>2. down' = down
      BY <2>3 DEF PluginRuns, Carries, Draws, Erases, Send, link
    <3>3. OrderedBy(tasks')
      BY <1>1, <1>2, <1>3, <3>1
    <3> QED BY <1>2, <3>2, <3>3, OrdersFrom
  <2>4. CASE Looks \/ UserBegins \/ UserStops \/ \E t \in Threads : Schedules(t)
    <3>1. down' = down
      BY <2>4 DEF Looks, UserBegins, UserStops, Schedules, link
    <3>2. tasks' = tasks
      <4>1. Looks => tasks' = tasks
        BY DEF Looks, DrainBegins, FindsCommand, FindsNone, RunEnds, LookThrows
      <4>2. UserBegins \/ UserStops => tasks' = tasks
        BY DEF UserBegins, UserStops, CommandBegins, CommandStops
      <4>3. \A t \in Threads : Schedules(t) => tasks' = tasks
        BY DEF Schedules, Inside, Claim, Post
      <4> QED BY <2>4, <4>1, <4>2, <4>3
    <3> QED BY <1>2, <3>1, <3>2, OrdersFrom
  <2> QED BY <1>9, <2>1, <2>2, <2>3, <2>4 DEF Plugin
<1>10. CASE Moves \/ Breaks \/ Restart
  <2>1. tasks' = tasks
    BY <1>10, PluginLeaves DEF dispatcher
  <2>2. down' = down \/ down' = <<>>
    BY <1>10 DEF Moves, QueueHeld, Connect, Flush, FlushEnds, Notice, Breaks, Break, Restart
  <2>3. OrderedBy(down')
    BY <1>2, <2>2, AmongNone DEF OrderedBy
  <2> QED BY <1>2, <2>1, <2>3, OrdersFrom
<1>11. CASE UNCHANGED vars
  <2>1. tasks' = tasks /\ down' = down
    BY <1>11 DEF vars, dispatcher, link
  <2> QED BY <1>2, <2>1, OrdersFrom
<1> QED BY <1>7, <1>8, <1>9, <1>10, <1>11 DEF Next

LEMMA OrderInit == Init => OrderInv
<1>1. Init => down = <<>> /\ tasks = <<>>
  BY DEF Init, DispatcherInit, LinkInit
<1> QED BY <1>1, AmongNone DEF OrderInv

\* What the answer allows a step to do to the drawing.
Decided(p) ==
    /\ ~(new[p] \subseteq new'[p]) => panel[p] = "rejected"
    /\ old[p] /\ ~old'[p] => panel[p] = "approved" /\ kind[p] = "replace"
    /\ changed'[p] /\ ~changed[p] => panel[p] = "approved" /\ kind[p] = "modify"

LEMMA StepsAreDecided ==
    ASSUME TypeInv, OrderInv, [Next]_vars, NEW p \in Pids
    PROVE  Decided(p)
<1>1. CASE ~PluginRuns
  <2>1. UNCHANGED <<new, old, changed>>
    <3>1. Plugin => UNCHANGED <<new, old, changed>>
      <4>1. \A t \in Threads : PluginHears(t) \/ OtherWork(t) \/ Schedules(t) => UNCHANGED <<new, old, changed>>
        BY DEF PluginHears, OtherWork, Schedules, drawing
      <4>2. OtherWorkOnUi \/ Looks \/ UserBegins \/ UserStops => UNCHANGED <<new, old, changed>>
        BY DEF OtherWorkOnUi, Looks, UserBegins, UserStops, drawing
      <4> QED BY <1>1, <4>1, <4>2 DEF Plugin
    <3>2. UNCHANGED vars => UNCHANGED <<new, old, changed>>
      BY DEF vars, drawing
    <3> QED BY <3>1, <3>2, UserAndServerLeave, PluginLeaves DEF Next
  <2> QED BY <2>1 DEF Decided
<1>2. CASE PluginRuns
  <2> DEFINE w == Head(tasks)
  <2>1. w \in Orders /\ Carries(w) /\ Ordered(w)
    <3>1. tasks \in Seq(Orders) /\ tasks # <<>> /\ Carries(w)
      BY <1>2 DEF PluginRuns, RunTask, TypeInv, TaskTypes
    <3>2. w \in Orders /\ w \in Among(tasks)
      BY <3>1, AmongTail
    <3> QED BY <3>1, <3>2 DEF OrderInv
  <2>2. new \in [Pids -> SUBSET Obj] /\ new[p] \subseteq Objects(p)
    BY DEF TypeInv, DrawTypes
  <2>3. old \in [Pids -> BOOLEAN] /\ changed \in [Pids -> BOOLEAN]
    BY DEF TypeInv, DrawTypes
  <2> HIDE DEF w
  <2>4. CASE w.do = "create"
    <3>1. w.object[1] \in Pids
      BY <2>1, <2>4, OrderIs, ObjectNames
    <3>2. UNCHANGED <<old, changed>> /\ (new' = new \/ new' = [new EXCEPT ![w.object[1]] = @ \cup {w.object}])
      BY <2>1, <2>4 DEF Carries, Draws
    <3> QED BY <2>2, <3>1, <3>2 DEF Decided
  <2>5. CASE w.do = "delete"
    <3>1. PICK q \in Pids : w.handles \subseteq Objects(q) /\ panel[q] = "rejected"
      BY <2>1, <2>5 DEF Ordered
    <3>2. UNCHANGED <<old, changed>> /\ new' = [x \in Pids |-> new[x] \ w.handles]
      BY <2>1, <2>5 DEF Carries, Erases
    <3>3. ASSUME p # q PROVE new[p] \subseteq new'[p]
      BY <2>2, <3>1, <3>2, <3>3, ObjectNames
    <3> QED BY <3>1, <3>2, <3>3 DEF Decided
  <2>6. CASE w.do = "delete old"
    <3>1. w.of \in Pids /\ panel[w.of] = "approved" /\ kind[w.of] = "replace"
      BY <2>1, <2>6, OrderIs DEF Ordered
    <3>2. UNCHANGED <<new, changed>> /\ old' = [old EXCEPT ![w.of] = FALSE]
      BY <2>1, <2>6 DEF Carries
    <3> QED BY <2>3, <3>1, <3>2 DEF Decided
  <2>7. CASE w.do = "modify"
    <3>1. w.of \in Pids /\ panel[w.of] = "approved" /\ kind[w.of] = "modify"
      BY <2>1, <2>7, OrderIs DEF Ordered
    <3>2. UNCHANGED <<new, old>> /\ changed' = [changed EXCEPT ![w.of] = TRUE]
      BY <2>1, <2>7 DEF Carries
    <3> QED BY <2>3, <3>1, <3>2 DEF Decided
  <2>8. CASE w.do = "note"
    BY <2>1, <2>8 DEF Carries, drawing, Decided
  <2> QED BY <2>1, <2>4, <2>5, <2>6, <2>7, <2>8, OrderIs
<1> QED BY <1>1, <1>2

\* The drawing follows the answer (websocket.py 181-183): whatever is lost,
\* late or started anew, new objects go only after a rejection, old ones only
\* after the approval of a replacement, and changes are carried out only after
\* theirs.
THEOREM DrawingFollowsAnswers == Spec => AnswersDecide
<1>1. Spec => [](TypeInv /\ OrderInv)
  BY TypeInit, TypesKept, OrderInit, OrderKept, PTL DEF Spec
<1>2. TypeInv /\ OrderInv /\ [Next]_vars =>
        [\A p \in Pids :
           /\ ~(new[p] \subseteq new'[p]) => panel[p] = "rejected"
           /\ old[p] /\ ~old'[p] => panel[p] = "approved" /\ kind[p] = "replace"
           /\ changed'[p] /\ ~changed[p] => panel[p] = "approved" /\ kind[p] = "modify"]_vars
  BY StepsAreDecided DEF Decided
<1> QED BY <1>1, <1>2, PTL DEF Spec, AnswersDecide

------------------------------------------------------------------------------
(* How often something stands in a sequence.                                *)

Places(q, S) == Cardinality({i \in DOMAIN q : q[i] \in S})

LEMMA PlacesFinite ==
    ASSUME NEW T, NEW q \in Seq(T), NEW S
    PROVE  IsFiniteSet({i \in DOMAIN q : q[i] \in S}) /\ Places(q, S) \in Nat
<1>1. DOMAIN q = 1..Len(q) /\ Len(q) \in Nat
  BY LenProperties
<1>2. IsFiniteSet(1..Len(q))
  BY <1>1, FS_Interval
<1>3. IsFiniteSet({i \in DOMAIN q : q[i] \in S})
  BY <1>1, <1>2, FS_Subset
<1> QED BY <1>3, FS_CardinalityType DEF Places

LEMMA PlacesAppend ==
    ASSUME NEW T, NEW q \in Seq(T), NEW m \in T, NEW S
    PROVE  Places(Append(q, m), S) = Places(q, S) + (IF m \in S THEN 1 ELSE 0)
<1> DEFINE D == {i \in DOMAIN q : q[i] \in S}
           E == {i \in DOMAIN Append(q, m) : Append(q, m)[i] \in S}
           n == Len(q) + 1
<1>1. /\ Len(q) \in Nat /\ DOMAIN q = 1..Len(q) /\ DOMAIN Append(q, m) = 1..n
      /\ \A i \in 1..Len(q) : Append(q, m)[i] = q[i]
      /\ Append(q, m)[n] = m
  BY LenProperties, AppendProperties
<1>2. 1..n = 1..Len(q) \cup {n} /\ n \notin DOMAIN q
  BY <1>1
<1>3. IsFiniteSet(D) /\ Cardinality(D) \in Nat
  BY PlacesFinite DEF Places
<1>4. CASE m \in S
  <2>1. E = D \cup {n} /\ n \notin D
    BY <1>1, <1>2, <1>4
  <2>2. Cardinality(E) = Cardinality(D) + 1
    BY <1>3, <2>1, FS_AddElement
  <2> QED BY <1>4, <2>2 DEF Places
<1>5. CASE m \notin S
  <2>1. E = D
    BY <1>1, <1>2, <1>5
  <2>2. Cardinality(E) = Cardinality(D)
    BY <2>1
  <2> HIDE DEF D, E
  <2>3. Cardinality(E) = Cardinality(D) + 0
    BY <1>3, <2>2
  <2> QED BY <1>5, <2>3 DEF Places, D, E
<1> QED BY <1>4, <1>5

LEMMA PlacesTail ==
    ASSUME NEW T, NEW q \in Seq(T), q # <<>>, NEW S
    PROVE  Places(q, S) = Places(Tail(q), S) + (IF Head(q) \in S THEN 1 ELSE 0)
<1> DEFINE D == {i \in DOMAIN q : q[i] \in S}
           E == {i \in DOMAIN Tail(q) : Tail(q)[i] \in S}
           R == D \ {1}
           f == [i \in E |-> i + 1]
<1>1. /\ Head(q) \in T /\ Tail(q) \in Seq(T) /\ Len(Tail(q)) = Len(q) - 1
      /\ \A i \in 1..Len(Tail(q)) : Tail(q)[i] = q[i + 1]
  BY HeadTailProperties
<1>2. Len(q) \in Nat \ {0} /\ DOMAIN q = 1..Len(q) /\ Head(q) = q[1]
  BY LenProperties, EmptySeq
<1>3. DOMAIN Tail(q) = 1..(Len(q) - 1)
  BY <1>1, LenProperties
<1>4. IsFiniteSet(D) /\ IsFiniteSet(E) /\ Cardinality(E) \in Nat
  BY <1>1, PlacesFinite DEF Places
<1>5. f \in Bijection(E, R)
  <2>1. \A i \in E : i \in Int /\ i + 1 \in R
    BY <1>1, <1>2, <1>3
  <2>2. \A j \in R : j - 1 \in E /\ (j - 1) + 1 = j
    <3>1. ASSUME NEW j \in R PROVE j - 1 \in E /\ (j - 1) + 1 = j
      <4>1. j - 1 \in 1..(Len(q) - 1) /\ (j - 1) + 1 = j /\ q[j] \in S
        BY <1>2
      <4>2. Tail(q)[j - 1] = q[j]
        BY <1>1, <1>3, <4>1
      <4> QED BY <1>3, <4>1, <4>2
    <3> QED BY <3>1
  <2> HIDE DEF E, R
  <2>3. f \in [E -> R]
    BY <2>1
  <2>4. \A a, b \in E : f[a] = f[b] => a = b
    BY <2>1
  <2>5. \A j \in R : \E i \in E : f[i] = j
    BY <2>2
  <2> QED BY <2>3, <2>4, <2>5, Fun_IsBij
<1>6. Cardinality(R) = Cardinality(E)
  BY <1>4, <1>5, FS_Bijection, Fun_ExistsBij
<1>7. Cardinality(R) = IF 1 \in D THEN Cardinality(D) - 1 ELSE Cardinality(D)
  BY <1>4, FS_RemoveElement
<1>8. 1 \in D <=> Head(q) \in S
  BY <1>2
<1>9. Cardinality(D) \in Nat
  BY <1>4, FS_CardinalityType
<1> HIDE DEF D, E, R
<1>10. Cardinality(D) = Cardinality(E) + (IF Head(q) \in S THEN 1 ELSE 0)
  BY <1>4, <1>6, <1>7, <1>8, <1>9
<1> QED BY <1>10 DEF Places, D, E

LEMMA PlacesNone == \A S : Places(<<>>, S) = 0
<1> SUFFICES ASSUME NEW S PROVE Places(<<>>, S) = 0
  OBVIOUS
<1>1. {i \in DOMAIN <<>> : <<>>[i] \in S} = {}
  OBVIOUS
<1> QED BY <1>1, FS_EmptySet DEF Places

\* What stands at most once in a sequence as long as there are objects is
\* every object.
LEMMA ObjectsCounted == ASSUME NEW p \in Pids PROVE IsFiniteSet(Objects(p)) /\ Cardinality(Objects(p)) = Size
<1> DEFINE f == [i \in 1..Size |-> <<p, i>>]
<1>1. IsFiniteSet(1..Size) /\ Cardinality(1..Size) = Size
  BY ProposalAssumption, FS_Interval
<1>2. f \in Bijection(1..Size, Objects(p))
  <2>1. f \in [1..Size -> Objects(p)]
    BY DEF Objects
  <2>2. \A a, b \in 1..Size : f[a] = f[b] => a = b
    OBVIOUS
  <2>3. \A o \in Objects(p) : \E i \in 1..Size : f[i] = o
    BY DEF Objects
  <2> QED BY <2>1, <2>2, <2>3, Fun_IsBij
<1> QED BY <1>1, <1>2, FS_Bijection, Fun_ExistsBij

LEMMA OnceIsAll ==
    ASSUME NEW p \in Pids, NEW q \in Seq(Objects(p)), Len(q) >= Size,
           \A o \in Objects(p) : Times(q, o) <= 1
    PROVE  Among(q) = Objects(p)
<1>1. Len(q) \in Nat /\ DOMAIN q = 1..Len(q) /\ \A i \in DOMAIN q : q[i] \in Objects(p)
  BY LenProperties, ElementOfSeq
<1> DEFINE f == [i \in 1..Len(q) |-> q[i]]
<1>2. ASSUME NEW i \in 1..Len(q), NEW j \in 1..Len(q), q[i] = q[j] PROVE i = j
  <2> DEFINE o == q[i]
             D == {k \in DOMAIN q : q[k] = o}
  <2>1. D \subseteq 1..Len(q) /\ IsFiniteSet(1..Len(q))
    BY <1>1, FS_Interval
  <2>2. IsFiniteSet(D)
    BY <2>1, FS_Subset
  <2>3. Cardinality(D) <= 1
    BY <1>1 DEF Times
  <2>4. i \in D /\ {j} \subseteq D
    BY <1>1, <1>2
  <2> HIDE DEF D, o
  <2>5. SUFFICES ASSUME i # j PROVE FALSE
    OBVIOUS
  <2>6. IsFiniteSet({j}) /\ Cardinality({j}) = 1
    BY FS_Singleton
  <2>7. {j} \cup {i} \subseteq D /\ Cardinality({j} \cup {i}) = 2
    <3>1. Cardinality({j} \cup {i}) = Cardinality({j}) + 1
      BY <2>5, <2>6, FS_AddElement
    <3>2. {j} \cup {i} \subseteq D
      BY <2>4
    <3>3. Cardinality({j}) + 1 = 2
      BY <2>6
    <3> QED BY <3>1, <3>2, <3>3
  <2>8. 2 <= Cardinality(D) /\ Cardinality(D) \in Nat
    BY <2>2, <2>7, FS_Subset, FS_CardinalityType
  <2> QED BY <2>3, <2>8
<1>3. f \in Bijection(1..Len(q), Among(q))
  <2>1. f \in [1..Len(q) -> Among(q)]
    BY <1>1 DEF Among
  <2>2. \A a, b \in 1..Len(q) : f[a] = f[b] => a = b
    BY <1>2
  <2>3. \A t \in Among(q) : \E i \in 1..Len(q) : f[i] = t
    BY <1>1 DEF Among
  <2> QED BY <2>1, <2>2, <2>3, Fun_IsBij
<1>4. IsFiniteSet(1..Len(q)) /\ Cardinality(1..Len(q)) = Len(q)
  <2> DEFINE n == Len(q)
  <2>1. n \in Nat
    BY <1>1
  <2> HIDE DEF n
  <2>2. IsFiniteSet(1..n) /\ Cardinality(1..n) = n
    BY <2>1, FS_Interval
  <2> QED BY <2>2 DEF n
<1>5. Cardinality(Among(q)) = Len(q)
  BY <1>3, <1>4, FS_Bijection, Fun_ExistsBij
<1>6. Among(q) \subseteq Objects(p)
  BY AmongSome
<1>7. Cardinality(Among(q)) <= Size
  BY <1>6, ObjectsCounted, FS_Subset
<1>8. Cardinality(Among(q)) = Cardinality(Objects(p))
  BY <1>1, <1>5, <1>7, ObjectsCounted, ProposalAssumption
<1> QED BY <1>6, <1>8, ObjectsCounted, FS_Subset

------------------------------------------------------------------------------
(* A result is in one place.  ResultOnce counts the results of an object;   *)
(* that a second one never comes needs the whole way of the object: it is   *)
(* to be sent, on its way as an order, queued as a task, or told.  Nothing  *)
(* but a new proposal adds to it, and a proposal is made once.              *)

Order(o) == Create(o[1], o[2])
ToSend(o) == IF chat.at = "sends" /\ chat.pid = o[1] /\ o[2] <= chat.left THEN 1 ELSE 0
InHand(o) == IF held # None /\ held.object = o THEN 1 ELSE 0
Collected(o) == IF batch[o[1]] = None THEN 0 ELSE Times(batch[o[1]].handles, o)
Ordering(o) == ToSend(o) + Times(down, Order(o)) + Times(tasks, Order(o))
Telling(o) == Told(up, o) + Told(pending, o) + InHand(o) + Collected(o)
OnceInv ==
    \A p \in Pids : \A o \in Objects(p) :
        Ordering(o) + Telling(o) <= 1 /\ (kind[p] = None => Ordering(o) + Telling(o) = 0)

\* Times and Told count places.
LEMMA TimesIs == \A q, m : Times(q, m) = Places(q, {m})
<1> SUFFICES ASSUME NEW q, NEW m PROVE Times(q, m) = Places(q, {m})
  OBVIOUS
<1>1. {i \in DOMAIN q : q[i] = m} = {i \in DOMAIN q : q[i] \in {m}}
  OBVIOUS
<1> QED BY <1>1 DEF Times, Places

LEMMA ToldIs ==
    ASSUME NEW q \in Seq(Results), NEW o
    PROVE  Told(q, o) = Places(q, {r \in Results : r.object = o})
<1>1. \A i \in DOMAIN q : q[i] \in Results
  BY ElementOfSeq, LenProperties
<1>2. {i \in DOMAIN q : q[i].object = o} = {i \in DOMAIN q : q[i] \in {r \in Results : r.object = o}}
  BY <1>1
<1> QED BY <1>2 DEF Told, Places

LEMMA TimesStep ==
    ASSUME NEW T, NEW q \in Seq(T), NEW o
    PROVE  /\ Times(q, o) \in Nat
           /\ \A m \in T : Times(Append(q, m), o) = Times(q, o) + (IF m = o THEN 1 ELSE 0)
           /\ q # <<>> => Times(q, o) = Times(Tail(q), o) + (IF Head(q) = o THEN 1 ELSE 0)
<1>1. Times(q, o) \in Nat
  BY TimesIs, PlacesFinite
<1>2. ASSUME NEW m \in T PROVE Times(Append(q, m), o) = Times(q, o) + (IF m = o THEN 1 ELSE 0)
  <2>1. Places(Append(q, m), {o}) = Places(q, {o}) + (IF m \in {o} THEN 1 ELSE 0)
    BY PlacesAppend
  <2> QED BY <2>1, TimesIs
<1>3. ASSUME q # <<>> PROVE Times(q, o) = Times(Tail(q), o) + (IF Head(q) = o THEN 1 ELSE 0)
  <2>1. Places(q, {o}) = Places(Tail(q), {o}) + (IF Head(q) \in {o} THEN 1 ELSE 0)
    BY <1>3, PlacesTail
  <2> QED BY <2>1, TimesIs
<1> QED BY <1>1, <1>2, <1>3

LEMMA ToldStep ==
    ASSUME NEW q \in Seq(Results), NEW o
    PROVE  /\ Told(q, o) \in Nat
           /\ \A m \in Results : Told(Append(q, m), o) = Told(q, o) + (IF m.object = o THEN 1 ELSE 0)
           /\ q # <<>> => Told(q, o) = Told(Tail(q), o) + (IF Head(q).object = o THEN 1 ELSE 0)
<1> DEFINE S == {r \in Results : r.object = o}
<1>1. Told(q, o) = Places(q, S) /\ Told(q, o) \in Nat
  <2>1. Told(q, o) = Places(q, S)
    BY ToldIs
  <2> HIDE DEF S
  <2>2. Places(q, S) \in Nat
    BY PlacesFinite
  <2> QED BY <2>1, <2>2
<1>2. ASSUME NEW m \in Results PROVE Told(Append(q, m), o) = Told(q, o) + (IF m.object = o THEN 1 ELSE 0)
  <2>1. Append(q, m) \in Seq(Results)
    BY AppendProperties
  <2>2. Told(Append(q, m), o) = Places(Append(q, m), S)
    BY <2>1, ToldIs
  <2>3. Places(Append(q, m), S) = Places(q, S) + (IF m \in S THEN 1 ELSE 0)
    BY PlacesAppend
  <2>4. m \in S <=> m.object = o
    OBVIOUS
  <2> QED BY <1>1, <2>2, <2>3, <2>4
<1>3. ASSUME q # <<>> PROVE Told(q, o) = Told(Tail(q), o) + (IF Head(q).object = o THEN 1 ELSE 0)
  <2>1. Tail(q) \in Seq(Results) /\ Head(q) \in Results
    BY <1>3, HeadTailProperties
  <2>2. Told(Tail(q), o) = Places(Tail(q), S)
    BY <2>1, ToldIs
  <2>3. Places(q, S) = Places(Tail(q), S) + (IF Head(q) \in S THEN 1 ELSE 0)
    BY <1>3, PlacesTail
  <2>4. Head(q) \in S <=> Head(q).object = o
    BY <2>1
  <2> QED BY <1>1, <2>2, <2>3, <2>4
<1> QED BY <1>1, <1>2, <1>3

LEMMA NoneOfNothing == \A o : Times(<<>>, o) = 0 /\ Told(<<>>, o) = 0
<1>1. \A o : Times(<<>>, o) = 0
  BY TimesIs, PlacesNone
<1>2. ASSUME NEW o PROVE Told(<<>>, o) = 0
  <2>1. {i \in DOMAIN <<>> : <<>>[i].object = o} = {}
    OBVIOUS
  <2> QED BY <2>1, FS_EmptySet DEF Told
<1> QED BY <1>1, <1>2

Counted(o) ==
    /\ ToSend(o) \in Nat /\ Times(down, Order(o)) \in Nat /\ Times(tasks, Order(o)) \in Nat
    /\ Told(up, o) \in Nat /\ Told(pending, o) \in Nat /\ InHand(o) \in Nat /\ Collected(o) \in Nat

LEMMA CountsAreNat ==
    ASSUME TypeInv, NEW p \in Pids, NEW o \in Objects(p)
    PROVE  Counted(o)
<1>1. down \in Seq(Orders) /\ tasks \in Seq(Orders) /\ up \in Seq(Results) /\ pending \in Seq(Results)
  BY DEF TypeInv, TaskTypes, LinkTypes
<1>2. Times(down, Order(o)) \in Nat /\ Times(tasks, Order(o)) \in Nat
  BY <1>1, TimesStep
<1>3. Told(up, o) \in Nat /\ Told(pending, o) \in Nat
  BY <1>1, ToldStep
<1>4. Collected(o) \in Nat
  <2>1. CASE batch[o[1]] = None
    BY <2>1 DEF Collected
  <2>2. CASE batch[o[1]] # None
    <3>1. o[1] = p
      BY ObjectNames
    <3>2. batch[p].handles \in Seq(Objects(p))
      BY <2>2, <3>1 DEF TypeInv, BatchTypes
    <3>3. Times(batch[p].handles, o) \in Nat
      BY <3>2, TimesStep
    <3> QED BY <2>2, <3>1, <3>3 DEF Collected
  <2> QED BY <2>1, <2>2
<1>5. ToSend(o) \in Nat /\ InHand(o) \in Nat
  BY DEF ToSend, InHand
<1> QED BY <1>2, <1>3, <1>4, <1>5 DEF Counted

LEMMA CountsNext == TypeInv' => \A p \in Pids : \A o \in Objects(p) : Counted(o)'
<1>1. TypeInv => \A p \in Pids : \A o \in Objects(p) : Counted(o)
  BY CountsAreNat
<1>2. TypeInv' => (\A p \in Pids : \A o \in Objects(p) : Counted(o))'
  BY <1>1, PTL
<1> QED BY <1>2 DEF Objects

\* What a message of the server adds to the way to the plugin.
LEMMA PutTimes ==
    ASSUME TypeInv, NEW q, q = <<>> \/ \E m \in Orders : q = <<m>>, Put(q), NEW w
    PROVE  Times(down', w) <= Times(down, w) + (IF q = <<w>> THEN 1 ELSE 0)
<1>1. down \in Seq(Orders) /\ Times(down, w) \in Nat
  BY TimesStep DEF TypeInv, LinkTypes
<1>2. CASE down' = down
  BY <1>1, <1>2
<1>3. CASE down' # down
  <2>1. PICK m \in Orders : q = <<m>> /\ down' = Append(down, m)
    BY <1>3, PutTypes DEF TypeInv
  <2>2. Times(down', w) = Times(down, w) + (IF m = w THEN 1 ELSE 0)
    BY <1>1, <2>1, TimesStep
  <2>3. m = w => q = <<w>>
    BY <2>1
  <2> QED BY <1>1, <2>2, <2>3
<1> QED BY <1>2, <1>3

\* What is collected is forgotten with its proposal.
LEMMA CollectedFades ==
    ASSUME TypeInv, NEW p \in Pids, NEW o \in Objects(p), batch'[p] = None \/ batch'[p] = batch[p]
    PROVE  Collected(o)' <= Collected(o)
<1>1. Collected(o) \in Nat /\ o[1] = p
  BY CountsAreNat, ObjectNames DEF Counted
<1>2. Collected(o)' = IF batch'[p] = None THEN 0 ELSE Times(batch'[p].handles, o)
  BY <1>1 DEF Collected
<1>3. Collected(o) = IF batch[p] = None THEN 0 ELSE Times(batch[p].handles, o)
  BY <1>1 DEF Collected
<1> QED BY <1>1, <1>2, <1>3

\* Nothing of an object is added as long as every place keeps what it has or
\* gives it on.
LEMMA NothingAdded ==
    ASSUME TypeInv, TypeInv', NEW p \in Pids, NEW o \in Objects(p),
           ToSend(o)' + Times(down', Order(o)) + Times(tasks', Order(o)) <= Ordering(o),
           Told(up', o) + Told(pending', o) + InHand(o)' <= Told(up, o) + Told(pending, o) + InHand(o),
           Collected(o)' <= Collected(o)
    PROVE  Ordering(o)' + Telling(o)' <= Ordering(o) + Telling(o)
<1>1. Counted(o) /\ Counted(o)'
  BY CountsAreNat, CountsNext
<1>2. /\ Ordering(o)' = ToSend(o)' + Times(down', Order(o)) + Times(tasks', Order(o))
      /\ Telling(o)' = Told(up', o) + Told(pending', o) + InHand(o)' + Collected(o)'
  BY DEF Ordering, Telling, Order, Times, Told
<1> QED BY <1>1, <1>2 DEF Counted, Ordering, Telling

\* The order of an object is its own.
LEMMA OrderOf ==
    ASSUME NEW p \in Pids, NEW o \in Objects(p)
    PROVE  /\ o[1] = p /\ o[2] \in 1..Size /\ o = <<o[1], o[2]>>
           /\ Order(o).do = "create"
           /\ \A q, i : Create(q, i) = Order(o) <=> <<q, i>> = o
<1>1. PICK j \in 1..Size : o = <<p, j>>
  BY DEF Objects
<1>2. Order(o) = [do |-> "create", object |-> <<p, j>>]
  BY <1>1 DEF Order, Create
<1>3. ASSUME NEW q, NEW i PROVE Create(q, i) = Order(o) <=> <<q, i>> = o
  <2>1. Create(q, i) = Order(o) => <<q, i>> = o
    <3>1. ASSUME Create(q, i) = Order(o) PROVE <<q, i>> = o
      <4>1. Create(q, i).object = Order(o).object
        BY <3>1
      <4>2. Create(q, i).object = <<q, i>> /\ Order(o).object = <<p, j>>
        BY <1>2 DEF Create
      <4> QED BY <1>1, <4>1, <4>2
    <3> QED BY <3>1
  <2>2. <<q, i>> = o => Create(q, i) = Order(o)
    BY <1>1, <1>2 DEF Create
  <2> QED BY <2>1, <2>2
<1> QED BY <1>1, <1>2, <1>3

LEMMA UserAddsNothing ==
    ASSUME TypeInv, TypeInv', NEW p \in Pids, NEW o \in Objects(p), User, \A k \in Kinds : ~Propose(p, k)
    PROVE  Ordering(o)' + Telling(o)' <= Ordering(o) + Telling(o)
<1>1. Counted(o) /\ Counted(o)'
  BY CountsAreNat, CountsNext
<1>2. o[1] = p /\ Order(o).do = "create"
  BY OrderOf
<1>3. Times(tasks', Order(o)) = Times(tasks, Order(o))
  <2>1. tasks' = tasks
    BY UserAndServerLeave DEF dispatcher
  <2> QED BY <2>1
<1>4. ASSUME NEW q \in Pids, Approve(q) \/ Reject(q)
      PROVE  Ordering(o)' + Telling(o)' <= Ordering(o) + Telling(o)
  <2>1. PICK s : Put(s) /\ (s = <<>> \/ \E m \in Orders : s = <<m>> /\ m.do # "create")
    <3>1. CASE Approve(q)
      <4>1. /\ DeleteOld(q) \in Orders /\ DeleteOld(q).do # "create"
            /\ Modify(q) \in Orders /\ Modify(q).do # "create"
        <5>1. DeleteOld(q) \in Orders /\ Modify(q) \in Orders
          BY DEF Orders
        <5>2. DeleteOld(q).do # "create" /\ Modify(q).do # "create"
          BY DEF DeleteOld, Modify
        <5> QED BY <5>1, <5>2
      <4>2. Put(<<>>) \/ Put(<<DeleteOld(q)>>) \/ Put(<<Modify(q)>>)
        BY <3>1 DEF Approve
      <4> QED BY <4>1, <4>2
    <3>2. CASE Reject(q)
      <4>1. Delete(offered[q]) \in Orders /\ Delete(offered[q]).do # "create"
        <5>1. Delete(offered[q]) \in Orders
          BY DEF Orders, TypeInv, PanelTypes
        <5>2. Delete(offered[q]).do # "create"
          BY DEF Delete
        <5> QED BY <5>1, <5>2
      <4>2. Put(<<>>) \/ Put(<<Delete(offered[q])>>)
        BY <3>2 DEF Reject
      <4> QED BY <4>1, <4>2
    <3> QED BY <1>4, <3>1, <3>2
  <2>2. s # <<Order(o)>>
    <3>1. ASSUME s = <<Order(o)>> PROVE FALSE
      <4>1. s # <<>> /\ s[1] = Order(o)
        BY <3>1
      <4>2. PICK m \in Orders : s = <<m>> /\ m.do # "create"
        BY <2>1, <4>1
      <4>3. s[1] = m
        BY <4>2
      <4> QED BY <1>2, <4>1, <4>2, <4>3
    <3> QED BY <3>1
  <2>3. s = <<>> \/ \E m \in Orders : s = <<m>>
    BY <2>1
  <2>4. Times(down', Order(o)) <= Times(down, Order(o)) + 0
    BY <2>1, <2>2, <2>3, PutTimes
  <2>5. UNCHANGED <<up, pending, held>>
    BY <2>1 DEF Put
  <2>6. chat' = chat /\ batch' = [batch EXCEPT ![q] = None]
    BY <1>4, UserAndServerLeave DEF Approve, Reject
  <2>7. batch'[p] = None \/ batch'[p] = batch[p]
    BY <2>6 DEF TypeInv, BatchTypes
  <2>8. Collected(o)' <= Collected(o)
    BY <2>7, CollectedFades
  <2>9. ToSend(o)' = ToSend(o) /\ InHand(o)' = InHand(o)
    BY <2>5, <2>6 DEF ToSend, InHand
  <2>10. Told(up', o) = Told(up, o) /\ Told(pending', o) = Told(pending, o)
    BY <2>5
  <2> QED BY <1>1, <1>3, <2>4, <2>8, <2>9, <2>10, NothingAdded DEF Counted, Ordering
<1>5. ASSUME UNCHANGED link, ToSend(o)' = 0, batch'[p] = None \/ batch'[p] = batch[p]
      PROVE  Ordering(o)' + Telling(o)' <= Ordering(o) + Telling(o)
  <2>1. UNCHANGED <<down, up, pending, held>>
    BY <1>5 DEF link
  <2>2. Collected(o)' <= Collected(o)
    BY <1>5, CollectedFades
  <2>3. InHand(o)' = InHand(o)
    BY <2>1 DEF InHand
  <2>4. Told(up', o) = Told(up, o) /\ Told(pending', o) = Told(pending, o) /\ Times(down', Order(o)) = Times(down, Order(o))
    BY <2>1
  <2> QED BY <1>1, <1>3, <1>5, <2>2, <2>3, <2>4, NothingAdded DEF Counted, Ordering
<1>6. ASSUME NEW q \in Pids, NEW k \in Kinds, Propose(q, k)
      PROVE  Ordering(o)' + Telling(o)' <= Ordering(o) + Telling(o)
  <2>1. q # p
    BY <1>6
  <2>2. UNCHANGED link /\ batch' = [batch EXCEPT ![q] = [kind |-> k, handles |-> <<>>]]
    BY <1>6 DEF Propose
  <2>3. batch'[p] = batch[p]
    BY <2>1, <2>2 DEF TypeInv, BatchTypes
  <2>4. chat'.at = "none" \/ chat'.pid = q
    <3>1. chat' = NoChat \/ chat' = [NoChat EXCEPT !.pid = q, !.at = "sends", !.left = Size]
      BY <1>6 DEF Propose
    <3>2. NoChat.at = "none" /\ [NoChat EXCEPT !.pid = q, !.at = "sends", !.left = Size].pid = q
      BY DEF NoChat
    <3> QED BY <3>1, <3>2
  <2>5. ToSend(o)' = 0
    BY <1>2, <2>1, <2>4 DEF ToSend
  <2> QED BY <1>5, <2>2, <2>3, <2>5
<1>7. CASE StopChat
  <2>1. UNCHANGED link /\ batch' = batch /\ chat'.at = "none"
    BY <1>7 DEF StopChat, NoChat
  <2>2. ToSend(o)' = 0
    BY <2>1 DEF ToSend
  <2> QED BY <1>5, <2>1, <2>2
<1> QED BY <1>4, <1>6, <1>7 DEF User

LEMMA ServerAddsNothing ==
    ASSUME TypeInv, TypeInv', NEW p \in Pids, NEW o \in Objects(p), Server
    PROVE  Ordering(o)' + Telling(o)' <= Ordering(o) + Telling(o)
<1>1. Counted(o) /\ Counted(o)'
  BY CountsAreNat, CountsNext
<1>2. o[1] = p /\ o[2] \in 1..Size
  BY OrderOf
<1>3. Times(tasks', Order(o)) = Times(tasks, Order(o))
  <2>1. tasks' = tasks
    BY UserAndServerLeave DEF dispatcher
  <2> QED BY <2>1
<1>4. CASE SendCreate
  <2> DEFINE w == Create(chat.pid, chat.left)
  <2>1. Put(<<w>>) /\ chat.at = "sends" /\ chat.pid \in Pids /\ chat.left \in 1..Size
    BY <1>4, ProposalAssumption DEF SendCreate, TypeInv, ChatTypes
  <2>2. w \in Orders
    BY <2>1 DEF Orders
  <2>3. w = Order(o) <=> (chat.pid = p /\ chat.left = o[2])
    <3>1. w = Order(o) <=> <<chat.pid, chat.left>> = o
      BY OrderOf
    <3>2. o = <<p, o[2]>>
      BY OrderOf
    <3> QED BY <3>1, <3>2
  <2>4. Times(down', Order(o)) <= Times(down, Order(o)) + (IF w = Order(o) THEN 1 ELSE 0)
    <3>1. Times(down', Order(o)) <= Times(down, Order(o)) + (IF <<w>> = <<Order(o)>> THEN 1 ELSE 0)
      BY <2>1, <2>2, PutTimes
    <3>2. <<w>> = <<Order(o)>> <=> w = Order(o)
      OBVIOUS
    <3> QED BY <3>1, <3>2
  <2>5. \/ chat.left > 1 /\ chat'.at = "sends" /\ chat'.pid = chat.pid /\ chat'.left = chat.left - 1
        \/ ~(chat.left > 1) /\ chat'.at # "sends"
    <3>1. chat.left > 1 => chat' = [chat EXCEPT !.left = @ - 1, !.sent = chat.sent \/ Reached]
      BY <1>4 DEF SendCreate
    <3>2. ~(chat.left > 1) => chat' = [chat EXCEPT !.left = 0, !.at = "waits"] \/ chat' = NoChat
      BY <1>4 DEF SendCreate
    <3>3. CASE chat.left > 1
      <4> DEFINE s == chat.sent \/ Reached
      <4>1. chat' = [chat EXCEPT !.left = @ - 1, !.sent = s]
        BY <3>1, <3>3
      <4> HIDE DEF s
      <4>2. chat'.at = chat.at /\ chat'.pid = chat.pid /\ chat'.left = chat.left - 1
        BY <4>1 DEF TypeInv, ChatTypes
      <4> QED BY <2>1, <3>3, <4>2
    <3>4. CASE ~(chat.left > 1)
      <4>1. chat'.at # "sends"
        <5>1. [chat EXCEPT !.left = 0, !.at = "waits"].at = "waits"
          BY DEF TypeInv, ChatTypes
        <5>2. NoChat.at = "none"
          BY DEF NoChat
        <5> QED BY <3>2, <3>4, <5>1, <5>2
      <4> QED BY <3>4, <4>1
    <3> QED BY <3>3, <3>4
  <2> HIDE DEF w
  <2>6. ToSend(o)' + (IF w = Order(o) THEN 1 ELSE 0) <= ToSend(o)
    <3>1. ToSend(o) = IF chat.pid = p /\ o[2] <= chat.left THEN 1 ELSE 0
      BY <1>2, <2>1 DEF ToSend
    <3>2. ToSend(o)' = IF chat'.at = "sends" /\ chat'.pid = p /\ o[2] <= chat'.left THEN 1 ELSE 0
      BY <1>2 DEF ToSend
    <3>3. CASE chat.left > 1
      BY <1>2, <2>1, <2>3, <2>5, <3>1, <3>2, <3>3, ProposalAssumption
    <3>4. CASE ~(chat.left > 1)
      BY <1>2, <2>1, <2>3, <2>5, <3>1, <3>2, <3>4, ProposalAssumption
    <3> QED BY <3>3, <3>4
  <2>7. ToSend(o)' + Times(down', Order(o)) + Times(tasks', Order(o)) <= Ordering(o)
    BY <1>1, <1>3, <2>4, <2>6 DEF Counted, Ordering
  <2>8. batch' = batch \/ batch' = [batch EXCEPT ![chat.pid] = None]
    BY <1>4 DEF SendCreate
  <2>9. batch'[p] = None \/ batch'[p] = batch[p]
    BY <2>8 DEF TypeInv, BatchTypes
  <2>10. Collected(o)' <= Collected(o)
    BY <2>9, CollectedFades
  <2>11. UNCHANGED <<up, pending, held>>
    BY <2>1 DEF Put
  <2>12. Told(up', o) = Told(up, o) /\ Told(pending', o) = Told(pending, o) /\ InHand(o)' = InHand(o)
    BY <2>11 DEF InHand
  <2> QED BY <1>1, <2>7, <2>10, <2>12, NothingAdded DEF Counted
<1>5. CASE AllCame \/ TimeIsUp
  <2>1. /\ UNCHANGED link /\ chat' = NoChat
        /\ batch' = batch \/ batch' = [batch EXCEPT ![chat.pid] = None]
    BY <1>5 DEF AllCame, TimeIsUp, Shows
  <2>2. UNCHANGED <<down, up, pending, held>>
    BY <2>1 DEF link
  <2>3. ToSend(o)' = 0
    BY <2>1 DEF ToSend, NoChat
  <2>4. batch'[p] = None \/ batch'[p] = batch[p]
    BY <2>1 DEF TypeInv, BatchTypes
  <2>5. Collected(o)' <= Collected(o)
    BY <2>4, CollectedFades
  <2>6. Told(up', o) = Told(up, o) /\ Told(pending', o) = Told(pending, o) /\ InHand(o)' = InHand(o)
    BY <2>2 DEF InHand
  <2>7. Times(down', Order(o)) = Times(down, Order(o))
    BY <2>2
  <2> QED BY <1>1, <1>3, <2>3, <2>5, <2>6, <2>7, NothingAdded DEF Counted, Ordering
<1>6. CASE HearResult
  <2> DEFINE r == Head(up)
             q == r.object[1]
  <2>1. /\ up # <<>> /\ up' = Tail(up) /\ UNCHANGED <<down, pending, held, chat>>
        /\ batch' = batch \/ (batch[q] # None /\ batch' = [batch EXCEPT ![q].handles = Append(@, r.object)])
    BY <1>6 DEF HearResult, Collects
  <2>2. up \in Seq(Results)
    BY DEF TypeInv, LinkTypes
  <2>3. r \in Results /\ q \in Pids /\ r.object \in Objects(q)
    BY <2>1, <2>2, AmongTail, ObjectNames
  <2>4. Told(up, o) = Told(up', o) + (IF r.object = o THEN 1 ELSE 0)
    BY <2>1, <2>2, ToldStep
  <2> HIDE DEF r, q
  <2>5. Collected(o)' <= Collected(o) + (IF r.object = o THEN 1 ELSE 0)
    <3>1. CASE batch'[p] = batch[p]
      <4>1. Collected(o)' <= Collected(o)
        BY <3>1, CollectedFades
      <4> QED BY <1>1, <4>1 DEF Counted
    <3>2. CASE batch'[p] # batch[p]
      <4>1. batch[q] # None /\ batch' = [batch EXCEPT ![q].handles = Append(@, r.object)] /\ q = p
        BY <2>1, <3>2 DEF TypeInv, BatchTypes
      <4>2. batch[p] \in [kind : Kinds, handles : Seq(Obj)] /\ batch[p].handles \in Seq(Objects(p))
        BY <4>1 DEF TypeInv, BatchTypes
      <4>3. batch'[p].handles = Append(batch[p].handles, r.object)
        <5> DEFINE c == batch[p]
        <5>1. batch'[p] = [c EXCEPT !.handles = Append(@, r.object)]
          BY <4>1 DEF TypeInv, BatchTypes
        <5>2. c \in [kind : Kinds, handles : Seq(Obj)]
          BY <4>2
        <5> HIDE DEF c
        <5>3. batch'[p].handles = Append(c.handles, r.object)
          BY <5>1, <5>2
        <5> QED BY <5>3 DEF c
      <4>4. Times(Append(batch[p].handles, r.object), o) = Times(batch[p].handles, o) + (IF r.object = o THEN 1 ELSE 0)
        BY <2>3, <4>1, <4>2, TimesStep
      <4>5. Times(batch'[p].handles, o) = Collected(o) + (IF r.object = o THEN 1 ELSE 0)
        BY <1>2, <4>1, <4>3, <4>4 DEF Collected
      <4>6. Collected(o)' = IF batch'[p] = None THEN 0 ELSE Times(batch'[p].handles, o)
        BY <1>2 DEF Collected
      <4>7. (IF r.object = o THEN 1 ELSE 0) \in Nat
        OBVIOUS
      <4> QED BY <1>1, <4>5, <4>6, <4>7 DEF Counted
    <3> QED BY <3>1, <3>2
  <2>6. ToSend(o)' = ToSend(o) /\ InHand(o)' = InHand(o)
    BY <2>1 DEF ToSend, InHand
  <2>7. Told(pending', o) = Told(pending, o) /\ Times(down', Order(o)) = Times(down, Order(o))
    BY <2>1
  <2>8. /\ Ordering(o)' = ToSend(o)' + Times(down', Order(o)) + Times(tasks', Order(o))
        /\ Telling(o)' = Told(up', o) + Told(pending', o) + InHand(o)' + Collected(o)'
    BY DEF Ordering, Telling, Order, Times, Told
  <2> QED BY <1>1, <1>3, <2>4, <2>5, <2>6, <2>7, <2>8 DEF Counted, Ordering, Telling
<1> QED BY <1>4, <1>5, <1>6 DEF Server

\* The plugin turns an order into a task and the task into a result.
LEMMA PluginAddsNothing ==
    ASSUME TypeInv, TypeInv', NEW p \in Pids, NEW o \in Objects(p), Plugin
    PROVE  Ordering(o)' + Telling(o)' <= Ordering(o) + Telling(o)
<1>1. Counted(o) /\ Counted(o)'
  BY CountsAreNat, CountsNext
<1>2. o[1] = p /\ o[2] \in 1..Size /\ Order(o).do = "create"
  BY OrderOf
<1>3. down \in Seq(Orders) /\ tasks \in Seq(Orders) /\ up \in Seq(Results)
  BY DEF TypeInv, LinkTypes, TaskTypes
<1>4. ToSend(o)' = ToSend(o) /\ Collected(o)' = Collected(o)
  <2>1. UNCHANGED <<chat, batch>>
    BY PluginLeaves
  <2> QED BY <2>1 DEF ToSend, Collected, Times
<1>5. /\ Ordering(o)' = ToSend(o)' + Times(down', Order(o)) + Times(tasks', Order(o))
      /\ Telling(o)' = Told(up', o) + Told(pending', o) + InHand(o)' + Collected(o)'
  BY DEF Ordering, Telling, Order, Times, Told
<1>6. ASSUME UNCHANGED <<up, pending, held>>,
             Times(down', Order(o)) + Times(tasks', Order(o)) <= Times(down, Order(o)) + Times(tasks, Order(o))
      PROVE  Ordering(o)' + Telling(o)' <= Ordering(o) + Telling(o)
  <2>1. Told(up', o) = Told(up, o) /\ Told(pending', o) = Told(pending, o) /\ InHand(o)' = InHand(o)
    BY <1>6 DEF InHand
  <2> QED BY <1>1, <1>4, <1>5, <1>6, <2>1 DEF Counted, Ordering, Telling
<1>7. ASSUME NEW t \in Threads, PluginHears(t)
      PROVE  Ordering(o)' + Telling(o)' <= Ordering(o) + Telling(o)
  <2>1. /\ down # <<>> /\ down' = Tail(down) /\ UNCHANGED <<up, pending, held>>
        /\ tasks' = Append(tasks, Head(down))
    BY <1>7 DEF PluginHears, Receive, Enqueue
  <2>2. Head(down) \in Orders
    BY <1>3, <2>1, AmongTail
  <2>3. Times(down, Order(o)) = Times(down', Order(o)) + (IF Head(down) = Order(o) THEN 1 ELSE 0)
    BY <1>3, <2>1, TimesStep
  <2>4. Times(tasks', Order(o)) = Times(tasks, Order(o)) + (IF Head(down) = Order(o) THEN 1 ELSE 0)
    BY <1>3, <2>1, <2>2, TimesStep
  <2>5. Times(down', Order(o)) + Times(tasks', Order(o)) <= Times(down, Order(o)) + Times(tasks, Order(o))
    BY <1>1, <2>3, <2>4 DEF Counted
  <2> QED BY <1>6, <2>1, <2>5
<1>8. ASSUME OtherWorkOnUi \/ \E t \in Threads : OtherWork(t)
      PROVE  Ordering(o)' + Telling(o)' <= Ordering(o) + Telling(o)
  <2>1. tasks' = Append(tasks, Note) /\ UNCHANGED <<down, up, pending, held>>
    BY <1>8 DEF OtherWorkOnUi, OtherWork, Enqueue, EnqueueOnUi, link
  <2>2. Note \in Orders
    BY DEF Orders
  <2>3. Note # Order(o)
    BY <1>2 DEF Note
  <2>4. Times(tasks', Order(o)) = Times(tasks, Order(o)) + 0 /\ Times(down', Order(o)) = Times(down, Order(o))
    BY <1>3, <2>1, <2>2, <2>3, TimesStep
  <2>5. Times(down', Order(o)) + Times(tasks', Order(o)) <= Times(down, Order(o)) + Times(tasks, Order(o))
    BY <1>1, <2>4 DEF Counted
  <2> QED BY <1>6, <2>1, <2>5
<1>9. ASSUME Looks \/ UserBegins \/ UserStops \/ \E t \in Threads : Schedules(t)
      PROVE  Ordering(o)' + Telling(o)' <= Ordering(o) + Telling(o)
  <2>1. UNCHANGED <<down, up, pending, held>>
    BY <1>9 DEF Looks, UserBegins, UserStops, Schedules, link
  <2>2. tasks' = tasks
    <3>1. Looks => tasks' = tasks
      BY DEF Looks, DrainBegins, FindsCommand, FindsNone, RunEnds, LookThrows
    <3>2. UserBegins \/ UserStops => tasks' = tasks
      BY DEF UserBegins, UserStops, CommandBegins, CommandStops
    <3>3. \A t \in Threads : Schedules(t) => tasks' = tasks
      BY DEF Schedules, Inside, Claim, Post
    <3> QED BY <1>9, <3>1, <3>2, <3>3
  <2>3. Times(down', Order(o)) = Times(down, Order(o)) /\ Times(tasks', Order(o)) = Times(tasks, Order(o))
    BY <2>1, <2>2
  <2>4. Times(down', Order(o)) + Times(tasks', Order(o)) <= Times(down, Order(o)) + Times(tasks, Order(o))
    BY <1>1, <2>3 DEF Counted
  <2> QED BY <1>6, <2>1, <2>4
<1>10. ASSUME PluginRuns
       PROVE  Ordering(o)' + Telling(o)' <= Ordering(o) + Telling(o)
  <2> DEFINE w == Head(tasks)
  <2>1. tasks # <<>> /\ tasks' = Tail(tasks) /\ Carries(w) /\ held = None
    BY <1>10 DEF PluginRuns, RunTask
  <2>2. w \in Orders
    BY <1>3, <2>1, AmongTail
  <2>3. Times(tasks, Order(o)) = Times(tasks', Order(o)) + (IF w = Order(o) THEN 1 ELSE 0)
    BY <1>3, <2>1, TimesStep
  <2> HIDE DEF w
  <2>4. CASE w.do = "create"
    <3>1. PICK q \in Pids, i \in 1..Size : w = Create(q, i) /\ w.object = <<q, i>> /\ w.object \in Objects(q)
      BY <2>2, <2>4, OrderIs
    <3>2. PICK ok \in BOOLEAN : Draws(w.object, ok)
      BY <2>1, <2>4 DEF Carries
    <3> DEFINE m == Result(w.object, ok)
    <3>3. Send(m)
      BY <3>2 DEF Draws
    <3>4. m \in Results /\ m.object = w.object
      BY <3>1 DEF Result, Results
    <3>5. w = Order(o) <=> m.object = o
      BY <3>1, <3>4, OrderOf
    <3> HIDE DEF m
    <3>6. /\ UNCHANGED <<pending, down>>
          /\ (up' = Append(up, m) /\ held' = None) \/ (up' = up /\ held' = m)
      BY <2>1, <3>3 DEF Send
    <3>7. Told(up', o) + InHand(o)' <= Told(up, o) + (IF m.object = o THEN 1 ELSE 0)
      <4>1. CASE up' = Append(up, m) /\ held' = None
        <5>1. Told(up', o) = Told(up, o) + (IF m.object = o THEN 1 ELSE 0)
          BY <1>3, <3>4, <4>1, ToldStep
        <5>2. InHand(o)' = 0
          BY <4>1 DEF InHand
        <5> QED BY <1>1, <5>1, <5>2 DEF Counted
      <4>2. CASE up' = up /\ held' = m
        <5>1. Told(up', o) = Told(up, o)
          BY <4>2
        <5>2. InHand(o)' <= (IF m.object = o THEN 1 ELSE 0)
          BY <4>2 DEF InHand
        <5>3. (IF m.object = o THEN 1 ELSE 0) \in Nat
          OBVIOUS
        <5> QED BY <1>1, <5>1, <5>2, <5>3 DEF Counted
      <4> QED BY <3>6, <4>1, <4>2
    <3>8. InHand(o) = 0
      BY <2>1 DEF InHand
    <3>9. Told(pending', o) = Told(pending, o) /\ Times(down', Order(o)) = Times(down, Order(o))
      BY <3>6
    <3> QED BY <1>1, <1>4, <1>5, <2>3, <3>5, <3>7, <3>8, <3>9 DEF Counted, Ordering, Telling
  <2>5. CASE w.do # "create"
    <3>1. UNCHANGED link
      BY <2>1, <2>5 DEF Carries, Erases
    <3>2. UNCHANGED <<up, pending, held, down>>
      BY <3>1 DEF link
    <3>3. Times(down', Order(o)) = Times(down, Order(o))
      BY <3>2
    <3>4. Times(down', Order(o)) + Times(tasks', Order(o)) <= Times(down, Order(o)) + Times(tasks, Order(o))
      BY <1>1, <2>3, <3>3 DEF Counted
    <3> QED BY <1>6, <3>2, <3>4
  <2> QED BY <2>4, <2>5
<1> QED BY <1>7, <1>8, <1>9, <1>10 DEF Plugin

LEMMA ConnectionAddsNothing ==
    ASSUME TypeInv, TypeInv', NEW p \in Pids, NEW o \in Objects(p), Moves \/ Breaks \/ Restart
    PROVE  Ordering(o)' + Telling(o)' <= Ordering(o) + Telling(o)
<1>1. Counted(o) /\ Counted(o)'
  BY CountsAreNat, CountsNext
<1>2. up \in Seq(Results) /\ pending \in Seq(Results) /\ held \in Results \cup {None}
  BY DEF TypeInv, LinkTypes
<1>3. tasks' = tasks /\ Times(tasks', Order(o)) = Times(tasks, Order(o))
  BY PluginLeaves DEF dispatcher
<1>4. ToSend(o)' <= ToSend(o) /\ Collected(o)' <= Collected(o)
  <2>1. CASE Restart
    <3>1. chat' = NoChat /\ batch' = [q \in Pids |-> None]
      BY <2>1 DEF Restart
    <3>2. ToSend(o)' = 0
      BY <3>1 DEF ToSend, NoChat
    <3>3. batch'[p] = None
      BY <3>1
    <3>4. Collected(o)' <= Collected(o)
      BY <3>3, CollectedFades
    <3> QED BY <1>1, <3>2, <3>4 DEF Counted
  <2>2. CASE Moves \/ Breaks
    <3>1. UNCHANGED <<chat, batch>>
      BY <2>2, PluginLeaves
    <3>2. ToSend(o)' = ToSend(o)
      BY <3>1 DEF ToSend
    <3>3. Collected(o)' <= Collected(o)
      BY <3>1, CollectedFades
    <3> QED BY <1>1, <3>2, <3>3 DEF Counted
  <2> QED BY <2>1, <2>2
<1>5. Times(down', Order(o)) <= Times(down, Order(o))
  <2>1. down' = down \/ down' = <<>>
    BY DEF Moves, QueueHeld, Connect, Flush, FlushEnds, Notice, Breaks, Break, Restart
  <2> QED BY <1>1, <2>1, NoneOfNothing DEF Counted
<1>6. Told(up', o) + Told(pending', o) + InHand(o)' <= Told(up, o) + Told(pending, o) + InHand(o)
  <2>1. CASE QueueHeld
    <3> DEFINE q == IF Len(pending) >= MaxPending THEN Tail(pending) ELSE pending
    <3>1. held \in Results /\ up' = up /\ held' = None /\ pending' = Append(q, held) /\ held # None
      BY <1>2, <2>1 DEF QueueHeld, Enqueued
    <3>2. q \in Seq(Results) /\ Told(q, o) <= Told(pending, o)
      <4>1. CASE Len(pending) >= MaxPending
        <5>1. pending # <<>>
          BY <4>1, LinkAssumption
        <5>2. Tail(pending) \in Seq(Results)
          BY <1>2, <5>1, AmongTail
        <5>3. Told(pending, o) = Told(Tail(pending), o) + (IF Head(pending).object = o THEN 1 ELSE 0)
          BY <1>2, <5>1, ToldStep
        <5>4. Told(Tail(pending), o) \in Nat
          BY <5>2, ToldStep
        <5> QED BY <1>1, <4>1, <5>2, <5>3, <5>4 DEF Counted
      <4>2. CASE ~(Len(pending) >= MaxPending)
        BY <1>1, <1>2, <4>2 DEF Counted
      <4> QED BY <4>1, <4>2
    <3> HIDE DEF q
    <3>3. Told(pending', o) = Told(q, o) + (IF held.object = o THEN 1 ELSE 0) /\ Told(q, o) \in Nat
      BY <3>1, <3>2, ToldStep
    <3>4. InHand(o) = (IF held.object = o THEN 1 ELSE 0) /\ InHand(o)' = 0
      BY <3>1 DEF InHand
    <3>5. Told(up', o) = Told(up, o)
      BY <3>1
    <3> QED BY <1>1, <3>2, <3>3, <3>4, <3>5 DEF Counted
  <2>2. CASE Flush
    <3>1. /\ pending # <<>> /\ up' = Append(up, Head(pending)) /\ pending' = Tail(pending) /\ held' = held
      BY <2>2 DEF Flush
    <3>2. Head(pending) \in Results
      BY <1>2, <3>1, AmongTail
    <3>3. Told(up', o) = Told(up, o) + (IF Head(pending).object = o THEN 1 ELSE 0)
      BY <1>2, <3>1, <3>2, ToldStep
    <3>4. Told(pending, o) = Told(pending', o) + (IF Head(pending).object = o THEN 1 ELSE 0)
      BY <1>2, <3>1, ToldStep
    <3>5. InHand(o)' = InHand(o)
      BY <3>1 DEF InHand
    <3> QED BY <1>1, <3>3, <3>4, <3>5 DEF Counted
  <2>3. CASE Connect \/ FlushEnds \/ Notice \/ Breaks \/ Restart
    <3>1. (up' = up \/ up' = <<>>) /\ UNCHANGED <<pending, held>>
      BY <2>3 DEF Connect, FlushEnds, Notice, Breaks, Break, Restart
    <3>2. Told(pending', o) = Told(pending, o) /\ InHand(o)' = InHand(o)
      BY <3>1 DEF InHand
    <3>3. Told(up', o) <= Told(up, o)
      BY <1>1, <3>1, NoneOfNothing DEF Counted
    <3> QED BY <1>1, <3>2, <3>3 DEF Counted
  <2> QED BY <2>1, <2>2, <2>3 DEF Moves
<1>7. ToSend(o)' + Times(down', Order(o)) + Times(tasks', Order(o)) <= Ordering(o)
  <2>1. ToSend(o)' \in Nat /\ Times(down', Order(o)) \in Nat
    BY <1>1 DEF Counted, Order, Times
  <2> QED BY <1>1, <1>3, <1>4, <1>5, <2>1 DEF Counted, Ordering
<1> QED BY <1>4, <1>6, <1>7, NothingAdded

LEMMA OnceInit == Init => OnceInv
<1> SUFFICES ASSUME Init, NEW p \in Pids, NEW o \in Objects(p)
             PROVE  Ordering(o) + Telling(o) = 0
  BY DEF OnceInv
<1>1. /\ down = <<>> /\ tasks = <<>> /\ up = <<>> /\ pending = <<>> /\ held = None /\ chat = NoChat
      /\ batch = [q \in Pids |-> None]
  BY DEF Init, DispatcherInit, LinkInit
<1>2. batch[o[1]] = None
  BY <1>1, OrderOf
<1>3. ToSend(o) = 0 /\ InHand(o) = 0 /\ Collected(o) = 0
  BY <1>1, <1>2 DEF ToSend, NoChat, InHand, Collected
<1>4. /\ Times(down, Order(o)) = 0 /\ Times(tasks, Order(o)) = 0 /\ Told(up, o) = 0 /\ Told(pending, o) = 0
  BY <1>1, NoneOfNothing
<1> QED BY <1>3, <1>4 DEF Ordering, Telling

LEMMA OnceKept == TypeInv /\ OnceInv /\ [Next]_vars => OnceInv'
<1> SUFFICES ASSUME TypeInv, OnceInv, [Next]_vars, NEW p \in Pids, NEW o \in Objects(p)
             PROVE  /\ Ordering(o)' + Telling(o)' <= 1
                    /\ kind'[p] = None => Ordering(o)' + Telling(o)' = 0
  BY DEF OnceInv, Objects
<1>1. TypeInv'
  BY TypesKept
<1>2. Counted(o) /\ Counted(o)'
  BY <1>1, CountsAreNat, CountsNext
<1>3. Ordering(o) + Telling(o) <= 1 /\ (kind[p] = None => Ordering(o) + Telling(o) = 0)
  BY DEF OnceInv
<1>4. /\ Ordering(o)' = ToSend(o)' + Times(down', Order(o)) + Times(tasks', Order(o))
      /\ Telling(o)' = Told(up', o) + Told(pending', o) + InHand(o)' + Collected(o)'
  BY DEF Ordering, Telling, Order, Times, Told
<1>5. ASSUME NEW k \in Kinds, Propose(p, k)
      PROVE  /\ Ordering(o)' + Telling(o)' <= 1
             /\ kind'[p] = None => Ordering(o)' + Telling(o)' = 0
  <2>1. /\ kind[p] = None /\ kind' = [kind EXCEPT ![p] = k] /\ UNCHANGED <<dispatcher, link>>
        /\ batch' = [batch EXCEPT ![p] = [kind |-> k, handles |-> <<>>]]
    BY <1>5 DEF Propose
  <2>2. kind'[p] # None
    BY <2>1, NoneIsNoValue DEF TypeInv, PanelTypes
  <2>3. batch'[p] = [kind |-> k, handles |-> <<>>]
    BY <2>1 DEF TypeInv, BatchTypes
  <2>4. Collected(o)' = 0
    <3>1. batch'[p].handles = <<>>
      BY <2>3
    <3>2. Collected(o)' = IF batch'[p] = None THEN 0 ELSE Times(batch'[p].handles, o)
      BY OrderOf DEF Collected
    <3> QED BY <3>1, <3>2, NoneOfNothing
  <2>5. UNCHANGED <<down, tasks, up, pending, held>>
    BY <2>1 DEF dispatcher, link
  <2>6. /\ Times(down', Order(o)) = Times(down, Order(o)) /\ Times(tasks', Order(o)) = Times(tasks, Order(o))
        /\ Told(up', o) = Told(up, o) /\ Told(pending', o) = Told(pending, o) /\ InHand(o)' = InHand(o)
    BY <2>5 DEF InHand
  <2>7. ToSend(o)' <= 1 /\ ToSend(o)' \in Nat
    BY DEF ToSend
  <2>8. Ordering(o) + Telling(o) = 0
    BY <1>3, <2>1
  <2>9. Ordering(o)' + Telling(o)' <= 1
    BY <1>2, <1>4, <2>4, <2>6, <2>7, <2>8 DEF Counted, Ordering, Telling
  <2> QED BY <2>2, <2>9
<1>6. ASSUME \A k \in Kinds : ~Propose(p, k)
      PROVE  /\ Ordering(o)' + Telling(o)' <= 1
             /\ kind'[p] = None => Ordering(o)' + Telling(o)' = 0
  <2>1. CASE Next
    <3>1. Ordering(o)' + Telling(o)' <= Ordering(o) + Telling(o)
      BY <1>1, <1>6, <2>1, UserAddsNothing, ServerAddsNothing, PluginAddsNothing, ConnectionAddsNothing DEF Next
    <3>2. Ordering(o)' + Telling(o)' \in Nat /\ Ordering(o) + Telling(o) \in Nat
      BY <1>2, <1>4 DEF Counted, Ordering, Telling, Order, Times, Told
    <3>3. kind'[p] = None => kind[p] = None
      BY AnswersStand
    <3> HIDE DEF Ordering, Telling
    <3> QED BY <1>3, <3>1, <3>2, <3>3
  <2>2. CASE UNCHANGED vars
    <3>1. UNCHANGED <<down, tasks, up, pending, held, chat, batch, kind>>
      BY <2>2 DEF vars, dispatcher, link, server, history
    <3>2. /\ Times(down', Order(o)) = Times(down, Order(o)) /\ Times(tasks', Order(o)) = Times(tasks, Order(o))
          /\ Told(up', o) = Told(up, o) /\ Told(pending', o) = Told(pending, o)
      BY <3>1
    <3>3. InHand(o)' = InHand(o) /\ ToSend(o)' = ToSend(o) /\ Collected(o)' = Collected(o)
      BY <3>1 DEF InHand, ToSend, Collected, Times
    <3>4. Ordering(o)' = Ordering(o) /\ Telling(o)' = Telling(o)
      BY <1>4, <3>2, <3>3 DEF Ordering, Telling
    <3> QED BY <1>3, <3>1, <3>4
  <2> QED BY <2>1, <2>2
<1> QED BY <1>5, <1>6

\* A CREATE_RESULT is in one place only, collected, on the way, queued or in a
\* sender's hand (SocketClient.cs 36-65), however often the connection breaks
\* and the server is started anew.
THEOREM OneResultAnObject == Spec => []ResultOnce
<1>1. Spec => [](TypeInv /\ OnceInv)
  BY TypeInit, TypesKept, OnceInit, OnceKept, PTL DEF Spec
<1>2. TypeInv /\ OnceInv => ResultOnce
  <2> SUFFICES ASSUME TypeInv, OnceInv, NEW p \in Pids, NEW o \in Objects(p)
               PROVE  (IF batch[p] = None THEN 0 ELSE Times(batch[p].handles, o))
                      + Told(up, o) + Told(pending, o)
                      + (IF held # None /\ held.object = o THEN 1 ELSE 0) <= 1
    BY DEF ResultOnce
  <2>1. Counted(o)
    BY CountsAreNat
  <2>2. Collected(o) = IF batch[p] = None THEN 0 ELSE Times(batch[p].handles, o)
    BY OrderOf DEF Collected
  <2>3. Collected(o) + Told(up, o) + Told(pending, o) + InHand(o) <= 1
    BY <2>1 DEF OnceInv, Counted, Ordering, Telling
  <2> QED BY <2>2, <2>3 DEF InHand
<1> QED BY <1>1, <1>2, PTL

------------------------------------------------------------------------------
(* An answer is whole.  A panel shown in time was shown with as many        *)
(* handles as there are objects, and these are different ones because a     *)
(* result is in one place only.  That the objects stand needs that every    *)
(* result that tells of a success, wherever it is, tells of an object that  *)
(* is in the drawing as long as its proposal is not rejected.               *)

Drawn(r) == r.ok /\ panel[r.object[1]] # "rejected" => r.object \in new[r.object[1]]
Stands(p) ==
    panel[p] # "rejected" =>
        /\ offered[p] \subseteq new[p]
        /\ batch[p] # None => Among(batch[p].handles) \subseteq new[p]
StandInv ==
    /\ \A r \in Among(up) \cup Among(pending) : Drawn(r)
    /\ held # None => Drawn(held)
    /\ \A p \in Pids : Stands(p)
WholeInv ==
    \A p \in Pids : kind[p] # "modify" /\ panel[p] # "none" /\ ~late[p] => offered[p] = Objects(p)

\* As long as a proposal is not rejected its objects only become more.
LEMMA ObjectsStay ==
    ASSUME TypeInv, OrderInv, [Next]_vars, NEW p \in Pids, panel'[p] # "rejected"
    PROVE  panel[p] # "rejected" /\ new[p] \subseteq new'[p]
<1>1. panel[p] # "rejected"
  BY AnswersStand
<1> QED BY <1>1, StepsAreDecided DEF Decided

LEMMA DrawnStays ==
    ASSUME TypeInv, OrderInv, [Next]_vars, NEW r \in Results, Drawn(r)
    PROVE  Drawn(r)'
<1>1. r.object[1] \in Pids
  BY ObjectNames
<1> QED BY <1>1, ObjectsStay DEF Drawn

\* All results of a sequence are drawn.
AllDrawn(q) == \A r \in Among(q) : Drawn(r)'

LEMMA ResultsKept ==
    ASSUME TypeInv, OrderInv, StandInv, [Next]_vars
    PROVE  AllDrawn(up') /\ AllDrawn(pending') /\ \A r : r = held' /\ r # None => Drawn(r)'
<1> DEFINE Goal == AllDrawn(up') /\ AllDrawn(pending') /\ \A r : r = held' /\ r # None => Drawn(r)'
<1>1. up \in Seq(Results) /\ pending \in Seq(Results) /\ held \in Results \cup {None}
  BY DEF TypeInv, LinkTypes
<1>2. AllDrawn(up) /\ AllDrawn(pending)
  <2>1. Among(up) \subseteq Results /\ Among(pending) \subseteq Results
    BY <1>1, AmongSome
  <2> QED BY <2>1, DrawnStays DEF StandInv, AllDrawn
<1>3. ASSUME NEW r, r = held, r # None PROVE r \in Results /\ Drawn(r)'
  <2>1. Drawn(r) /\ r \in Results
    BY <1>1, <1>3 DEF StandInv
  <2> QED BY <2>1, DrawnStays
<1>4. AllDrawn(<<>>)
  BY AmongNone DEF AllDrawn
<1>5. ASSUME NEW q \in Seq(Results), AllDrawn(q), q # <<>>
      PROVE  AllDrawn(Tail(q)) /\ \E r \in Results : r = Head(q) /\ Drawn(r)'
  <2>1. Head(q) \in Results /\ Among(q) = {Head(q)} \cup Among(Tail(q))
    BY <1>5, AmongTail
  <2> QED BY <1>5, <2>1 DEF AllDrawn
<1>6. ASSUME NEW q \in Seq(Results), AllDrawn(q), NEW r \in Results, Drawn(r)' PROVE AllDrawn(Append(q, r))
  <2>1. Among(Append(q, r)) = Among(q) \cup {r}
    BY AmongAppend
  <2> QED BY <1>6, <2>1 DEF AllDrawn
<1>7. ASSUME up' = up \/ up' = <<>>, UNCHANGED <<pending, held>> PROVE Goal
  <2>1. AllDrawn(up')
    BY <1>2, <1>4, <1>7
  <2>2. AllDrawn(pending')
    BY <1>2, <1>7
  <2>3. \A r : r = held' /\ r # None => Drawn(r)'
    BY <1>3, <1>7
  <2> QED BY <2>1, <2>2, <2>3
<1>8. ASSUME HearResult PROVE Goal
  <2>1. up # <<>> /\ up' = Tail(up) /\ UNCHANGED <<pending, held>>
    BY <1>8 DEF HearResult
  <2>2. AllDrawn(up')
    BY <1>1, <1>2, <1>5, <2>1
  <2>3. AllDrawn(pending')
    BY <1>2, <2>1
  <2>4. \A r : r = held' /\ r # None => Drawn(r)'
    BY <1>3, <2>1
  <2> QED BY <2>2, <2>3, <2>4
<1>9. ASSUME PluginRuns PROVE Goal
  <2> DEFINE w == Head(tasks)
  <2>1. tasks # <<>> /\ Carries(w) /\ held = None
    BY <1>9 DEF PluginRuns, RunTask
  <2>2. w \in Orders
    BY <2>1, AmongTail DEF TypeInv, TaskTypes
  <2> HIDE DEF w
  <2>3. CASE w.do = "create"
    <3>1. w.object[1] \in Pids /\ w.object \in Objects(w.object[1])
      BY <2>2, <2>3, OrderIs, ObjectNames
    <3>2. PICK ok \in BOOLEAN : Draws(w.object, ok)
      BY <2>1, <2>3 DEF Carries
    <3>3. Result(w.object, ok) \in Results
      BY <3>1 DEF Result, Results
    <3>4. PICK m \in Results : m = Result(w.object, ok)
      BY <3>3
    <3>5. m.ok = ok /\ m.object = w.object
      BY <3>4 DEF Result
    <3>6. /\ new' = IF ok THEN [new EXCEPT ![w.object[1]] = @ \cup {w.object}] ELSE new
          /\ Send(m)
      BY <3>2, <3>4 DEF Draws
    <3>7. Drawn(m)'
      <4>1. m.ok => m.object \in new'[m.object[1]]
        BY <3>1, <3>5, <3>6 DEF TypeInv, DrawTypes
      <4> QED BY <4>1 DEF Drawn
    <3>8. /\ UNCHANGED pending
          /\ (up' = Append(up, m) /\ held' = None) \/ (up' = up /\ held' = m)
      BY <2>1, <3>6 DEF Send
    <3>9. AllDrawn(up')
      BY <1>1, <1>2, <1>6, <3>7, <3>8
    <3>10. AllDrawn(pending')
      BY <1>2, <3>8
    <3>11. \A r : r = held' /\ r # None => Drawn(r)'
      BY <3>7, <3>8
    <3> QED BY <3>9, <3>10, <3>11
  <2>4. CASE w.do # "create"
    <3>1. UNCHANGED link
      BY <2>1, <2>4 DEF Carries, Erases
    <3> QED BY <1>7, <3>1 DEF link
  <2> QED BY <2>3, <2>4
<1>10. ASSUME QueueHeld PROVE Goal
  <2>1. held # None /\ held' = None /\ up' = up /\ pending' = Enqueued(pending, held)
    BY <1>10 DEF QueueHeld
  <2>2. PICK m \in Results : m = held
    BY <1>1, <2>1
  <2>3. Drawn(m)'
    BY <1>3, <2>1, <2>2
  <2>4. PICK q \in Seq(Results) : AllDrawn(q) /\ pending' = Append(q, m)
    <3>1. CASE Len(pending) >= MaxPending
      <4>1. pending # <<>>
        BY <3>1, LinkAssumption
      <4>2. Tail(pending) \in Seq(Results) /\ AllDrawn(Tail(pending))
        BY <1>1, <1>2, <1>5, <4>1, AmongTail
      <4> QED BY <2>1, <2>2, <3>1, <4>2 DEF Enqueued
    <3>2. CASE ~(Len(pending) >= MaxPending)
      BY <1>1, <1>2, <2>1, <2>2, <3>2 DEF Enqueued
    <3> QED BY <3>1, <3>2
  <2>5. AllDrawn(pending')
    BY <1>6, <2>3, <2>4
  <2>6. AllDrawn(up')
    BY <1>2, <2>1
  <2>7. \A r : r = held' /\ r # None => Drawn(r)'
    BY <2>1
  <2> QED BY <2>5, <2>6, <2>7
<1>11. ASSUME Flush PROVE Goal
  <2>1. pending # <<>> /\ up' = Append(up, Head(pending)) /\ pending' = Tail(pending) /\ held' = held
    BY <1>11 DEF Flush
  <2>2. PICK r \in Results : r = Head(pending) /\ Drawn(r)'
    BY <1>1, <1>2, <1>5, <2>1
  <2>3. AllDrawn(up')
    BY <1>1, <1>2, <1>6, <2>1, <2>2
  <2>4. AllDrawn(pending')
    BY <1>1, <1>2, <1>5, <2>1
  <2>5. \A s : s = held' /\ s # None => Drawn(s)'
    BY <1>3, <2>1
  <2> QED BY <2>3, <2>4, <2>5
<1>12. ASSUME User \/ SendCreate \/ AllCame \/ TimeIsUp PROVE Goal
  <2>1. ASSUME NEW q, Put(q) PROVE up' = up /\ UNCHANGED <<pending, held>>
    BY <2>1 DEF Put
  <2>2. (\E p \in Pids : Approve(p) \/ Reject(p)) \/ SendCreate => \E q : Put(q)
    BY DEF Approve, Reject, SendCreate
  <2>3. StopChat \/ AllCame \/ TimeIsUp => UNCHANGED link
    BY DEF StopChat, AllCame, TimeIsUp
  <2>4. \A p \in Pids : \A k \in Kinds : Propose(p, k) => UNCHANGED link
    BY DEF Propose
  <2>5. up' = up /\ UNCHANGED <<pending, held>>
    BY <1>12, <2>1, <2>2, <2>3, <2>4 DEF User, link
  <2> QED BY <1>7, <2>5
<1>13. ASSUME Connect \/ FlushEnds \/ Notice \/ Breaks \/ Restart PROVE Goal
  <2>1. (up' = up \/ up' = <<>>) /\ UNCHANGED <<pending, held>>
    BY <1>13 DEF Connect, FlushEnds, Notice, Breaks, Break, Restart
  <2> QED BY <1>7, <2>1
<1>14. ASSUME Plugin, ~PluginRuns PROVE Goal
  <2>1. \A t \in Threads : PluginHears(t) => up' = up /\ UNCHANGED <<pending, held>>
    BY DEF PluginHears, Receive
  <2>2. \A t \in Threads : OtherWork(t) \/ Schedules(t) => up' = up /\ UNCHANGED <<pending, held>>
    BY DEF OtherWork, Schedules, link
  <2>3. OtherWorkOnUi \/ Looks \/ UserBegins \/ UserStops => up' = up /\ UNCHANGED <<pending, held>>
    BY DEF OtherWorkOnUi, Looks, UserBegins, UserStops, link
  <2>4. up' = up /\ UNCHANGED <<pending, held>>
    BY <1>14, <2>1, <2>2, <2>3 DEF Plugin
  <2> QED BY <1>7, <2>4
<1>15. ASSUME UNCHANGED vars PROVE Goal
  BY <1>7, <1>15 DEF vars, link
<1> QED BY <1>8, <1>9, <1>10, <1>11, <1>12, <1>13, <1>14, <1>15 DEF Next, Server, Moves

\* What was collected and what was offered stands.
LEMMA StandsKept ==
    ASSUME TypeInv, OrderInv, StandInv, [Next]_vars, NEW p \in Pids
    PROVE  Stands(p)'
<1> SUFFICES ASSUME panel'[p] # "rejected"
             PROVE  offered'[p] \subseteq new'[p] /\ (batch'[p] # None => Among(batch'[p].handles) \subseteq new'[p])
  BY DEF Stands, Among
<1>1. panel[p] # "rejected" /\ new[p] \subseteq new'[p]
  BY ObjectsStay
<1>2. offered[p] \subseteq new'[p] /\ (batch[p] # None => Among(batch[p].handles) \subseteq new'[p])
  BY <1>1 DEF StandInv, Stands
<1>3. CASE AllCame \/ TimeIsUp
  <2>1. /\ chat.pid \in Pids /\ batch[chat.pid] # None
        /\ offered' = [offered EXCEPT ![chat.pid] = Among(batch[chat.pid].handles)]
        /\ batch' = batch \/ batch' = [batch EXCEPT ![chat.pid] = None]
    BY <1>3 DEF AllCame, TimeIsUp, Shows, TypeInv, ChatTypes
  <2>2. batch'[p] = None \/ batch'[p] = batch[p]
    BY <2>1 DEF TypeInv, BatchTypes
  <2>3. offered'[p] = IF p = chat.pid THEN Among(batch[p].handles) ELSE offered[p]
    BY <2>1 DEF TypeInv, PanelTypes
  <2> QED BY <1>2, <2>1, <2>2, <2>3
<1>4. CASE HearResult
  <2> DEFINE r == Head(up)
             q == r.object[1]
  <2>1. /\ up # <<>> /\ offered' = offered
        /\ batch' = batch \/ (r.ok /\ batch[q] # None /\ batch' = [batch EXCEPT ![q].handles = Append(@, r.object)])
    BY <1>4, UserAndServerLeave DEF HearResult, Collects
  <2>2. r \in Results /\ r \in Among(up)
    BY <2>1, AmongTail DEF TypeInv, LinkTypes
  <2>3. q \in Pids /\ r.object \in Objects(q) /\ Drawn(r)
    BY <2>2, ObjectNames DEF StandInv
  <2> HIDE DEF r, q
  <2>4. CASE batch'[p] = batch[p]
    BY <1>2, <2>1, <2>4
  <2>5. CASE batch'[p] # batch[p]
    <3>1. q = p /\ r.ok /\ batch[q] # None /\ batch' = [batch EXCEPT ![q].handles = Append(@, r.object)]
      BY <2>1, <2>5 DEF TypeInv, BatchTypes
    <3>2. batch[p] \in [kind : Kinds, handles : Seq(Obj)] /\ batch[p].handles \in Seq(Objects(p))
      BY <3>1 DEF TypeInv, BatchTypes
    <3>3. batch'[p].handles = Append(batch[p].handles, r.object)
      <4> DEFINE c == batch[p]
      <4>1. batch'[p] = [c EXCEPT !.handles = Append(@, r.object)]
        BY <3>1 DEF TypeInv, BatchTypes
      <4>2. c \in [kind : Kinds, handles : Seq(Obj)]
        BY <3>2
      <4> HIDE DEF c
      <4>3. batch'[p].handles = Append(c.handles, r.object)
        BY <4>1, <4>2
      <4> QED BY <4>3 DEF c
    <3>4. Among(batch'[p].handles) = Among(batch[p].handles) \cup {r.object}
      BY <2>3, <3>1, <3>2, <3>3, AmongAppend
    <3>5. r.object \in new[p]
      <4>1. q = r.object[1]
        BY DEF q
      <4> QED BY <1>1, <2>3, <3>1, <4>1 DEF Drawn
    <3> QED BY <1>1, <1>2, <2>1, <3>1, <3>4, <3>5
  <2> QED BY <2>4, <2>5
<1>5. CASE \E q \in Pids : \E k \in Kinds : Propose(q, k)
  <2>1. PICK q \in Pids, k \in Kinds : Propose(q, k)
    BY <1>5
  <2>2. offered' = offered /\ batch' = [batch EXCEPT ![q] = [kind |-> k, handles |-> <<>>]]
    BY <2>1, UserAndServerLeave DEF Propose
  <2>3. batch'[p] = batch[p] \/ batch'[p].handles = <<>>
    BY <2>2 DEF TypeInv, BatchTypes
  <2> QED BY <1>2, <2>2, <2>3, AmongNone
<1>6. ASSUME offered' = offered, batch'[p] = batch[p] \/ batch'[p] = None
      PROVE  offered'[p] \subseteq new'[p] /\ (batch'[p] # None => Among(batch'[p].handles) \subseteq new'[p])
  BY <1>2, <1>6
<1>7. CASE \E q \in Pids : Approve(q) \/ Reject(q)
  <2>1. PICK q \in Pids : Approve(q) \/ Reject(q)
    BY <1>7
  <2>2. offered' = offered /\ batch' = [batch EXCEPT ![q] = None]
    BY <2>1, UserAndServerLeave DEF Approve, Reject
  <2>3. batch'[p] = batch[p] \/ batch'[p] = None
    BY <2>2 DEF TypeInv, BatchTypes
  <2> QED BY <1>6, <2>2, <2>3
<1>8. CASE SendCreate
  <2>1. offered' = offered /\ (batch' = batch \/ batch' = [batch EXCEPT ![chat.pid] = None])
    BY <1>8, UserAndServerLeave DEF SendCreate
  <2>2. batch'[p] = batch[p] \/ batch'[p] = None
    BY <2>1 DEF TypeInv, BatchTypes
  <2> QED BY <1>6, <2>1, <2>2
<1>9. CASE StopChat \/ Plugin \/ Moves \/ Breaks
  <2>1. offered' = offered /\ batch' = batch
    BY <1>9, UserAndServerLeave, PluginLeaves
  <2> QED BY <1>6, <2>1
<1>10. CASE Restart
  <2>1. offered' = offered /\ batch' = [q \in Pids |-> None]
    BY <1>10, PluginLeaves DEF Restart
  <2> QED BY <1>6, <2>1
<1>11. CASE UNCHANGED vars
  <2>1. offered' = offered /\ batch' = batch
    BY <1>11 DEF vars, browser, server
  <2> QED BY <1>6, <2>1
<1> QED BY <1>3, <1>4, <1>5, <1>7, <1>8, <1>9, <1>10, <1>11 DEF Next, User, Server

LEMMA StandKept == TypeInv /\ OrderInv /\ StandInv /\ [Next]_vars => StandInv'
<1> SUFFICES ASSUME TypeInv, OrderInv, StandInv, [Next]_vars PROVE StandInv'
  OBVIOUS
<1>1. \A r \in Among(up') \cup Among(pending') : Drawn(r)'
  BY ResultsKept DEF AllDrawn
<1>2. (held # None => Drawn(held))'
  <2>1. \A r : r = held' /\ r # None => Drawn(r)'
    BY ResultsKept
  <2> QED BY <2>1 DEF Drawn
<1>3. \A p \in Pids : Stands(p)'
  BY StandsKept
<1> QED BY <1>1, <1>2, <1>3 DEF StandInv, Among

LEMMA StandInit == Init => StandInv
<1> SUFFICES ASSUME Init PROVE StandInv
  OBVIOUS
<1>1. up = <<>> /\ pending = <<>> /\ held = None
  BY DEF Init, LinkInit
<1>2. \A p \in Pids : Stands(p)
  BY DEF Init, Stands
<1> QED BY <1>1, <1>2, AmongNone DEF StandInv

\* A panel shown in time names every object.
LEMMA WholeKept == TypeInv /\ OnceInv /\ WholeInv /\ [Next]_vars => WholeInv'
<1> SUFFICES ASSUME TypeInv, OnceInv, WholeInv, [Next]_vars, NEW p \in Pids,
                    kind'[p] # "modify", panel'[p] # "none", ~late'[p]
             PROVE  offered'[p] = Objects(p)
  BY DEF WholeInv, Objects
<1>1. ASSUME panel[p] # "none", UNCHANGED <<offered, late>> PROVE offered'[p] = Objects(p)
  <2>1. kind[p] # None
    BY <1>1 DEF TypeInv, PanelTypes
  <2>2. kind[p] # "modify"
    BY <2>1, AnswersStand
  <2> QED BY <1>1, <2>2 DEF WholeInv
<1>2. CASE \E q \in Pids : Approve(q) \/ Reject(q)
  <2>1. PICK q \in Pids : Approve(q) \/ Reject(q)
    BY <1>2
  <2>2. /\ panel[q] = "shown" /\ UNCHANGED <<offered, late>>
        /\ panel' = [panel EXCEPT ![q] = "approved"] \/ panel' = [panel EXCEPT ![q] = "rejected"]
    BY <2>1, UserAndServerLeave DEF Approve, Reject
  <2>3. panel[p] # "none"
    BY <2>2 DEF TypeInv, PanelTypes
  <2> QED BY <1>1, <2>2, <2>3
<1>3. CASE \E q \in Pids : \E k \in Kinds : Propose(q, k)
  <2>1. PICK q \in Pids, k \in Kinds : Propose(q, k)
    BY <1>3
  <2>2. /\ kind' = [kind EXCEPT ![q] = k] /\ UNCHANGED <<offered, late>>
        /\ panel' = panel \/ (k = "modify" /\ panel' = [panel EXCEPT ![q] = "shown"])
    BY <2>1, UserAndServerLeave DEF Propose
  <2>3. panel[p] # "none"
    BY <2>2 DEF TypeInv, PanelTypes
  <2> QED BY <1>1, <2>2, <2>3
<1>4. CASE TimeIsUp
  <2>1. /\ late' = [late EXCEPT ![chat.pid] = TRUE] /\ panel' = [panel EXCEPT ![chat.pid] = "shown"]
        /\ offered' = [offered EXCEPT ![chat.pid] = Among(batch[chat.pid].handles)] /\ kind' = kind
    BY <1>4, UserAndServerLeave DEF TimeIsUp, Shows
  <2>2. p # chat.pid
    BY <2>1 DEF TypeInv, PanelTypes
  <2>3. panel[p] # "none" /\ ~late[p] /\ kind[p] # "modify" /\ offered'[p] = offered[p]
    BY <2>1, <2>2 DEF TypeInv, PanelTypes
  <2> QED BY <2>3 DEF WholeInv
<1>5. CASE AllCame
  <2>1. /\ Complete(chat.pid) /\ panel' = [panel EXCEPT ![chat.pid] = "shown"]
        /\ offered' = [offered EXCEPT ![chat.pid] = Among(batch[chat.pid].handles)] /\ UNCHANGED <<kind, late>>
        /\ chat.at # "none"
    BY <1>5, UserAndServerLeave DEF AllCame, Shows
  <2>2. CASE p = chat.pid
    <3> DEFINE q == batch[p].handles
    <3>1. batch[p] # None /\ q \in Seq(Objects(p)) /\ Len(q) >= Size
      BY <2>1, <2>2 DEF TypeInv, ChatTypes, BatchTypes, Complete
    <3>2. ASSUME NEW o \in Objects(p) PROVE Times(q, o) <= 1
      <4>1. Counted(o)
        BY CountsAreNat
      <4>2. Collected(o) <= 1
        BY <4>1 DEF OnceInv, Counted, Ordering, Telling
      <4> QED BY <3>1, <4>2, OrderOf DEF Collected
    <3> HIDE DEF q
    <3>3. Among(q) = Objects(p)
      BY <3>1, <3>2, OnceIsAll
    <3> QED BY <2>1, <2>2, <3>3 DEF q, TypeInv, PanelTypes
  <2>3. CASE p # chat.pid
    <3>1. panel[p] # "none" /\ ~late[p] /\ kind[p] # "modify" /\ offered'[p] = offered[p]
      BY <2>1, <2>3 DEF TypeInv, PanelTypes
    <3> QED BY <3>1 DEF WholeInv
  <2> QED BY <2>2, <2>3
<1>6. CASE StopChat \/ SendCreate \/ HearResult \/ Plugin \/ Moves \/ Breaks \/ Restart
  <2>1. UNCHANGED <<panel, offered, late>>
    BY <1>6, UserAndServerLeave, PluginLeaves
  <2> QED BY <1>1, <2>1
<1>7. CASE UNCHANGED vars
  BY <1>1, <1>7 DEF vars, browser, history
<1> QED BY <1>2, <1>3, <1>4, <1>5, <1>6, <1>7 DEF Next, User, Server

LEMMA WholeInit == Init => WholeInv
BY DEF Init, WholeInv

\* A panel shown before the five seconds ran out names every object of its
\* proposal, and once it is approved all of them stand (websocket.py 288-301
\* and 878).
THEOREM ApprovedIsWhole == Spec => []AnswerIsWhole
<1>1. Spec => [](TypeInv /\ OrderInv /\ OnceInv /\ StandInv /\ WholeInv)
  BY TypeInit, TypesKept, OrderInit, OrderKept, OnceInit, OnceKept, StandInit, StandKept,
     WholeInit, WholeKept, PTL DEF Spec
<1>2. TypeInv /\ StandInv /\ WholeInv => AnswerIsWhole
  <2> SUFFICES ASSUME TypeInv, StandInv, WholeInv, NEW p \in Pids,
                      kind[p] # "modify", panel[p] # "none", ~late[p]
               PROVE  offered[p] = Objects(p) /\ (panel[p] = "approved" => new[p] = Objects(p))
    BY DEF AnswerIsWhole
  <2>1. offered[p] = Objects(p)
    BY DEF WholeInv
  <2>2. panel[p] = "approved" => offered[p] \subseteq new[p]
    BY DEF StandInv, Stands
  <2>3. new[p] \subseteq Objects(p)
    BY DEF TypeInv, DrawTypes
  <2> QED BY <2>1, <2>2, <2>3
<1> QED BY <1>1, <1>2, PTL
==============================================================================
