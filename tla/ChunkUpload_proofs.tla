-------------------------- MODULE ChunkUpload_proofs --------------------------
(* For any number of sends, chunks, attempts, faults and lost connections:  *)
(* the types, that a stored drawing is whole, and that it never goes back   *)
(* to an older extraction.  StoredIsWhole speaks of what is stored; what    *)
(* has to be kept is that the list of a send, as long as its staging is     *)
(* there, holds every chunk before the one it is at, and that there is only *)
(* one request that can add to it or take it away.                          *)
EXTENDS ChunkUpload, SequenceTheorems, TLAPS

Handles == UNION {Whole(s) : s \in Sends}
Phases == {"idle", "next", "posts", "done", "failed", "stopped", "gone"}
Steps == {"enter", "push", "merge", "read", "clear", "store", "ok", "fail"}

------------------------------------------------------------------------------
(* Types.                                                                   *)

SendTypes ==
    /\ send \in [Sends -> [at : Phases, chunk : Nat, try : Nat]]
    /\ \A s \in Sends : send[s].chunk \in 1..Len(Parts[s]) /\ send[s].try \in 1..Tries
    /\ stopped \subseteq Sends
ServerCalls ==
    [of : Sends, chunk : Nat, try : Nat, at : Steps, staged : BOOLEAN, read : Seq(Handles)]
Typed(c) ==
    c \in ServerCalls /\ c.chunk \in 1..Len(Parts[c.of]) /\ ToSet(c.read) \subseteq Whole(c.of)
CallTypes == \A c \in calls : Typed(c)
KeyTypes ==
    /\ staging \subseteq Sends /\ list \in [Sends -> Seq(Handles)]
    /\ \A s \in Sends : ToSet(list[s]) \subseteq Whole(s)
StoreTypes == ever \subseteq Sends /\ odd \subseteq Befalls \X Sends /\ (stored = None \/ stored.of \in Sends)
TypeInv == SendTypes /\ CallTypes /\ KeyTypes /\ StoreTypes

\* What a send consists of.
LEMMA PartsAre ==
    /\ Len(Parts) \in Nat /\ Sends = 1..Len(Parts) /\ Tries \in Nat \ {0}
    /\ \A s \in Sends : /\ Len(Parts[s]) \in Nat \ {0} /\ DOMAIN Parts[s] = 1..Len(Parts[s])
                        /\ \A k \in 1..Len(Parts[s]) : /\ Parts[s][k] \in Seq(Handles)
                                                       /\ ToSet(Parts[s][k]) \subseteq Whole(s)
<1>1. Len(Parts) \in Nat /\ Sends = 1..Len(Parts) /\ Tries \in Nat \ {0}
  BY UploadAssumption, LenProperties DEF Sends
<1>2. ASSUME NEW s \in Sends
      PROVE  /\ Len(Parts[s]) \in Nat \ {0} /\ DOMAIN Parts[s] = 1..Len(Parts[s])
             /\ \A k \in 1..Len(Parts[s]) : Parts[s][k] \in Seq(Handles) /\ ToSet(Parts[s][k]) \subseteq Whole(s)
  <2>1. Parts[s] \in Seq(ToSet(Parts[s])) /\ Parts[s] # <<>>
    BY UploadAssumption
  <2>2. Len(Parts[s]) \in Nat \ {0} /\ DOMAIN Parts[s] = 1..Len(Parts[s])
    BY <2>1, LenProperties, EmptySeq
  <2>3. ASSUME NEW k \in 1..Len(Parts[s])
        PROVE  Parts[s][k] \in Seq(Handles) /\ ToSet(Parts[s][k]) \subseteq Whole(s)
    <3>1. ToSet(Parts[s][k]) \subseteq Whole(s)
      BY <2>2 DEF Whole
    <3>2. ToSet(Parts[s][k]) \subseteq Handles
      BY <3>1 DEF Handles
    <3>3. Parts[s][k] \in Seq(ToSet(Parts[s][k]))
      BY <2>2, UploadAssumption
    <3> QED BY <3>1, <3>2, <3>3, SeqMonotonic
  <2> QED BY <2>2, <2>3
<1> QED BY <1>1, <1>2

\* What stands in a sequence that was made longer.
LEMMA ToSetConcat ==
    ASSUME NEW S, NEW q \in Seq(S), NEW r \in Seq(S)
    PROVE  q \o r \in Seq(S) /\ ToSet(q \o r) = ToSet(q) \cup ToSet(r)
<1>1. /\ q \o r \in Seq(S) /\ Len(q \o r) = Len(q) + Len(r)
      /\ \A i \in 1..(Len(q) + Len(r)) : (q \o r)[i] = IF i <= Len(q) THEN q[i] ELSE r[i - Len(q)]
  BY ConcatProperties
<1>2. /\ Len(q) \in Nat /\ Len(r) \in Nat /\ DOMAIN q = 1..Len(q) /\ DOMAIN r = 1..Len(r)
      /\ DOMAIN (q \o r) = 1..(Len(q) + Len(r))
  BY <1>1, LenProperties
<1>3. ASSUME NEW i \in DOMAIN (q \o r) PROVE (q \o r)[i] \in ToSet(q) \cup ToSet(r)
  <2>1. CASE i <= Len(q)
    BY <1>1, <1>2, <2>1 DEF ToSet
  <2>2. CASE ~(i <= Len(q))
    <3>1. i - Len(q) \in DOMAIN r /\ (q \o r)[i] = r[i - Len(q)]
      BY <1>1, <1>2, <2>2
    <3> QED BY <3>1 DEF ToSet
  <2> QED BY <2>1, <2>2
<1>4. ASSUME NEW i \in DOMAIN q PROVE q[i] \in ToSet(q \o r)
  <2>1. i \in DOMAIN (q \o r) /\ (q \o r)[i] = q[i]
    BY <1>1, <1>2
  <2> QED BY <2>1 DEF ToSet
<1>5. ASSUME NEW i \in DOMAIN r PROVE r[i] \in ToSet(q \o r)
  <2>1. i + Len(q) \in DOMAIN (q \o r) /\ (i + Len(q)) - Len(q) = i /\ ~(i + Len(q) <= Len(q))
    BY <1>2
  <2>2. (q \o r)[i + Len(q)] = r[i]
    BY <1>1, <1>2, <2>1
  <2> QED BY <2>1, <2>2 DEF ToSet
<1> QED BY <1>1, <1>3, <1>4, <1>5 DEF ToSet

LEMMA ToSetPrefix ==
    ASSUME NEW S, NEW q \in Seq(S), NEW n \in 0..Len(q)
    PROVE  SubSeq(q, 1, n) \in Seq(S) /\ ToSet(SubSeq(q, 1, n)) \subseteq ToSet(q)
<1>1. Len(q) \in Nat /\ DOMAIN q = 1..Len(q) /\ n \in Nat /\ n <= Len(q)
  BY LenProperties
<1>2. \A i \in 1..n : q[i] \in S /\ i \in DOMAIN q
  BY <1>1, ElementOfSeq
<1>3. SubSeq(q, 1, n) = [i \in 1..n |-> q[i]]
  <2>1. n - 1 + 1 = n /\ \A i \in 1..n : i + 1 - 1 = i
    BY <1>1
  <2> QED BY <1>1
<1>4. SubSeq(q, 1, n) \in Seq(S)
  BY <1>1, <1>2, <1>3
<1>5. DOMAIN SubSeq(q, 1, n) = 1..n
  BY <1>3
<1> QED BY <1>2, <1>3, <1>4, <1>5 DEF ToSet

LEMMA TypeInit == UploadInit => TypeInv
<1> SUFFICES ASSUME UploadInit PROVE TypeInv
  OBVIOUS
<1> USE DEF UploadInit
<1>1. SendTypes
  BY PartsAre DEF SendTypes, Phases
<1>2. CallTypes
  BY DEF CallTypes
<1>3. KeyTypes
  <2>1. <<>> \in Seq(Handles) /\ ToSet(<<>>) = {}
    BY DEF ToSet
  <2> QED BY <2>1 DEF KeyTypes
<1>4. StoreTypes
  BY DEF StoreTypes
<1> QED BY <1>1, <1>2, <1>3, <1>4 DEF TypeInv

\* A send that tries again, or does not.
LEMMA AgainTypes ==
    ASSUME TypeInv, NEW s \in Sends, Again(s), UNCHANGED stopped
    PROVE  /\ SendTypes' /\ odd' \subseteq Befalls \X Sends /\ odd \subseteq odd'
           /\ \A p \in Sends : p # s => send'[p] = send[p]
           /\ send'[s].chunk = send[s].chunk /\ send'[s].at \in {"next", "failed"}
           /\ odd' \subseteq odd \cup {<<"again", s>>}
<1> DEFINE more == Chunked(s) /\ send[s].try < Tries
           old == send[s]
           next == [at |-> "next", chunk |-> old.chunk, try |-> old.try + 1]
           last == [at |-> "failed", chunk |-> old.chunk, try |-> old.try]
<1>1. old \in [at : Phases, chunk : Nat, try : Nat] /\ old.chunk \in 1..Len(Parts[s]) /\ old.try \in 1..Tries
  BY DEF TypeInv, SendTypes
<1>2. \A r \in [at : Phases, chunk : Nat, try : Nat] :
        [r EXCEPT !.at = "failed"] = [at |-> "failed", chunk |-> r.chunk, try |-> r.try]
  OBVIOUS
<1>3. send' = [send EXCEPT ![s] = IF more THEN next ELSE last]
  BY <1>1, <1>2 DEF Again
<1>4. odd' = IF more THEN Marked("again", {s}) ELSE odd
  BY DEF Again
<1>5. more => next \in [at : Phases, chunk : Nat, try : Nat] /\ next.try \in 1..Tries
  BY <1>1, PartsAre DEF Phases
<1>6. last \in [at : Phases, chunk : Nat, try : Nat]
  BY <1>1 DEF Phases
<1>7. Marked("again", {s}) = odd \cup {<<"again", s>>} /\ <<"again", s>> \in Befalls \X Sends
  BY DEF Marked, Befalls
<1>8. odd' \subseteq Befalls \X Sends /\ odd \subseteq odd' /\ odd' \subseteq odd \cup {<<"again", s>>}
  BY <1>4, <1>7 DEF TypeInv, StoreTypes
<1>9. next.at = "next" /\ next.chunk = old.chunk /\ last.at = "failed" /\ last.chunk = old.chunk /\ last.try = old.try
  OBVIOUS
<1> HIDE DEF next, last, more
<1>10. send'[s] = IF more THEN next ELSE last
  BY <1>3 DEF TypeInv, SendTypes
<1>11. \A p \in Sends : p # s => send'[p] = send[p]
  BY <1>3 DEF TypeInv, SendTypes
<1>12. send'[s].chunk = old.chunk /\ send'[s].at \in {"next", "failed"} /\ send'[s].try \in 1..Tries
  BY <1>1, <1>5, <1>9, <1>10
<1>13. send' \in [Sends -> [at : Phases, chunk : Nat, try : Nat]]
  BY <1>3, <1>5, <1>6 DEF TypeInv, SendTypes
<1>14. \A p \in Sends : send'[p].chunk \in 1..Len(Parts[p]) /\ send'[p].try \in 1..Tries
  BY <1>1, <1>11, <1>12 DEF TypeInv, SendTypes
<1> QED BY <1>8, <1>11, <1>12, <1>13, <1>14 DEF TypeInv, SendTypes

\* What a request turns into.
Turns(c, d, x, q) == d \in ServerCalls /\ d.of = c.of /\ d.chunk = c.chunk /\ d.at = x /\ d.read = q

LEMMA Turned ==
    ASSUME NEW c \in ServerCalls, NEW x \in Steps
    PROVE  /\ Turns(c, [c EXCEPT !.at = x], x, c.read)
           /\ \A q \in Seq(Handles) : Turns(c, [c EXCEPT !.at = x, !.read = q], x, q)
           /\ \A b \in BOOLEAN : Turns(c, [c EXCEPT !.at = x, !.staged = b], x, c.read)
<1> USE DEF ServerCalls, Turns
<1>1. Turns(c, [c EXCEPT !.at = x], x, c.read)
  OBVIOUS
<1>2. \A q \in Seq(Handles) : Turns(c, [c EXCEPT !.at = x, !.read = q], x, q)
  OBVIOUS
<1>3. \A b \in BOOLEAN : Turns(c, [c EXCEPT !.at = x, !.staged = b], x, c.read)
  OBVIOUS
<1> QED BY <1>1, <1>2, <1>3

------------------------------------------------------------------------------
(* The invariant.  A send whose requests never overlapped has one request   *)
(* at the server at most, and what is in its list can be told from where    *)
(* the send and that request are.                                           *)

Filled(s, k) == \A j \in 1..k : ToSet(Parts[s][j]) \subseteq ToSet(list[s])
Calm(s) == <<"overlap", s>> \notin odd

CallInv(c) ==
    /\ c.chunk = send[c.of].chunk
    /\ c.at = "push" => c.of \in staging
    /\ c.at \in {"merge", "read"} => c.of \in staging /\ Filled(c.of, Len(Parts[c.of]))
    /\ c.at \in {"clear", "store"} => <<"unread", c.of>> \in odd \/ Whole(c.of) \subseteq ToSet(c.read)
    /\ c.at = "ok" /\ c.chunk < Len(Parts[c.of]) /\ c.of \in staging => Filled(c.of, c.chunk)
SendInv(s) ==
    /\ s \in staging => Filled(s, send[s].chunk - 1)
    /\ \A c \in calls : c.of = s => CallInv(c)
    /\ \A c, d \in calls : c.of = s /\ d.of = s => c = d
CalmInv == \A s \in Sends : Calm(s) => SendInv(s)

\* Only the request with the last chunk merges and stores.
LastCall(c) ==
    /\ c.at \in {"merge", "read", "clear", "store"} => c.chunk = Len(Parts[c.of])
    /\ c.at = "ok" /\ c.chunk = Len(Parts[c.of]) => c.of \in ever
LastInv == \A c \in calls : LastCall(c)

\* Sends begin in their order, and only the newest goes on.
BegunInv ==
    /\ \A s, p \in Sends : send[s].at # "idle" /\ p < s => send[p].at # "idle"
    /\ \A s, p \in Sends : Live(s) /\ s \notin stopped /\ s < p => send[p].at = "idle"
    /\ \A c \in calls : send[c.of].at # "idle"
    /\ stored # None => send[stored.of].at # "idle"
LateInv ==
    \A c \in calls, p \in Sends :
        c.of < p /\ send[p].at # "idle" /\ c.chunk = Len(Parts[c.of]) => <<"late", c.of>> \in odd

Inv == TypeInv /\ CalmInv /\ LastInv /\ StoredIsWhole /\ BegunInv /\ LateInv

LEMMA InvInit == UploadInit => Inv
<1> SUFFICES ASSUME UploadInit PROVE Inv
  OBVIOUS
<1>1. TypeInv
  BY TypeInit
<1>2. CalmInv /\ LastInv
  BY DEF UploadInit, CalmInv, SendInv, LastInv
<1>3. StoredIsWhole
  BY DEF UploadInit, StoredIsWhole
<1>4. BegunInv /\ LateInv
  BY DEF UploadInit, BegunInv, LateInv, Live
<1> QED BY <1>1, <1>2, <1>3, <1>4 DEF Inv

\* A send none of whose keys and requests changed.
LEMMA Undisturbed ==
    ASSUME TypeInv, NEW s \in Sends, Calm(s) => SendInv(s), odd \subseteq odd',
           \A c \in calls' : c.of = s => c \in calls,
           list'[s] = list[s], s \in staging' <=> s \in staging, send'[s].chunk = send[s].chunk
    PROVE  (Calm(s) => SendInv(s))'
<1> SUFFICES ASSUME Calm(s)' PROVE SendInv(s)'
  OBVIOUS
<1>1. SendInv(s)
  BY DEF Calm
<1>2. \A k : Filled(s, k)' <=> Filled(s, k)
  BY DEF Filled
<1>3. (s \in staging => Filled(s, send[s].chunk - 1))'
  BY <1>1, <1>2 DEF SendInv, Filled
<1>4. ASSUME NEW c \in calls', c.of = s PROVE CallInv(c)'
  <2>1. c \in calls /\ CallInv(c)
    BY <1>1, <1>4 DEF SendInv
  <2>2. Filled(s, Len(Parts[s]))' <=> Filled(s, Len(Parts[s]))
    BY <1>2
  <2>3. Filled(s, c.chunk)' <=> Filled(s, c.chunk)
    BY <1>2
  <2> QED BY <1>4, <2>1, <2>2, <2>3 DEF CallInv
<1>5. \A c, d \in calls' : c.of = s /\ d.of = s => c = d
  BY <1>1 DEF SendInv
<1> QED BY <1>3, <1>4, <1>5 DEF SendInv

------------------------------------------------------------------------------
(* Steps of the plugin.  Most of them begin nothing and go no chunk further *)

Withdraws ==
    /\ SendTypes' /\ UNCHANGED <<staging, list, stored, ever>>
    /\ odd \subseteq odd' /\ odd' \subseteq Befalls \X Sends /\ calls' \subseteq calls
    /\ \A p \in Sends : /\ send'[p].chunk = send[p].chunk
                        /\ send'[p].at = "idle" <=> send[p].at = "idle"
                        /\ send'[p].at = "done" => send[p].at = "done"
                        /\ (Live(p) /\ p \notin stopped)' => Live(p) /\ p \notin stopped

LEMMA WithdrawsKeeps == Inv /\ Withdraws => Inv'
<1> SUFFICES ASSUME Inv, Withdraws PROVE Inv'
  OBVIOUS
<1> USE DEF Withdraws
<1>1. TypeInv'
  BY DEF Inv, TypeInv, CallTypes, KeyTypes, StoreTypes
<1>2. CalmInv'
  <2> SUFFICES ASSUME NEW s \in Sends PROVE (Calm(s) => SendInv(s))'
    BY DEF CalmInv
  <2> QED BY Undisturbed DEF Inv, CalmInv
<1>3. LastInv'
  BY DEF Inv, LastInv, LastCall
<1>4. StoredIsWhole'
  BY DEF Inv, StoredIsWhole
<1>5. BegunInv'
  BY DEF Inv, TypeInv, CallTypes, Typed, ServerCalls, StoreTypes, BegunInv
<1>6. LateInv'
  BY DEF Inv, LateInv
<1> QED BY <1>1, <1>2, <1>3, <1>4, <1>5, <1>6 DEF Inv

\* A send of which only where it is changes.
LEMMA AtTypes ==
    ASSUME TypeInv, NEW s \in Sends, NEW x \in Phases, send' = [send EXCEPT ![s].at = x],
           stopped' \subseteq Sends
    PROVE  /\ SendTypes' /\ send'[s].at = x /\ send'[s].chunk = send[s].chunk
           /\ send'[s].try = send[s].try /\ \A p \in Sends : p # s => send'[p] = send[p]
<1> DEFINE old == send[s]
           next == [at |-> x, chunk |-> old.chunk, try |-> old.try]
<1>1. old \in [at : Phases, chunk : Nat, try : Nat] /\ old.chunk \in 1..Len(Parts[s]) /\ old.try \in 1..Tries
  BY DEF TypeInv, SendTypes
<1>2. \A r \in [at : Phases, chunk : Nat, try : Nat] :
        [r EXCEPT !.at = x] = [at |-> x, chunk |-> r.chunk, try |-> r.try]
  OBVIOUS
<1>3. send' = [send EXCEPT ![s] = next]
  BY <1>1, <1>2
<1>4. next \in [at : Phases, chunk : Nat, try : Nat] /\ next.at = x /\ next.chunk = old.chunk /\ next.try = old.try
  BY <1>1
<1> HIDE DEF next
<1>5. send'[s] = next /\ \A p \in Sends : p # s => send'[p] = send[p]
  BY <1>3 DEF TypeInv, SendTypes
<1>6. send' \in [Sends -> [at : Phases, chunk : Nat, try : Nat]]
  BY <1>3, <1>4 DEF TypeInv, SendTypes
<1>7. \A p \in Sends : send'[p].chunk \in 1..Len(Parts[p]) /\ send'[p].try \in 1..Tries
  BY <1>1, <1>4, <1>5 DEF TypeInv, SendTypes
<1> QED BY <1>4, <1>5, <1>6, <1>7 DEF SendTypes

LEMMA CancelWithdraws == ASSUME TypeInv, NEW s \in Sends, Cancel(s) PROVE Withdraws
<1>1. SendTypes'
  BY DEF Cancel, TypeInv, SendTypes
<1> QED BY <1>1 DEF Cancel, Client, Withdraws, TypeInv, StoreTypes, Live

LEMMA StopsWithdraws == ASSUME TypeInv, NEW s \in Sends, Stops(s) PROVE Withdraws
<1>1. SendTypes' /\ send'[s].at = "stopped" /\ send'[s].chunk = send[s].chunk
      /\ \A p \in Sends : p # s => send'[p] = send[p]
  BY AtTypes DEF Stops, Phases, TypeInv, SendTypes
<1>2. UNCHANGED <<staging, list, stored, ever>> /\ odd' = odd /\ stopped' = stopped /\ calls' \subseteq calls
  BY DEF Stops, Client
<1>3. \A p \in Sends : /\ send'[p].chunk = send[p].chunk
                       /\ send'[p].at = "idle" <=> send[p].at = "idle"
                       /\ send'[p].at = "done" => send[p].at = "done"
                       /\ (Live(p) /\ p \notin stopped)' => Live(p) /\ p \notin stopped
  BY <1>1, <1>2 DEF Stops, Live
<1> QED BY <1>1, <1>2, <1>3 DEF Withdraws, TypeInv, StoreTypes

LEMMA BreaksWithdraws == ASSUME TypeInv, NEW s \in Sends, Breaks(s) PROVE Withdraws
<1>1. SendTypes' /\ send'[s].at = "failed" /\ send'[s].chunk = send[s].chunk
      /\ \A p \in Sends : p # s => send'[p] = send[p]
  BY AtTypes DEF Breaks, Phases, TypeInv, SendTypes
<1>2. UNCHANGED <<staging, list, stored, ever>> /\ odd' = odd /\ stopped' = stopped /\ calls' \subseteq calls
  BY DEF Breaks, Client
<1>3. \A p \in Sends : /\ send'[p].chunk = send[p].chunk
                       /\ send'[p].at = "idle" <=> send[p].at = "idle"
                       /\ send'[p].at = "done" => send[p].at = "done"
                       /\ (Live(p) /\ p \notin stopped)' => Live(p) /\ p \notin stopped
  BY <1>1, <1>2 DEF Breaks, Live
<1> QED BY <1>1, <1>2, <1>3 DEF Withdraws, TypeInv, StoreTypes

\* A send that waits for an answer and tries again, or gives up.
LEMMA AgainWithdraws ==
    ASSUME TypeInv, NEW s \in Sends, send[s].at = "posts", Again(s), UNCHANGED stopped,
           calls' \subseteq calls, Client(s)
    PROVE  Withdraws
<1>1. /\ SendTypes' /\ odd' \subseteq Befalls \X Sends /\ odd \subseteq odd'
      /\ \A p \in Sends : p # s => send'[p] = send[p]
      /\ send'[s].chunk = send[s].chunk /\ send'[s].at \in {"next", "failed"}
  BY AgainTypes
<1>2. \A p \in Sends : /\ send'[p].chunk = send[p].chunk
                       /\ send'[p].at = "idle" <=> send[p].at = "idle"
                       /\ send'[p].at = "done" => send[p].at = "done"
                       /\ (Live(p) /\ p \notin stopped)' => Live(p) /\ p \notin stopped
  BY <1>1 DEF Live
<1> QED BY <1>1, <1>2 DEF Withdraws, Client

LEMMA RefusedWithdraws == ASSUME TypeInv, NEW s \in Sends, Refused(s) PROVE Withdraws
<1>1. send[s].at = "posts" /\ calls' \subseteq calls /\ Again(s) /\ UNCHANGED stopped /\ Client(s)
  BY DEF Refused, Awaited
<1> QED BY <1>1, AgainWithdraws

LEMMA TimesOutWithdraws == ASSUME TypeInv, NEW s \in Sends, TimesOut(s) PROVE Withdraws
<1>1. send[s].at = "posts" /\ calls' \subseteq calls /\ Again(s) /\ UNCHANGED stopped /\ Client(s)
  BY DEF TimesOut
<1> QED BY <1>1, AgainWithdraws

\* A newer send begins.
LEMMA StartKeeps == ASSUME Inv, NEW s \in Sends, Start(s) PROVE Inv'
<1> USE DEF Inv
<1>1. /\ SendTypes' /\ send'[s].at = "next" /\ send'[s].chunk = send[s].chunk
      /\ \A p \in Sends : p # s => send'[p] = send[p]
  BY AtTypes DEF Start, Phases, TypeInv, SendTypes
<1>2. UNCHANGED <<staging, list, stored, ever, calls>> /\ stopped' = stopped \cup {p \in Sends : Live(p)}
  BY DEF Start, Client
<1>3. send[s].at = "idle" /\ \A p \in Sends : p < s => send[p].at # "idle"
  BY PartsAre DEF Start
<1>4. odd' = odd \cup {<<"late", p>> : p \in {c.of : c \in {d \in calls : d.chunk = Len(Parts[d.of])}}}
  BY DEF Start, Marked
<1>5. odd \subseteq odd' /\ odd' \subseteq Befalls \X Sends
  BY <1>4 DEF TypeInv, StoreTypes, CallTypes, Typed, ServerCalls, Befalls
<1>6. TypeInv'
  BY <1>1, <1>2, <1>5 DEF TypeInv, CallTypes, KeyTypes, StoreTypes
<1>7. CalmInv'
  <2> SUFFICES ASSUME NEW p \in Sends PROVE (Calm(p) => SendInv(p))'
    BY DEF CalmInv
  <2>1. send'[p].chunk = send[p].chunk
    BY <1>1
  <2> QED BY <1>2, <1>5, <2>1, Undisturbed DEF CalmInv
<1>8. LastInv'
  BY <1>2 DEF LastInv, LastCall
<1>9. StoredIsWhole'
  BY <1>1, <1>2, <1>5 DEF StoredIsWhole
<1>10. BegunInv'
  <2>1. \A p, q \in Sends : send'[p].at # "idle" /\ q < p => send'[q].at # "idle"
    BY <1>1, <1>3, PartsAre DEF BegunInv
  <2>2. ASSUME NEW p \in Sends, NEW q \in Sends, (Live(p) /\ p \notin stopped)', p < q
        PROVE  send'[q].at = "idle"
    <3>1. p = s
      BY <1>1, <1>2, <2>2 DEF Live
    <3>2. send[q].at = "idle"
      BY <1>3, <2>2, <3>1 DEF BegunInv
    <3> QED BY <1>1, <2>2, <3>1, <3>2, PartsAre
  <2>3. \A p \in Sends : send[p].at # "idle" => send'[p].at # "idle"
    BY <1>1
  <2> QED BY <1>2, <2>1, <2>2, <2>3 DEF BegunInv, TypeInv, CallTypes, Typed, ServerCalls, StoreTypes
<1>11. LateInv'
  BY <1>2, <1>4 DEF LateInv
<1> QED BY <1>6, <1>7, <1>8, <1>9, <1>10, <1>11

\* A request leaves.
LEMMA PostKeeps == ASSUME Inv, NEW s \in Sends, Post(s) PROVE Inv'
<1> USE DEF Inv
<1>0. PICK new : new = [of |-> s, chunk |-> send[s].chunk, try |-> send[s].try,
                        at |-> "enter", staged |-> FALSE, read |-> <<>>]
  OBVIOUS
<1>1. /\ SendTypes' /\ send'[s].at = "posts" /\ send'[s].chunk = send[s].chunk
      /\ \A p \in Sends : p # s => send'[p] = send[p]
  BY AtTypes DEF Post, Phases, TypeInv, SendTypes
<1>2. calls' = calls \cup {new} /\ UNCHANGED <<staging, list, stored, ever, stopped>>
  BY <1>0 DEF Post, Client
<1>3. send[s].at = "next" /\ s \notin stopped
  BY DEF Post
<1>4. odd' = IF \E c \in calls : c.of = s THEN odd \cup {<<"overlap", s>>} ELSE odd
  BY DEF Post, Marked
<1>5. odd \subseteq odd' /\ odd' \subseteq Befalls \X Sends
  BY <1>4 DEF TypeInv, StoreTypes, Befalls
<1>6. Typed(new) /\ new.of = s /\ new.chunk = send[s].chunk /\ new.at = "enter"
  <2>1. send[s].chunk \in 1..Len(Parts[s]) /\ send[s].chunk \in Nat /\ send[s].try \in Nat
    BY DEF TypeInv, SendTypes
  <2>2. <<>> \in Seq(Handles) /\ ToSet(<<>>) = {}
    BY DEF ToSet
  <2> QED BY <1>0, <2>1, <2>2 DEF Typed, ServerCalls, Steps
<1>7. TypeInv'
  BY <1>1, <1>2, <1>5, <1>6 DEF TypeInv, CallTypes, KeyTypes, StoreTypes
<1>8. CalmInv'
  <2>1. ASSUME NEW p \in Sends, p # s PROVE (Calm(p) => SendInv(p))'
    <3>1. send'[p].chunk = send[p].chunk /\ \A c \in calls' : c.of = p => c \in calls
      BY <1>1, <1>2, <1>6, <2>1
    <3> QED BY <1>2, <1>5, <3>1, Undisturbed DEF CalmInv
  <2>2. ASSUME Calm(s)' PROVE SendInv(s)'
    <3>1. \A c \in calls : c.of # s
      BY <1>4, <2>2 DEF Calm
    <3>2. SendInv(s)
      BY <1>5, <2>2 DEF Calm, CalmInv
    <3>3. CallInv(new)'
      BY <1>1, <1>6 DEF CallInv
    <3>4. (s \in staging => Filled(s, send[s].chunk - 1))'
      BY <1>1, <1>2, <3>2 DEF SendInv, Filled
    <3> QED BY <1>2, <1>6, <3>1, <3>3, <3>4 DEF SendInv
  <2> QED BY <2>1, <2>2 DEF CalmInv
<1>9. LastInv'
  BY <1>2, <1>6 DEF LastInv, LastCall
<1>10. StoredIsWhole'
  BY <1>1, <1>2, <1>5 DEF StoredIsWhole
<1>11. BegunInv'
  <2>1. \A p \in Sends : send'[p].at = "idle" <=> send[p].at = "idle"
    BY <1>1, <1>3
  <2>2. \A p \in Sends : (Live(p) /\ p \notin stopped)' => Live(p) /\ p \notin stopped
    BY <1>1, <1>2, <1>3 DEF Live
  <2>3. send'[s].at # "idle"
    BY <1>1
  <2>4. (\A p, q \in Sends : Live(p) /\ p \notin stopped /\ p < q => send[q].at = "idle")'
    BY <2>1, <2>2 DEF BegunInv
  <2> QED BY <1>2, <1>6, <2>1, <2>3, <2>4 DEF BegunInv, TypeInv, CallTypes, Typed, ServerCalls, StoreTypes
<1>12. LateInv'
  <2>1. \A p \in Sends : send'[p].at = "idle" <=> send[p].at = "idle"
    BY <1>1, <1>3
  <2>2. \A p \in Sends : s < p => send'[p].at = "idle"
    BY <1>3, <2>1 DEF BegunInv, Live
  <2> QED BY <1>2, <1>5, <1>6, <2>1, <2>2 DEF LateInv
<1> QED BY <1>7, <1>8, <1>9, <1>10, <1>11, <1>12

\* The answer a send waited for: it goes on to the next chunk, or is done.
LEMMA AnsweredKeeps == ASSUME Inv, NEW s \in Sends, Answered(s) PROVE Inv'
<1> USE DEF Inv
<1>1. PICK c \in Awaited(s) :
        /\ c.at = "ok" /\ calls' = calls \ {c}
        /\ send' = [send EXCEPT ![s] =
                IF c.chunk = Len(Parts[s]) THEN [send[s] EXCEPT !.at = "done"]
                ELSE [at |-> "next", chunk |-> send[s].chunk + 1, try |-> 1]]
        /\ UNCHANGED <<stopped, odd>>
  BY DEF Answered
<1>2. UNCHANGED <<staging, list, stored, ever>>
  BY DEF Answered, Client
<1>3. c \in calls /\ c.of = s /\ c.chunk = send[s].chunk /\ send[s].at = "posts" /\ Typed(c)
  BY DEF Awaited, TypeInv, CallTypes
<1>4. /\ SendTypes' /\ send'[s].at = IF c.chunk = Len(Parts[s]) THEN "done" ELSE "next"
      /\ send'[s].chunk = IF c.chunk = Len(Parts[s]) THEN c.chunk ELSE c.chunk + 1
      /\ \A p \in Sends : p # s => send'[p] = send[p]
  <2>1. CASE c.chunk = Len(Parts[s])
    <3>1. send' = [send EXCEPT ![s].at = "done"]
      BY <1>1, <2>1
    <3> QED BY <1>1, <1>3, <2>1, <3>1, AtTypes DEF Phases, TypeInv, SendTypes
  <2>2. CASE c.chunk # Len(Parts[s])
    <3> DEFINE next == [at |-> "next", chunk |-> c.chunk + 1, try |-> 1]
    <3>1. send' = [send EXCEPT ![s] = next]
      BY <1>1, <1>3, <2>2
    <3>2. next \in [at : Phases, chunk : Nat, try : Nat] /\ next.chunk \in 1..Len(Parts[s]) /\ next.try \in 1..Tries
      BY <1>3, <2>2, PartsAre DEF Typed, Phases
    <3>3. next.at = "next" /\ next.chunk = c.chunk + 1
      OBVIOUS
    <3> HIDE DEF next
    <3>4. send'[s] = next /\ \A p \in Sends : p # s => send'[p] = send[p]
      BY <3>1 DEF TypeInv, SendTypes
    <3>5. send' \in [Sends -> [at : Phases, chunk : Nat, try : Nat]]
      BY <3>1, <3>2 DEF TypeInv, SendTypes
    <3>6. SendTypes'
      BY <1>1, <3>2, <3>4, <3>5 DEF TypeInv, SendTypes
    <3> QED BY <2>2, <3>3, <3>4, <3>6
  <2> QED BY <2>1, <2>2
<1>5. TypeInv'
  BY <1>1, <1>2, <1>4 DEF TypeInv, CallTypes, KeyTypes, StoreTypes
<1>6. CalmInv'
  <2>1. ASSUME NEW p \in Sends, p # s PROVE (Calm(p) => SendInv(p))'
    <3>1. send'[p].chunk = send[p].chunk
      BY <1>4, <2>1
    <3> QED BY <1>1, <1>2, <3>1, Undisturbed DEF CalmInv
  <2>2. ASSUME Calm(s)' PROVE SendInv(s)'
    <3>1. SendInv(s)
      BY <1>1, <2>2 DEF Calm, CalmInv
    <3>2. \A d \in calls' : d.of # s
      BY <1>1, <1>3, <3>1 DEF SendInv
    <3>3. ASSUME s \in staging PROVE Filled(s, send'[s].chunk - 1)
      <4>1. CASE c.chunk = Len(Parts[s])
        BY <1>3, <1>4, <3>1, <3>3, <4>1 DEF SendInv
      <4>2. CASE c.chunk # Len(Parts[s])
        <5>1. c.chunk < Len(Parts[s])
          BY <1>3, <4>2, PartsAre DEF Typed
        <5>2. Filled(s, c.chunk)
          BY <1>1, <1>3, <3>1, <3>3, <5>1 DEF SendInv, CallInv
        <5>3. send'[s].chunk - 1 = c.chunk
          BY <1>3, <1>4, <4>2 DEF Typed, ServerCalls
        <5> QED BY <5>2, <5>3
      <4> QED BY <4>1, <4>2
    <3> QED BY <1>2, <3>2, <3>3 DEF SendInv, Filled
  <2> QED BY <2>1, <2>2 DEF CalmInv
<1>7. LastInv'
  BY <1>1, <1>2 DEF LastInv, LastCall
<1>8. StoredIsWhole'
  <2>1. c.chunk = Len(Parts[s]) => s \in ever
    BY <1>1, <1>3 DEF LastInv, LastCall
  <2> QED BY <1>1, <1>2, <1>4, <2>1 DEF StoredIsWhole
<1>9. \A p \in Sends : /\ send'[p].at = "idle" <=> send[p].at = "idle"
                       /\ (Live(p) /\ p \notin stopped)' => Live(p) /\ p \notin stopped
  BY <1>1, <1>3, <1>4 DEF Live
<1>10. BegunInv'
  BY <1>1, <1>2, <1>9 DEF BegunInv, TypeInv, CallTypes, Typed, ServerCalls, StoreTypes
<1>11. LateInv'
  BY <1>1, <1>9 DEF LateInv
<1> QED BY <1>5, <1>6, <1>7, <1>8, <1>10, <1>11

------------------------------------------------------------------------------
(* Steps of the server: the request c becomes d, or its answer is lost.     *)

Served(c, d) ==
    /\ Typed(d) /\ d.of = c.of /\ d.chunk = c.chunk /\ calls' \subseteq (calls \ {c}) \cup {d}
    /\ UNCHANGED <<send, stopped>> /\ KeyTypes'
    /\ \A p \in Sends \ {c.of} : list'[p] = list[p] /\ (p \in staging' <=> p \in staging)
    /\ odd \subseteq odd' /\ odd' \subseteq Befalls \X Sends /\ ever \subseteq ever' /\ ever' \subseteq Sends
    /\ stored' # stored => c.at = "store" /\ stored' = [of |-> c.of, list |-> c.read]
    /\ Calm(c.of) /\ SendInv(c.of) =>
          (c.of \in staging => Filled(c.of, send[c.of].chunk - 1))' /\ CallInv(d)'
    /\ LastCall(d)'

LEMMA ServedKeeps == ASSUME Inv, NEW c \in calls, NEW d, Served(c, d) PROVE Inv'
<1> USE DEF Inv, Served
<1>1. Typed(c) /\ c.of \in Sends
  BY DEF TypeInv, CallTypes, Typed, ServerCalls
<1>2. stored' # stored => stored'.of = c.of /\ stored'.list = c.read /\ c.at = "store"
  OBVIOUS
<1>3. TypeInv'
  BY <1>1, <1>2 DEF TypeInv, SendTypes, CallTypes, StoreTypes
<1>4. CalmInv'
  <2>1. ASSUME NEW p \in Sends, p # c.of PROVE (Calm(p) => SendInv(p))'
    <3>1. \A e \in calls' : e.of = p => e \in calls
      BY <2>1
    <3>2. send'[p].chunk = send[p].chunk
      OBVIOUS
    <3> QED BY <2>1, <3>1, <3>2, Undisturbed DEF CalmInv
  <2>2. ASSUME Calm(c.of)' PROVE SendInv(c.of)'
    <3>1. Calm(c.of) /\ SendInv(c.of)
      BY <1>1, <2>2 DEF Calm, CalmInv
    <3>2. \A e \in calls' : e.of = c.of => e = d
      BY <3>1 DEF SendInv
    <3>3. (c.of \in staging => Filled(c.of, send[c.of].chunk - 1))' /\ CallInv(d)'
      BY <3>1
    <3> HIDE DEF Served
    <3> QED BY <3>2, <3>3 DEF SendInv
  <2> QED BY <1>1, <2>1, <2>2 DEF CalmInv
<1>5. LastInv'
  BY DEF LastInv, LastCall
<1>6. StoredIsWhole'
  <2>1. ASSUME stored' # stored
        PROVE  <<"overlap", c.of>> \in odd' \/ <<"unread", c.of>> \in odd' \/ ToSet(c.read) = Whole(c.of)
    <3>1. Calm(c.of) => CallInv(c)
      BY <1>1 DEF CalmInv, SendInv
    <3> QED BY <1>1, <1>2, <2>1, <3>1 DEF Typed, CallInv, Calm
  <2>2. \A s \in Sends : send'[s].at = "done" => s \in ever'
    BY DEF StoredIsWhole
  <2> QED BY <1>2, <2>1, <2>2 DEF StoredIsWhole
<1>7. BegunInv'
  <2>1. \A e \in calls' : send'[e.of].at # "idle"
    BY DEF BegunInv
  <2>2. (stored # None => send[stored.of].at # "idle")'
    BY <1>2 DEF BegunInv
  <2> QED BY <2>1, <2>2 DEF BegunInv, Live
<1>8. LateInv'
  BY DEF LateInv
<1> QED BY <1>3, <1>4, <1>5, <1>6, <1>7, <1>8

\* A drawing that is stored over one of a newer send came with a late request.
LEMMA ServedForward ==
    ASSUME Inv, NEW c \in calls, NEW d, Served(c, d), stored' # stored, stored # None,
           stored'.of < stored.of
    PROVE  <<"late", stored'.of>> \in odd
<1> USE DEF Inv, Served
<1>1. stored'.of = c.of /\ c.at = "store"
  OBVIOUS
<1>2. c.chunk = Len(Parts[c.of])
  BY <1>1 DEF LastInv, LastCall
<1>3. stored.of \in Sends /\ send[stored.of].at # "idle"
  BY DEF BegunInv, TypeInv, StoreTypes
<1> QED BY <1>1, <1>2, <1>3 DEF LateInv

\* The part all the steps have in common.
LEMMA ServedAs ==
    ASSUME Inv, NEW c \in calls, NEW d, NEW x, NEW q, Turns(c, d, x, q), ToSet(q) \subseteq Whole(c.of),
           Becomes(c, d), Server, KeyTypes',
           \A p \in Sends \ {c.of} : list'[p] = list[p] /\ (p \in staging' <=> p \in staging),
           odd \subseteq odd', odd' \subseteq Befalls \X Sends, ever \subseteq ever', ever' \subseteq Sends,
           stored' # stored => c.at = "store" /\ stored' = [of |-> c.of, list |-> c.read],
           Calm(c.of) /\ SendInv(c.of) =>
              (c.of \in staging => Filled(c.of, send[c.of].chunk - 1))' /\ CallInv(d)',
           LastCall(d)'
    PROVE  Served(c, d)
<1>1. Typed(c)
  BY DEF Inv, TypeInv, CallTypes
<1>2. Typed(d) /\ d.of = c.of /\ d.chunk = c.chunk
  BY <1>1 DEF Turns, Typed
<1>3. calls' \subseteq (calls \ {c}) \cup {d} /\ UNCHANGED <<send, stopped>>
  BY DEF Becomes, Server
<1> QED BY <1>2, <1>3 DEF Served

\* What a request at the server is, and what its send keeps when no key changes.
LEMMA RequestIs ==
    ASSUME Inv, NEW c \in calls
    PROVE  /\ Typed(c) /\ c \in ServerCalls /\ c.of \in Sends /\ c.read \in Seq(Handles)
           /\ c.chunk \in 1..Len(Parts[c.of]) /\ Len(Parts[c.of]) \in Nat \ {0} /\ LastCall(c)
           /\ SendInv(c.of) => CallInv(c) /\ c.chunk = send[c.of].chunk
           /\ odd \subseteq Befalls \X Sends /\ ever \subseteq Sends
<1>1. Typed(c) /\ LastCall(c)
  BY DEF Inv, TypeInv, CallTypes, LastInv
<1>2. c.of \in Sends /\ c.read \in Seq(Handles)
  BY <1>1 DEF Typed, ServerCalls
<1>3. SendInv(c.of) => CallInv(c) /\ c.chunk = send[c.of].chunk
  BY DEF SendInv, CallInv
<1> QED BY <1>1, <1>2, <1>3, PartsAre DEF Typed, Inv, TypeInv, StoreTypes

LEMMA KeysStay ==
    ASSUME Inv, NEW s \in Sends, UNCHANGED <<staging, list, send>>
    PROVE  /\ KeyTypes' /\ \A p \in Sends : list'[p] = list[p] /\ (p \in staging' <=> p \in staging)
           /\ \A k : Filled(s, k)' <=> Filled(s, k)
           /\ SendInv(s) => (s \in staging => Filled(s, send[s].chunk - 1))'
BY DEF Inv, TypeInv, KeyTypes, Filled, SendInv

LEMMA EnterServed == ASSUME Inv, NEW c \in calls, Enter(c) PROVE \E d : Served(c, d)
<1>1. /\ c \in ServerCalls /\ c.of \in Sends /\ c.chunk \in 1..Len(Parts[c.of]) /\ Len(Parts[c.of]) \in Nat \ {0}
      /\ SendInv(c.of) => CallInv(c) /\ c.chunk = send[c.of].chunk
      /\ odd \subseteq Befalls \X Sends /\ ever \subseteq Sends /\ ToSet(c.read) \subseteq Whole(c.of)
  BY RequestIs DEF Typed
<1>2. UNCHANGED <<list, stored, ever, odd>> /\ Server /\ UNCHANGED send
  BY DEF Enter, Server
<1>3. CASE ~Chunked(c.of) /\ Becomes(c, [c EXCEPT !.at = "store", !.read = Parts[c.of][1]]) /\ UNCHANGED staging
  <2> DEFINE d == [c EXCEPT !.at = "store", !.read = Parts[c.of][1]]
             q == Parts[c.of][1]
  <2>1. Len(Parts[c.of]) = 1 /\ c.chunk = 1 /\ DOMAIN Parts[c.of] = 1..1
    <3>1. DOMAIN Parts[c.of] = 1..Len(Parts[c.of])
      BY <1>1, PartsAre
    <3>2. ~Chunked(c.of)
      BY <1>3
    <3>3. Len(Parts[c.of]) \in Nat \ {0} /\ ~(Len(Parts[c.of]) > 1)
      BY <1>1, <3>2 DEF Chunked
    <3>4. ASSUME NEW n \in Nat \ {0}, ~(n > 1) PROVE n = 1
      BY <3>4
    <3>5. Len(Parts[c.of]) = 1
      BY <3>3, <3>4, Zenon
    <3> QED BY <1>1, <3>1, <3>5
  <2>2. Whole(c.of) = ToSet(q) /\ q \in Seq(Handles)
    BY <1>1, <2>1, PartsAre DEF Whole
  <2>3. Turns(c, d, "store", q)
    BY <1>1, <2>2, Turned DEF Steps
  <2> HIDE DEF d, q
  <2>4. LastCall(d)'
    BY <2>1, <2>3 DEF LastCall, Turns
  <2>5. SendInv(c.of) => CallInv(d)'
    BY <1>1, <1>2, <2>2, <2>3 DEF CallInv, Turns
  <2>6. Becomes(c, d)
    BY <1>3 DEF d
  <2> QED BY <1>1, <1>2, <1>3, <2>2, <2>3, <2>4, <2>5, <2>6, KeysStay, ServedAs
<1>4. CASE c.chunk = 1 /\ Goes(c, "push") /\ staging' = staging \cup {c.of}
  <2> DEFINE d == [c EXCEPT !.at = "push"]
  <2>1. Turns(c, d, "push", c.read) /\ Becomes(c, d)
    BY <1>1, <1>4, Turned DEF Steps, Goes
  <2> HIDE DEF d
  <2>2. LastCall(d)'
    BY <2>1 DEF LastCall, Turns
  <2>3. SendInv(c.of) => CallInv(d)'
    BY <1>1, <1>2, <1>4, <2>1 DEF CallInv, Turns
  <2>4. SendInv(c.of) => (c.of \in staging => Filled(c.of, send[c.of].chunk - 1))'
    BY <1>1, <1>2, <1>4 DEF Filled
  <2>5. KeyTypes' /\ \A p \in Sends \ {c.of} : list'[p] = list[p] /\ (p \in staging' <=> p \in staging)
    BY <1>1, <1>2, <1>4 DEF Inv, TypeInv, KeyTypes
  <2> QED BY <1>1, <1>2, <2>1, <2>2, <2>3, <2>4, <2>5, ServedAs
<1>5. CASE Goes(c, IF c.of \in staging THEN "push" ELSE "fail") /\ UNCHANGED staging
  <2> DEFINE x == IF c.of \in staging THEN "push" ELSE "fail"
  <2>1. PICK d : Turns(c, d, x, c.read) /\ Becomes(c, d)
    BY <1>1, <1>5, Turned DEF Steps, Goes
  <2>2. LastCall(d)'
    BY <2>1 DEF LastCall, Turns
  <2>3. SendInv(c.of) => CallInv(d)'
    BY <1>1, <1>2, <1>5, <2>1 DEF CallInv, Turns
  <2> QED BY <1>1, <1>2, <1>5, <2>1, <2>2, <2>3, KeysStay, ServedAs
<1>6. CASE Goes(c, "fail") /\ UNCHANGED staging
  <2> DEFINE d == [c EXCEPT !.at = "fail"]
  <2>1. Turns(c, d, "fail", c.read) /\ Becomes(c, d)
    BY <1>1, <1>6, Turned DEF Steps, Goes
  <2> HIDE DEF d
  <2>2. LastCall(d)'
    BY <2>1 DEF LastCall, Turns
  <2>3. SendInv(c.of) => CallInv(d)'
    BY <1>1, <1>2, <1>6, <2>1 DEF CallInv, Turns
  <2> QED BY <1>1, <1>2, <1>6, <2>1, <2>2, <2>3, KeysStay, ServedAs
<1> QED BY <1>3, <1>4, <1>5, <1>6 DEF Enter

LEMMA PushServed == ASSUME Inv, NEW c \in calls, Push(c) PROVE \E d : Served(c, d)
<1>1. /\ c \in ServerCalls /\ c.of \in Sends /\ c.chunk \in 1..Len(Parts[c.of]) /\ Len(Parts[c.of]) \in Nat \ {0}
      /\ SendInv(c.of) => CallInv(c) /\ c.chunk = send[c.of].chunk
      /\ odd \subseteq Befalls \X Sends /\ ever \subseteq Sends /\ ToSet(c.read) \subseteq Whole(c.of)
  BY RequestIs DEF Typed
<1>2. UNCHANGED <<staging, stored, ever, odd>> /\ Server /\ UNCHANGED send /\ c.at = "push"
  BY DEF Push, Server
<1>3. /\ list[c.of] \in Seq(Handles) /\ ToSet(list[c.of]) \subseteq Whole(c.of)
      /\ Parts[c.of][c.chunk] \in Seq(Handles) /\ ToSet(Parts[c.of][c.chunk]) \subseteq Whole(c.of)
  BY <1>1, PartsAre DEF Inv, TypeInv, KeyTypes
<1>4. ASSUME NEW r \in Seq(Handles), ToSet(r) \subseteq ToSet(Parts[c.of][c.chunk]),
             list' = [list EXCEPT ![c.of] = list[c.of] \o r]
      PROVE  /\ KeyTypes' /\ \A p \in Sends \ {c.of} : list'[p] = list[p] /\ (p \in staging' <=> p \in staging)
             /\ ToSet(list'[c.of]) = ToSet(list[c.of]) \cup ToSet(r)
             /\ \A k : Filled(c.of, k) => Filled(c.of, k)'
  <2>1. PICK q : q = list[c.of] \o r
    OBVIOUS
  <2>2. q \in Seq(Handles) /\ ToSet(q) = ToSet(list[c.of]) \cup ToSet(r)
    BY <1>3, <2>1, ToSetConcat
  <2>3. list' = [list EXCEPT ![c.of] = q] /\ ToSet(q) \subseteq Whole(c.of)
    BY <1>3, <1>4, <2>1, <2>2
  <2>4. list'[c.of] = q /\ \A p \in Sends \ {c.of} : list'[p] = list[p]
    BY <1>1, <2>3 DEF Inv, TypeInv, KeyTypes
  <2>5. KeyTypes'
    BY <1>2, <2>2, <2>3, <2>4 DEF Inv, TypeInv, KeyTypes
  <2> QED BY <1>2, <2>2, <2>4, <2>5 DEF Filled
<1>5. SendInv(c.of) => c.of \in staging /\ Filled(c.of, c.chunk - 1)
  BY <1>1, <1>2 DEF SendInv, CallInv
<1>6. CASE /\ list' = [list EXCEPT ![c.of] = list[c.of] \o Parts[c.of][c.chunk]]
           /\ Goes(c, IF c.chunk < Len(Parts[c.of]) THEN "ok" ELSE "merge")
  <2> DEFINE x == IF c.chunk < Len(Parts[c.of]) THEN "ok" ELSE "merge"
  <2>1. PICK d : Turns(c, d, x, c.read) /\ Becomes(c, d)
    BY <1>1, <1>6, Turned DEF Steps, Goes
  <2>2. /\ KeyTypes' /\ \A p \in Sends \ {c.of} : list'[p] = list[p] /\ (p \in staging' <=> p \in staging)
        /\ ToSet(list'[c.of]) = ToSet(list[c.of]) \cup ToSet(Parts[c.of][c.chunk])
        /\ \A k : Filled(c.of, k) => Filled(c.of, k)'
    BY <1>3, <1>4, <1>6
  <2>3. LastCall(d)'
    BY <1>1, <2>1 DEF LastCall, Turns
  <2>4. SendInv(c.of) => (c.of \in staging => Filled(c.of, send[c.of].chunk - 1))' /\ Filled(c.of, c.chunk)'
    <3>1. SendInv(c.of) => Filled(c.of, c.chunk - 1)'
      BY <1>5, <2>2
    <3>2. ASSUME NEW j \in 1..c.chunk PROVE j \in 1..(c.chunk - 1) \/ j = c.chunk
      BY <1>1
    <3>3. SendInv(c.of) => Filled(c.of, c.chunk)'
      BY <2>2, <3>1, <3>2 DEF Filled
    <3> QED BY <1>1, <1>2, <3>1, <3>3
  <2>5. SendInv(c.of) => CallInv(d)'
    <3>1. ~(c.chunk < Len(Parts[c.of])) => c.chunk = Len(Parts[c.of])
      BY <1>1
    <3> QED BY <1>1, <1>2, <1>5, <2>1, <2>4, <3>1 DEF CallInv, Turns
  <2> QED BY <1>1, <1>2, <2>1, <2>2, <2>3, <2>4, <2>5, ServedAs
<1>7. ASSUME NEW n \in 0..Len(Parts[c.of][c.chunk]), Goes(c, "fail"),
             list' = [list EXCEPT ![c.of] = list[c.of] \o SubSeq(Parts[c.of][c.chunk], 1, n)]
      PROVE  \E d : Served(c, d)
  <2> DEFINE d == [c EXCEPT !.at = "fail"]
  <2>1. Turns(c, d, "fail", c.read) /\ Becomes(c, d)
    BY <1>1, <1>7, Turned DEF Steps, Goes
  <2> HIDE DEF d
  <2>2. PICK r : r = SubSeq(Parts[c.of][c.chunk], 1, n)
    OBVIOUS
  <2>3. r \in Seq(Handles) /\ ToSet(r) \subseteq ToSet(Parts[c.of][c.chunk])
    BY <1>3, <2>2, ToSetPrefix
  <2>4. /\ KeyTypes' /\ \A p \in Sends \ {c.of} : list'[p] = list[p] /\ (p \in staging' <=> p \in staging)
        /\ \A k : Filled(c.of, k) => Filled(c.of, k)'
    BY <1>4, <1>7, <2>2, <2>3
  <2>5. LastCall(d)'
    BY <2>1 DEF LastCall, Turns
  <2>6. SendInv(c.of) => CallInv(d)'
    BY <1>1, <1>2, <2>1 DEF CallInv, Turns
  <2>7. SendInv(c.of) => (c.of \in staging => Filled(c.of, send[c.of].chunk - 1))'
    <3>1. SendInv(c.of) => Filled(c.of, c.chunk - 1)'
      BY <1>5, <2>4
    <3> QED BY <1>1, <1>2, <3>1
  <2> QED BY <1>1, <1>2, <2>1, <2>4, <2>5, <2>6, <2>7, ServedAs
<1> QED BY <1>6, <1>7 DEF Push

LEMMA MergeServed == ASSUME Inv, NEW c \in calls, Merge(c) PROVE \E d : Served(c, d)
<1>1. /\ c \in ServerCalls /\ c.of \in Sends /\ c.chunk \in 1..Len(Parts[c.of]) /\ Len(Parts[c.of]) \in Nat \ {0}
      /\ SendInv(c.of) => CallInv(c) /\ c.chunk = send[c.of].chunk
      /\ odd \subseteq Befalls \X Sends /\ ever \subseteq Sends /\ ToSet(c.read) \subseteq Whole(c.of)
      /\ LastCall(c)
  BY RequestIs DEF Typed
<1>2. UNCHANGED <<staging, list, stored, ever, odd>> /\ Server /\ UNCHANGED send /\ c.at = "merge"
  BY DEF Merge, Server
<1>3. PICK d : Turns(c, d, "read", c.read) /\ Becomes(c, d)
  <2>1. CASE Becomes(c, [c EXCEPT !.at = "read", !.staged = c.of \in staging])
    <3>1. (c.of \in staging) \in BOOLEAN
      OBVIOUS
    <3>2. \A b \in BOOLEAN : Turns(c, [c EXCEPT !.at = "read", !.staged = b], "read", c.read)
      BY <1>1, Turned DEF Steps
    <3>3. Turns(c, [c EXCEPT !.at = "read", !.staged = c.of \in staging], "read", c.read)
      BY <3>1, <3>2, Zenon
    <3> QED BY <2>1, <3>3
  <2>2. CASE Becomes(c, [c EXCEPT !.at = "read"])
    BY <1>1, <2>2, Turned DEF Steps
  <2> QED BY <2>1, <2>2 DEF Merge, Goes
<1>4. LastCall(d)'
  BY <1>1, <1>2, <1>3 DEF LastCall, Turns
<1>5. SendInv(c.of) => CallInv(d)'
  BY <1>1, <1>2, <1>3, KeysStay DEF CallInv, Turns
<1> QED BY <1>1, <1>2, <1>3, <1>4, <1>5, KeysStay, ServedAs

LEMMA ReadServed == ASSUME Inv, NEW c \in calls, Read(c) PROVE \E d : Served(c, d)
<1>1. /\ c \in ServerCalls /\ c.of \in Sends /\ c.chunk \in 1..Len(Parts[c.of]) /\ Len(Parts[c.of]) \in Nat \ {0}
      /\ SendInv(c.of) => CallInv(c) /\ c.chunk = send[c.of].chunk
      /\ odd \subseteq Befalls \X Sends /\ ever \subseteq Sends /\ ToSet(c.read) \subseteq Whole(c.of)
      /\ LastCall(c)
  BY RequestIs DEF Typed
<1>2. UNCHANGED <<staging, list, stored, ever>> /\ Server /\ UNCHANGED send /\ c.at = "read"
  BY DEF Read, Server
<1>3. CASE Becomes(c, [c EXCEPT !.at = "clear", !.read = list[c.of]]) /\ UNCHANGED odd
  <2>1. PICK q : q = list[c.of]
    OBVIOUS
  <2>2. q \in Seq(Handles) /\ ToSet(q) \subseteq Whole(c.of)
    BY <1>1, <2>1 DEF Inv, TypeInv, KeyTypes
  <2>3. PICK d : Turns(c, d, "clear", q) /\ Becomes(c, d)
    <3>1. Turns(c, [c EXCEPT !.at = "clear", !.read = q], "clear", q)
      BY <1>1, <2>2, Turned DEF Steps
    <3> QED BY <1>3, <2>1, <3>1
  <2>4. LastCall(d)'
    BY <1>1, <1>2, <2>3 DEF LastCall, Turns
  <2>5. SendInv(c.of) => Whole(c.of) \subseteq ToSet(q)
    <3>1. SendInv(c.of) => Filled(c.of, Len(Parts[c.of]))
      BY <1>1, <1>2 DEF CallInv
    <3>2. DOMAIN Parts[c.of] = 1..Len(Parts[c.of])
      BY <1>1, PartsAre
    <3> QED BY <2>1, <3>1, <3>2 DEF Whole, Filled
  <2>6. SendInv(c.of) => CallInv(d)'
    BY <1>1, <1>2, <2>3, <2>5 DEF CallInv, Turns
  <2>7. odd \subseteq odd' /\ odd' \subseteq Befalls \X Sends
    BY <1>1, <1>3
  <2> QED BY <1>1, <1>2, <2>2, <2>3, <2>4, <2>6, <2>7, KeysStay, ServedAs
<1>4. CASE Goes(c, "clear") /\ odd' = Marked("unread", {c.of})
  <2> DEFINE d == [c EXCEPT !.at = "clear"]
  <2>1. Turns(c, d, "clear", c.read) /\ Becomes(c, d)
    BY <1>1, <1>4, Turned DEF Steps, Goes
  <2> HIDE DEF d
  <2>2. LastCall(d)'
    BY <1>1, <1>2, <2>1 DEF LastCall, Turns
  <2>3. odd' = odd \cup {<<"unread", c.of>>}
    BY <1>4 DEF Marked
  <2>4. odd \subseteq odd' /\ odd' \subseteq Befalls \X Sends
    BY <1>1, <2>3 DEF Befalls
  <2>5. SendInv(c.of) => CallInv(d)'
    BY <1>1, <1>2, <2>1, <2>3 DEF CallInv, Turns
  <2> QED BY <1>1, <1>2, <2>1, <2>2, <2>4, <2>5, KeysStay, ServedAs
<1> QED BY <1>3, <1>4 DEF Read

LEMMA ClearServed == ASSUME Inv, NEW c \in calls, Clear(c) PROVE \E d : Served(c, d)
<1>1. /\ c \in ServerCalls /\ c.of \in Sends /\ c.chunk \in 1..Len(Parts[c.of]) /\ Len(Parts[c.of]) \in Nat \ {0}
      /\ SendInv(c.of) => CallInv(c) /\ c.chunk = send[c.of].chunk
      /\ odd \subseteq Befalls \X Sends /\ ever \subseteq Sends /\ ToSet(c.read) \subseteq Whole(c.of)
      /\ LastCall(c)
  BY RequestIs DEF Typed
<1>2. UNCHANGED <<stored, ever, odd>> /\ Server /\ UNCHANGED send /\ c.at = "clear"
  BY DEF Clear, Server
<1> DEFINE x == IF c.staged THEN "store" ELSE "fail"
<1>3. PICK d : Turns(c, d, x, c.read) /\ Becomes(c, d)
  BY <1>1, Turned DEF Clear, Goes, Steps
<1>4. LastCall(d)'
  BY <1>1, <1>2, <1>3 DEF LastCall, Turns
<1>5. SendInv(c.of) => CallInv(d)'
  BY <1>1, <1>2, <1>3 DEF CallInv, Turns
<1>6. CASE staging' = staging \ {c.of} /\ list' = [list EXCEPT ![c.of] = <<>>]
  <2>1. <<>> \in Seq(Handles) /\ ToSet(<<>>) = {}
    BY DEF ToSet
  <2>2. KeyTypes' /\ \A p \in Sends \ {c.of} : list'[p] = list[p] /\ (p \in staging' <=> p \in staging)
    BY <1>6, <2>1 DEF Inv, TypeInv, KeyTypes
  <2> QED BY <1>1, <1>2, <1>3, <1>4, <1>5, <1>6, <2>2, ServedAs
<1>7. CASE UNCHANGED <<staging, list>>
  BY <1>1, <1>2, <1>3, <1>4, <1>5, <1>7, KeysStay, ServedAs
<1> QED BY <1>6, <1>7 DEF Clear

LEMMA StoreServed == ASSUME Inv, NEW c \in calls, Store(c) PROVE \E d : Served(c, d)
<1>1. /\ c \in ServerCalls /\ c.of \in Sends /\ c.chunk \in 1..Len(Parts[c.of]) /\ Len(Parts[c.of]) \in Nat \ {0}
      /\ SendInv(c.of) => CallInv(c) /\ c.chunk = send[c.of].chunk
      /\ odd \subseteq Befalls \X Sends /\ ever \subseteq Sends /\ ToSet(c.read) \subseteq Whole(c.of)
      /\ LastCall(c)
  BY RequestIs DEF Typed
<1>2. UNCHANGED <<staging, list, odd>> /\ Server /\ UNCHANGED send /\ c.at = "store"
  BY DEF Store, Server
<1>3. c.chunk = Len(Parts[c.of])
  BY <1>1, <1>2 DEF LastCall
<1>4. /\ ever \subseteq ever' /\ ever' \subseteq Sends
      /\ stored' # stored => stored' = [of |-> c.of, list |-> c.read]
  BY <1>1 DEF Store
<1>5. PICK x \in {"ok", "fail"} : Goes(c, x) /\ (x = "ok" => c.of \in ever')
  BY DEF Store
<1>6. PICK d : Turns(c, d, x, c.read) /\ Becomes(c, d)
  BY <1>1, <1>5, Turned DEF Goes, Steps
<1>7. LastCall(d)'
  BY <1>1, <1>5, <1>6 DEF LastCall, Turns
<1>8. SendInv(c.of) => CallInv(d)'
  BY <1>1, <1>2, <1>3, <1>5, <1>6 DEF CallInv, Turns
<1> QED BY <1>1, <1>2, <1>4, <1>6, <1>7, <1>8, KeysStay, ServedAs

LEMMA ServesServed == ASSUME Inv, NEW c \in calls, Serves(c) PROVE \E d : Served(c, d)
BY EnterServed, PushServed, MergeServed, ReadServed, ClearServed, StoreServed DEF Serves

------------------------------------------------------------------------------
\* An hour later: nothing of the sends is left beside the stored drawing.
LEMMA ExpireKeeps == ASSUME Inv, Expire PROVE Inv'
<1> USE DEF Inv
<1>1. /\ send' = [s \in Sends |-> [at |-> "gone", chunk |-> 1, try |-> 1]]
      /\ calls' = {} /\ calls = {} /\ staging' = {} /\ stopped' = {} /\ list' = [s \in Sends |-> <<>>]
      /\ odd' = {o \in odd : o[2] = stored.of /\ o[1] # "late"} /\ ever' = {stored.of}
      /\ stored' = stored /\ stored # None
  BY DEF Expire
<1>2. stored.of \in Sends
  BY <1>1 DEF TypeInv, StoreTypes
<1>3. \A s \in Sends : send'[s].at = "gone" /\ send'[s].chunk = 1 /\ send'[s].try = 1
  BY <1>1
<1>4. TypeInv'
  <2>1. SendTypes'
    <3>1. send' \in [Sends -> [at : Phases, chunk : Nat, try : Nat]]
      BY <1>1 DEF Phases
    <3> QED BY <1>1, <1>3, <3>1, PartsAre DEF SendTypes
  <2>2. <<>> \in Seq(Handles) /\ ToSet(<<>>) = {}
    BY DEF ToSet
  <2>3. KeyTypes'
    BY <1>1, <2>2 DEF KeyTypes
  <2>4. CallTypes' /\ StoreTypes'
    BY <1>1, <1>2 DEF CallTypes, StoreTypes, TypeInv
  <2> QED BY <2>1, <2>3, <2>4 DEF TypeInv
<1>5. CalmInv' /\ LastInv' /\ LateInv'
  BY <1>1 DEF CalmInv, SendInv, LastInv, LateInv
<1>6. StoredIsWhole'
  <2>1. \A what \in {"overlap", "unread"} : <<what, stored.of>> \in odd => <<what, stored.of>> \in odd'
    BY <1>1
  <2>2. \/ <<"overlap", stored.of>> \in odd' \/ <<"unread", stored.of>> \in odd'
        \/ ToSet(stored.list) = Whole(stored.of)
    BY <1>1, <2>1 DEF StoredIsWhole
  <2> QED BY <1>1, <1>3, <2>2 DEF StoredIsWhole
<1>7. BegunInv'
  BY <1>1, <1>2, <1>3 DEF BegunInv, Live
<1> QED BY <1>4, <1>5, <1>6, <1>7

LEMMA InvNext == Inv /\ [UploadNext]_upload => Inv'
<1> SUFFICES ASSUME Inv, [UploadNext]_upload PROVE Inv'
  OBVIOUS
<1>1. TypeInv
  BY DEF Inv
<1>2. ASSUME NEW s \in Sends, Sending(s) PROVE Inv'
  BY <1>1, <1>2, PostKeeps, AnsweredKeeps, StopsWithdraws, RefusedWithdraws, WithdrawsKeeps DEF Sending
<1>3. ASSUME NEW s \in Sends, Start(s) \/ Cancel(s) \/ TimesOut(s) \/ Breaks(s) PROVE Inv'
  BY <1>1, <1>3, StartKeeps, CancelWithdraws, TimesOutWithdraws, BreaksWithdraws, WithdrawsKeeps
<1>4. ASSUME NEW c \in calls, Serves(c) PROVE Inv'
  BY <1>4, ServesServed, ServedKeeps
<1>5. CASE UNCHANGED upload
  <2>1. Withdraws
    BY <1>1, <1>5 DEF upload, Withdraws, TypeInv, SendTypes, StoreTypes, Live
  <2> QED BY <2>1, WithdrawsKeeps
<1> QED BY <1>2, <1>3, <1>4, <1>5, ExpireKeeps DEF UploadNext

LEMMA ForwardNext ==
    ASSUME Inv, UploadNext
    PROVE  [stored # None /\ stored'.of < stored.of => <<"late", stored'.of>> \in odd]_stored
<1>1. ASSUME NEW s \in Sends,
             Sending(s) \/ Start(s) \/ Cancel(s) \/ TimesOut(s) \/ Breaks(s)
      PROVE  stored' = stored
  BY <1>1 DEF Sending, Post, Stops, Answered, Refused, Start, Cancel, TimesOut, Breaks, Client
<1>2. ASSUME NEW c \in calls, Serves(c)
      PROVE  stored' = stored \/ (stored # None /\ stored'.of < stored.of => <<"late", stored'.of>> \in odd)
  BY <1>2, ServesServed, ServedForward
<1>3. Expire => stored' = stored
  BY DEF Expire
<1> QED BY <1>1, <1>2, <1>3 DEF UploadNext

\* No request is in a place the code has not, no chunk and no attempt is beyond
\* what the send has (ApiClient.cs 147-222), and what the server holds of a send
\* is of that send.
THEOREM UploadIsTyped == UploadSpec => []UploadTypeOK
<1>1. TypeInv => UploadTypeOK
  BY DEF TypeInv, SendTypes, CallTypes, Typed, ServerCalls, KeyTypes, StoreTypes, UploadTypeOK, Phases, Steps
<1>2. Inv => TypeInv
  BY DEF Inv
<1> QED BY <1>1, <1>2, InvInit, InvNext, PTL DEF UploadSpec

\* Whatever fails, is lost or is sent again, a stored drawing holds every entity
\* of its extraction, but for overlapping requests and a list that could not be
\* read; and a send that reports success was stored (cad_interop.py 224-306,
\* ApiClient.cs 147-269).
THEOREM StoredDrawingIsWhole == UploadSpec => []StoredIsWhole
<1>1. Inv => StoredIsWhole
  BY DEF Inv
<1> QED BY <1>1, InvInit, InvNext, PTL DEF UploadSpec

\* A newer send cancels the one before: only a request that was on its way with
\* the last chunk can put the older drawing back (ApiClient.cs 85-89).
THEOREM StoredNeverGoesBack == UploadSpec => StoredGoesForward
<1>1. Inv /\ [UploadNext]_upload =>
        [stored # None /\ stored'.of < stored.of => <<"late", stored'.of>> \in odd]_stored
  BY ForwardNext DEF upload
<1> QED BY <1>1, InvInit, InvNext, PTL DEF UploadSpec, StoredGoesForward
==============================================================================
