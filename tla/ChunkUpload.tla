----------------------------- MODULE ChunkUpload ------------------------------
(* ApiClient.SendCadDataAsync and POST /api/v1/cad/analyze: the plugin      *)
(* sends a drawing in one request or, when it is large, in chunks, each     *)
(* tried up to three times; the server gathers the chunks of a session in a *)
(* Redis list, and the request with the last one reads the list, deletes it *)
(* and stores the merged drawing.  A newer send cancels the one before.     *)
(* The server knows nothing of a client that has stopped waiting: a request *)
(* it has begun is carried to its end beside the one that repeats it.       *)
EXTENDS Integers, Sequences, FiniteSets, SequencesExt

CONSTANTS
    Parts,          \* for every send its chunks, each a sequence of handles
    Tries,          \* attempts per chunk: 3
    MaxFaults,      \* bound: operations of Redis or S3 that fail
    MaxSlips,       \* bound: requests that time out or lose their connection
    None

Sends == DOMAIN Parts

ASSUME UploadAssumption ==
    /\ Parts \in Seq(ToSet(Parts)) /\ Tries \in Nat \ {0}
    /\ \A s \in Sends : Parts[s] \in Seq(ToSet(Parts[s])) \ {<<>>}
    /\ \A s \in Sends : \A k \in DOMAIN Parts[s] : Parts[s][k] \in Seq(ToSet(Parts[s][k]))

VARIABLES
    send,           \* the loop of SendCadDataAsync: where, chunk, attempt
    stopped,        \* sends whose CancellationToken is cancelled
    calls,          \* requests at the server
    staging,        \* sends with a cad_extraction_staging key
    list,           \* cad_extraction_entities of every send
    stored,         \* the drawing that the sessions and the record point to
    ever,           \* (history) sends stored at some time
    odd,            \* (history) what befell a send: see Befalls
    faults, slips   \* bounds: how many are left

upload == <<send, stopped, calls, staging, list, stored, ever, odd, faults, slips>>

Chunked(s) == Len(Parts[s]) > 1
Whole(s) == UNION {ToSet(Parts[s][k]) : k \in DOMAIN Parts[s]}
Live(s) == send[s].at \in {"next", "posts"}

\* What may befall a send: a chunk is tried again; two of its requests are at
\* the server at once; the list could not be read; its last request was on the
\* way when a newer send began.
Befalls == {"again", "overlap", "unread", "late"}
Marked(what, S) == odd \union {<<what, s>> : s \in S}

UploadTypeOK ==
    /\ \A s \in Sends :
        /\ send[s].at \in {"idle", "next", "posts", "done", "failed", "stopped", "gone"}
        /\ send[s].chunk \in 1..Len(Parts[s]) /\ send[s].try \in 1..Tries
        /\ ToSet(list[s]) \subseteq Whole(s)
    /\ stopped \subseteq Sends /\ staging \subseteq Sends /\ ever \subseteq Sends
    /\ odd \subseteq Befalls \X Sends
    /\ \A c \in calls : c.at \in {"enter", "push", "merge", "read", "clear", "store", "ok", "fail"}
    /\ stored = None \/ stored.of \in Sends

UploadInit ==
    /\ send = [s \in Sends |-> [at |-> "idle", chunk |-> 1, try |-> 1]]
    /\ stopped = {} /\ calls = {} /\ staging = {} /\ ever = {} /\ odd = {}
    /\ list = [s \in Sends |-> <<>>]
    /\ stored = None
    /\ faults = MaxFaults /\ slips = MaxSlips

------------------------------------------------------------------------------
(* The plugin                                                               *)

\* The request whose answer a send waits for, if any.
Awaited(s) == {c \in calls : /\ send[s].at = "posts" /\ c.of = s
                             /\ c.chunk = send[s].chunk /\ c.try = send[s].try}
Waited(c) == c \in Awaited(c.of)

Client(s) == UNCHANGED <<staging, list, stored, ever, faults>>

\* (mutant) the send before is not cancelled
StartBeside(s) ==
    /\ send[s].at = "idle" /\ \A p \in 1..(s - 1) : send[p].at # "idle"
    /\ send' = [send EXCEPT ![s].at = "next"]
    /\ UNCHANGED <<stopped, calls, odd, slips>>
    /\ Client(s)

\* An extraction of the palette: the previous token is cancelled.
Start(s) ==
    /\ send[s].at = "idle" /\ \A p \in 1..(s - 1) : send[p].at # "idle"
    /\ send' = [send EXCEPT ![s].at = "next"]
    /\ stopped' = stopped \union {p \in Sends : Live(p)}
    /\ odd' = Marked("late", {c.of : c \in {d \in calls : d.chunk = Len(Parts[d.of])}})
    /\ UNCHANGED <<calls, slips>>
    /\ Client(s)

\* CANCEL_REVIEW: CancelCurrentSend.
Cancel(s) ==
    /\ Live(s) /\ s \notin stopped
    /\ stopped' = stopped \union {s}
    /\ UNCHANGED <<send, calls, odd, slips>>
    /\ Client(s)

\* The token is looked at before a request and during the pause before a retry.
Post(s) ==
    /\ send[s].at = "next" /\ s \notin stopped
    /\ calls' = calls \union {[of |-> s, chunk |-> send[s].chunk, try |-> send[s].try,
                               at |-> "enter", staged |-> FALSE, read |-> <<>>]}
    /\ send' = [send EXCEPT ![s].at = "posts"]
    /\ odd' = IF \E c \in calls : c.of = s THEN Marked("overlap", {s}) ELSE odd
    /\ UNCHANGED <<stopped, slips>>
    /\ Client(s)

\* OperationCanceledException: the server is told nothing.
Stops(s) ==
    /\ s \in stopped /\ Live(s)
    /\ send' = [send EXCEPT ![s].at = "stopped"]
    /\ calls' = calls \ {c \in Awaited(s) : c.at \in {"ok", "fail"}}
    /\ UNCHANGED <<stopped, odd, slips>>
    /\ Client(s)

\* 2xx; after the last chunk the token is not looked at any more.
Answered(s) ==
    \E c \in Awaited(s) :
        /\ c.at = "ok"
        /\ calls' = calls \ {c}
        /\ send' = [send EXCEPT ![s] =
                IF c.chunk = Len(Parts[s]) THEN [@ EXCEPT !.at = "done"]
                ELSE [at |-> "next", chunk |-> @.chunk + 1, try |-> 1]]
        /\ UNCHANGED <<stopped, odd, slips>>
        /\ Client(s)

\* (mutant) the attempt is not counted
AgainForever(s) ==
    /\ send' = [send EXCEPT ![s].at = IF Chunked(s) THEN "next" ELSE "failed"]
    /\ odd' = Marked("again", {s})

\* (mutant) one attempt too many
AgainOnceMore(s) ==
    LET more == Chunked(s) /\ send[s].try <= Tries IN
    /\ send' = [send EXCEPT ![s] =
            IF more THEN [at |-> "next", chunk |-> @.chunk, try |-> @.try + 1]
            ELSE [@ EXCEPT !.at = "failed"]]
    /\ odd' = IF more THEN Marked("again", {s}) ELSE odd

\* Only a chunk is tried again, after a pause; a single request is not.
Again(s) ==
    LET more == Chunked(s) /\ send[s].try < Tries IN
    /\ send' = [send EXCEPT ![s] =
            IF more THEN [at |-> "next", chunk |-> @.chunk, try |-> @.try + 1]
            ELSE [@ EXCEPT !.at = "failed"]]
    /\ odd' = IF more THEN Marked("again", {s}) ELSE odd

\* Every refusal is a 500, for the handler ends with `except Exception`.
Refused(s) ==
    \E c \in Awaited(s) :
        /\ c.at = "fail"
        /\ calls' = calls \ {c}
        /\ Again(s)
        /\ UNCHANGED <<stopped, slips>>
        /\ Client(s)

\* Five minutes: the request goes on, or its answer is on the way.
TimesOut(s) ==
    /\ send[s].at = "posts" /\ slips > 0
    /\ slips' = slips - 1
    /\ calls' = calls \ {c \in Awaited(s) : c.at \in {"ok", "fail"}}
    /\ Again(s)
    /\ UNCHANGED stopped
    /\ Client(s)

\* HttpRequestException: nobody in the chunked path catches it.
Breaks(s) ==
    /\ send[s].at = "posts" /\ slips > 0
    /\ slips' = slips - 1
    /\ calls' = calls \ {c \in Awaited(s) : c.at \in {"enter", "ok", "fail"}}
    /\ send' = [send EXCEPT ![s].at = "failed"]
    /\ UNCHANGED <<stopped, odd>>
    /\ Client(s)

------------------------------------------------------------------------------
(* The server: one request `c`, step by step                                *)

\* `c` becomes `d`; an answer nobody waits for is lost.
Becomes(c, d) ==
    calls' = (calls \ {c}) \union (IF d.at \in {"ok", "fail"} /\ ~Waited(c) THEN {} ELSE {d})
Goes(c, at) == Becomes(c, [c EXCEPT !.at = at])

Fails == faults > 0 /\ faults' = faults - 1
Works == UNCHANGED faults
Server == UNCHANGED <<send, stopped, slips>>

\* The first chunk makes the staging, the others look whether there is one.
Enter(c) ==
    /\ c.at = "enter"
    /\ \/ /\ ~Chunked(c.of)
          /\ Becomes(c, [c EXCEPT !.at = "store", !.read = Parts[c.of][1]])
          /\ UNCHANGED staging /\ Works
       \/ /\ Chunked(c.of) /\ c.chunk = 1
          /\ Goes(c, "push")
          /\ staging' = staging \union {c.of} /\ Works
       \/ /\ Chunked(c.of) /\ c.chunk > 1
          /\ Goes(c, IF c.of \in staging THEN "push" ELSE "fail")
          /\ UNCHANGED staging /\ Works
       \/ Chunked(c.of) /\ Goes(c, "fail") /\ UNCHANGED staging /\ Fails
    /\ UNCHANGED <<list, stored, ever, odd>>
    /\ Server

\* (mutant) the exception of a batch is only logged
PushShort(c) ==
    /\ c.at = "push"
    /\ \E n \in 0..Len(Parts[c.of][c.chunk]) :
        /\ list' = [list EXCEPT ![c.of] = @ \o SubSeq(Parts[c.of][c.chunk], 1, n)]
        /\ IF n = Len(Parts[c.of][c.chunk]) THEN Works ELSE Fails
    /\ Goes(c, IF c.chunk < Len(Parts[c.of]) THEN "ok" ELSE "merge")
    /\ UNCHANGED <<staging, stored, ever, odd>>
    /\ Server

\* RPUSH in batches: a fault leaves those that came before it.
Push(c) ==
    /\ c.at = "push"
    /\ \/ /\ list' = [list EXCEPT ![c.of] = @ \o Parts[c.of][c.chunk]]
          /\ Goes(c, IF c.chunk < Len(Parts[c.of]) THEN "ok" ELSE "merge")
          /\ Works
       \/ \E n \in 0..Len(Parts[c.of][c.chunk]) :
            /\ list' = [list EXCEPT ![c.of] = @ \o SubSeq(Parts[c.of][c.chunk], 1, n)]
            /\ Goes(c, "fail")
            /\ Fails
    /\ UNCHANGED <<staging, stored, ever, odd>>
    /\ Server

\* The last chunk: get_extraction_staging, where an error counts as none.
Merge(c) ==
    /\ c.at = "merge"
    /\ \/ Becomes(c, [c EXCEPT !.at = "read", !.staged = c.of \in staging]) /\ Works
       \/ Goes(c, "read") /\ Fails
    /\ UNCHANGED <<staging, list, stored, ever, odd>>
    /\ Server

\* pop_all_extraction_entities, which removes nothing; an error gives [].
Read(c) ==
    /\ c.at = "read"
    /\ \/ /\ Becomes(c, [c EXCEPT !.at = "clear", !.read = list[c.of]])
          /\ UNCHANGED odd /\ Works
       \/ Goes(c, "clear") /\ odd' = Marked("unread", {c.of}) /\ Fails
    /\ UNCHANGED <<staging, list, stored, ever>>
    /\ Server

\* clear_extraction_staging, whose error is swallowed.
Clear(c) ==
    /\ c.at = "clear"
    /\ \/ staging' = staging \ {c.of} /\ list' = [list EXCEPT ![c.of] = <<>>] /\ Works
       \/ UNCHANGED <<staging, list>> /\ Fails
    /\ Goes(c, IF c.staged THEN "store" ELSE "fail")
    /\ UNCHANGED <<stored, ever, odd>>
    /\ Server

\* (mutant) a drawing that S3 refused is answered with success
StoreAnyway(c) ==
    /\ c.at = "store"
    /\ \/ /\ stored' = [of |-> c.of, list |-> c.read]
          /\ ever' = ever \union {c.of} /\ Works
       \/ UNCHANGED <<stored, ever>> /\ Fails
    /\ Goes(c, "ok")
    /\ UNCHANGED <<staging, list, odd>>
    /\ Server

\* S3, the drawing's record and the session's path: an error of the first
\* stores nothing, one of the last is answered with a 500 all the same.
Store(c) ==
    /\ c.at = "store"
    /\ \/ /\ stored' = [of |-> c.of, list |-> c.read]
          /\ ever' = ever \union {c.of}
          /\ (Goes(c, "ok") /\ Works) \/ (Goes(c, "fail") /\ Fails)
       \/ UNCHANGED <<stored, ever>> /\ Goes(c, "fail") /\ Fails
    /\ UNCHANGED <<staging, list, odd>>
    /\ Server

Serves(c) == Enter(c) \/ Push(c) \/ Merge(c) \/ Read(c) \/ Clear(c) \/ Store(c)

------------------------------------------------------------------------------
\* EXTRACTION_STAGING_TTL, an hour later: what was left of the sends is gone.
Expire ==
    /\ \A s \in Sends : ~Live(s)
    /\ \E s \in Sends : send[s].at # "gone"
    /\ calls = {} /\ stored # None
    /\ send' = [s \in Sends |-> [at |-> "gone", chunk |-> 1, try |-> 1]]
    /\ staging' = {} /\ list' = [s \in Sends |-> <<>>] /\ stopped' = {}
    /\ odd' = {o \in odd : o[2] = stored.of /\ o[1] # "late"}
    /\ ever' = {stored.of} /\ faults' = 0 /\ slips' = 0
    /\ UNCHANGED <<calls, stored>>

Sending(s) == Post(s) \/ Stops(s) \/ Answered(s) \/ Refused(s)
UploadNext ==
    \/ \E s \in Sends : \/ Sending(s)
                        \/ Start(s) \/ Cancel(s) \/ TimesOut(s) \/ Breaks(s)
    \/ \E c \in calls : Serves(c)
    \/ Expire

UploadSpec == UploadInit /\ [][UploadNext]_upload

------------------------------------------------------------------------------
(* Properties                                                               *)

\* The stored drawing holds every entity of the extraction, through refused
\* batches, lost answers and retries (cad_interop.py 224-306), unless two
\* requests of the send were at the server at once or the list was not read.  A
\* send that ends with success has been stored (ApiClient.cs 253-269: only then is
\* the palette told that the analysis is complete).
StoredIsWhole ==
    /\ stored # None =>
        \/ {<<"overlap", stored.of>>, <<"unread", stored.of>>} \intersect odd # {}
        \/ ToSet(stored.list) = Whole(stored.of)
    /\ \A s \in Sends : send[s].at = "done" => s \in ever

\* The stored drawing never goes back to an older extraction, unless the last
\* request of that one was on the way when the newer began (ApiClient.cs 85-89).
StoredGoesForward ==
    [][ stored # None /\ stored'.of < stored.of => <<"late", stored'.of>> \in odd ]_stored

\* Every send ends, whatever fails (ApiClient.cs 147-259).
SendsEnd == \A s \in Sends : Live(s) ~> ~Live(s)
==============================================================================
