-------------------------------- MODULE Analysis ------------------------------
(* From an extraction to the findings of its review: the drawing that the   *)
(* upload stored (ChunkUpload) is what a review of one of the four domains  *)
(* reads (DomainReviews), doubled or missing entities included.  The review *)
(* begins when the sends are over, an hour later for the staging keys,      *)
(* which it does not read.  In its place there may be a chat message that   *)
(* asks for a change (ChatCommands); the server knows what was stored of    *)
(* the drawing, the plugin all of it.  Or, before anything is sent, a       *)
(* conversation with an agent begins about drawings of its own              *)
(* (Conversation).                                                          *)
EXTENDS ChunkUpload, DomainReviews, Conversation

CONSTANT Requests       \* the messages that a user may send

VARIABLE talk           \* the message and what it has done to the drawing

Chat == INSTANCE ChatCommands

vars == <<upload, review, domain, talk, dialog>>

Init == UploadInit /\ ReviewInit /\ domain = "none" /\ Chat!TalkInit /\ DialogInit

SendsOver == stored # None /\ \A s \in Sends : send[s].at = "gone"

\* A review, a message or a conversation, one of them in a behaviour.
Talks ==
    /\ SendsOver /\ at = "none"
    /\ Chat!TalkNext(Requests, stored.list)

BeginReview ==
    /\ SendsOver /\ talk = Chat!NoTalk
    /\ BeginPipe \/ \E d \in Others : BeginOther(d)

Advances ==
    /\ \/ domain = "pipe" /\ Proceeds
       \/ OtherProceeds
       \/ GivesUp
       \/ \E j \in Jobs : Ends(j)
    /\ UNCHANGED domain

Concludes ==
    /\ \/ domain = "pipe" /\ \E plan \in Plans : Finish(stored.list, plan)
       \/ domain \in Others /\ \E plan \in OtherPlans[domain] : FinishOther(stored.list, plan)
    /\ UNCHANGED domain

Converses ==
    /\ dialog = NoDialog => UploadInit
    /\ DialogNext

Next ==
    \/ dialog = NoDialog /\ UploadNext /\ UNCHANGED <<review, domain, talk, dialog>>
    \/ (BeginReview \/ Advances \/ Concludes) /\ UNCHANGED <<upload, talk, dialog>>
    \/ StopReview /\ UNCHANGED <<upload, domain, talk, dialog>>
    \/ Talks /\ UNCHANGED <<upload, review, domain, dialog>>
    \/ Converses /\ UNCHANGED <<upload, review, domain, talk>>

\* The plugin's loop, the server's requests and the review's jobs go on; what
\* the user does and what fails need not happen.
Fairness ==
    /\ \A s \in Sends : WF_vars(Sending(s) /\ UNCHANGED <<review, domain, talk, dialog>>)
    /\ WF_vars((\E c \in calls : Serves(c)) /\ UNCHANGED <<review, domain, talk, dialog>>)
    /\ WF_vars(Advances /\ UNCHANGED <<upload, talk, dialog>>)
    /\ WF_at((domain = "pipe" /\ Finishes) \/ OtherFinishes)

Spec == Init /\ [][Next]_vars /\ Fairness

------------------------------------------------------------------------------
(* Properties; those of the upload are in ChunkUpload                       *)

TypeOK ==
    /\ UploadTypeOK /\ ReviewTypeOK
    /\ domain \in Others \union {"none", "pipe"} /\ (domain = "none" <=> at = "none")
    /\ talk.at \in {"none", "agent", "again", "over"} /\ (at # "none" => talk.at = "none")
    /\ DialogTypeOK

Done == at = "done"

\* A set of handles hangs together when no part of it has no link out of it, and
\* none has one that leads out of the whole.
Component(run, all, Linked(_, _)) ==
    /\ \A a \in run, b \in all : Linked(a, b) => b \in run
    /\ \A part \in (SUBSET run) \ {{}, run} : \E a \in part, b \in run \ part : Linked(a, b)

\* In whatever order the set of neighbours is visited, the runs are the parts
\* of the drawing that hang together: no touch leads out of a run, and no run
\* falls into two parts without one (pipe/sub/topology.py 1015-1032, 1280-1293).
\* So are the circuits, each line in one of them, although they are joined place
\* by place in four passes (elec/sub/topology.py 976-1114).
RunsAreComponents ==
    Done =>
        LET s == IF domain = "elec" THEN WiresOf(result.plan, stored.list) ELSE LinesOf(stored.list)
            lines == ToSet(s)
            Touch(a, b) == {a, b} \in result.plan.touch
            Joint(a, b) == Meets(result.plan, a, b) \/ {<<a, b>>, <<b, a>>} \intersect result.plan.tee # {}
                           \/ {a, b} \in result.plan.arcs \union result.plan.noted
            circuits == [c \in ToSet(Circuits(result.plan, s)) |-> ToSet(c.handles)]
        IN  /\ domain = "pipe" => \A order \in SetToSeqs(lines) :
                LET runs == Runs(result.plan, s, order) IN
                UNION runs = lines /\ \A run \in runs : Component(run, lines, Touch)
            /\ domain = "elec" =>
                /\ \A h \in lines : Cardinality({c \in DOMAIN circuits : h \in circuits[c]}) = 1
                /\ \A c \in DOMAIN circuits : Component(circuits[c], lines, Joint)

\* The elements of a kind of which no other place is within the limit.
Lonely(plan, k, all) ==
    {h \in all : /\ plan.kind[h] = k
                 /\ \E g \in all : plan.kind[g] = k /\ plan.x[g] # plan.x[h]
                 /\ \A g \in all : plan.kind[g] = k => plan.x[g] = plan.x[h] \/ Far(plan, g, h) > Widest[k]}

\* Two claims of a single call, from which doubles are not removed.
SaidAtOnce(f, g) == ~result.answer.long /\ f.from = "llm" /\ g.from = "llm"

\* No finding accuses an element of meeting itself, and none is shown twice
\* with its elements exchanged, unless a chunk was sent again: then the copies
\* of its entities accuse each other (geometry.py 267-282, topology.py 1167-1248,
\* deterministic_checker.py 371-401; elec deterministic_checker.py 562-600,
\* 722-768).  A head is accused of its spacing only when every other place of its
\* kind is too far, however often it was sent (fire/sub/review/parser.py 609-714).
\* In the pipe review the user is shown a finding once, although it comes through
\* the report and through the quality issues, unless it is an unsure quality issue
\* (pipe_review_node.py 1898-1954).  The language model may say a thing twice when it
\* is asked in one call, but not in parts (compliance.py 1535-1544, 1598-1610).
AlarmsAreReal ==
    Done =>
        /\ <<"again", stored.of>> \notin odd =>
            /\ \A f \in ToSet(result.shown) : Len(f.about) = 2 => f.about[1] # f.about[2]
            /\ \A f, g \in ToSet(result.shown) :
                f.type = g.type /\ ToSet(f.about) = ToSet(g.about) => f = g \/ SaidAtOnce(f, g)
        /\ domain = "fire" => \A f \in ToSet(result.det) :
            f.type = "spacing" => f.eq \in Lonely(result.plan, result.plan.kind[f.eq], ToSet(stored.list))
        /\ domain = "pipe" => \A i, j \in DOMAIN result.shown :
            LET f == result.shown[i] IN
            i # j /\ Identity(f) = Identity(result.shown[j]) =>
                (f \in ToSet(result.qa) /\ ~Sure(f)) \/ SaidAtOnce(f, result.shown[j])

\* What stands in the way of a finding of the checks: a claim of the language
\* model, or an earlier finding, of its element and type.
Shadowed(found, i) ==
    \/ \E c \in ToSet(result.claims) : Pair(c) = Pair(found[i])
    \/ \E j \in 1..(i - 1) : Pair(found[j]) = Pair(found[i])

\* For the element and type of every sure finding of the rules there is a fix among
\* those offered, unless the language model claims the same and is unsure; in the
\* pipe review the fix is labelled with it (pipe/workflow_handler.py 2297-2344,
\* pipe_review_node.py 2207-2258, elec/workflow_handler.py 585-668,
\* fire/workflow_handler.py 560-610).  There a finding has a fix of its own, for
\* its group, when nothing shadows it: of several of one element and type, such as
\* two gaps at the end of one line, only the first has one, although
\* drawing_qa_checker.py 1274-1276 calls that key too coarse.  A quality issue that
\* goes without is still shown, if it has come through the text check (2255-2262).
\* In the fire review every place that is too far from the others of its kind has
\* one, also when two elements stand there (parser.py 610-614).  A fix that is
\* offered as automatic rests on a finding of 0.7 or more (revision.py 92-114 of the
\* pipe review, 33-45 of the electrical one), also when the merge takes a
\* confidence of 0 for 1; the two other domains offer none.
\* A claim against which nothing speaks reaches the user of the pipe review, unless
\* the drawing was read in parts and a wordier claim of its element and type took
\* its place before the filters, which may then drop that one (pipe
\* sub/review/compliance.py 541-563, 1598-1610).
SureGetsFix ==
    Done =>
        /\ LET found == result.det \o result.qa IN
           \A i \in DOMAIN found :
            LET f == found[i]
                its == {p \in ToSet(result.pending) : p.eq = f.eq /\ p.made = f.type}
            IN  f.conf >= 70 =>
                    /\ \/ \E p \in its : domain = "pipe" => p.type = f.type
                       \/ \E c \in ToSet(result.claims) : Pair(c) = Pair(f) /\ ~Sure(c)
                    /\ domain = "pipe" =>
                        /\ Shadowed(found, i) \/ \E p \in its : p.group = f.group
                        /\ i > Len(result.det) => \E g \in ToSet(result.shown) : Identity(g) = Identity(f)
        /\ domain = "fire" => \A k \in DOMAIN Widest :
            \A h \in Lonely(result.plan, k, ToSet(stored.list)) :
                \E p \in ToSet(result.pending) :
                    p.made = "spacing" /\ p.eq \in Lonely(result.plan, k, ToSet(stored.list))
                    /\ result.plan.x[p.eq] = result.plan.x[h]
        /\ domain \in {"pipe", "elec"} => \A p \in ToSet(result.pending) :
            p.action = "automatic" =>
                \E f \in ToSet(result.shown) : Pair(f) = <<p.eq, p.made>> /\ f.conf >= 70
        /\ domain = "pipe" =>
            LET asked == Asked(stored.list, result.answer.of)
                said == ToSet(PipeSaid(result.plan, asked, result.answer))
            IN  \A c \in said :
                Borne(result.plan, asked, c) /\ c.type \notin Continuity =>
                    \/ \E f \in ToSet(result.shown) : f.from = "llm" /\ Pair(f) = Pair(c)
                    \/ result.answer.long /\ \E o \in said : Pair(o) = Pair(c) /\ o.reason > c.reason

\* An element of the drawing is changed or erased only when the user has selected
\* it, has asked for it by its name, or has approved a finding that names it
\* (websocket.py 68-81, 111-139, 853-923; SocketMessageHandler.cs 235-352).  As
\* long as only findings were approved nothing is erased but a block that another
\* one replaces (cad_modification_tiers.py 9-18), and a panel that is rejected
\* leaves the drawing as it was (websocket.py 892-923).
\* After "make it two rods" there are two, among those that the request was
\* about, and every text that counts them says so, if the server knows the drawing
\* (elec/sub/action.py 1714-1875, 1957-1995).
OnlyMeantChanges == Chat!OnlyMeantChanges /\ Chat!RodsAsAsked(stored.list)

\* A review knows every chunk that a query of its has found, as long as there is
\* room for it and the query agent has handed it on.
NoneIsLost(search, found) ==
    LET each == [pipe |-> 6, elec |-> 4, fire |-> 8, arch |-> 10][domain]
        Beside(s, i) == {s[j] : j \in {k \in 1..(i - 1) : Uploaded(search, s[k]) = Uploaded(search, s[i])}}
        Handed(s, i) ==
            /\ domain = "pipe" => s[i] \notin search.listing
            /\ domain = "elec" => search.standard = "" \/ s[i][1] = search.standard \/ Uploaded(search, s[i])
            /\ Cardinality(Beside(s, i)) < each
    IN  \/ domain # "elec" /\ Len(found.rules) = [pipe |-> 18, fire |-> 8, arch |-> 5][domain]
        \/ \A q \in ToSet(found.asked) : \A i \in DOMAIN Found(search, q) :
              Handed(Found(search, q), i) => Found(search, q)[i] \in ToSet(found.rules)

\* The rules of a review: none twice, none lost; of a pipe drawing those of every
\* system that it shows, what the session has uploaded before the others unless only
\* the general query finds something, and no table of contents; of an electrical
\* drawing others than a standard's only for a query that the standard does not answer.
RulesAreKept ==
    Done =>
        LET search == result.plan.search
            found == result.search
            cited == found.rules
        IN  /\ Len(cited) = Cardinality(ToSet(cited)) /\ NoneIsLost(search, found)
            /\ domain = "pipe" =>
                /\ found.asked \notin {<<>>, <<GeneralQuery>>} =>
                    \A d \in search.shown \union ToSet(search.hint) : <<"system", d>> \in ToSet(found.asked)
                /\ ToSet(cited) \intersect search.listing = {}
                /\ GeneralQuery \in ToSet(found.asked) \/ \A j \in DOMAIN cited :
                        Uploaded(search, cited[j]) => \A i \in 1..j : Uploaded(search, cited[i])
            /\ domain = "elec" /\ search.standard # "" =>
                \A c \in ToSet(cited) : ~Uploaded(search, c) /\ c[1] # search.standard =>
                    \E q \in ToSet(found.asked) : \A o \in ToSet(Found(search, q)) : o[1] # search.standard

\* What a review says has its ground: its findings in the drawing, and the rules it
\* is held against in what its queries find: the eight queries and the eighteen chunks
\* of the pipe review never cost a system that the drawing shows, or a document of the
\* session, its place (pipe/workflow_handler.py 1498-1650, 1685-1800, 1982-2166; elec
\* 84-125 and 435-510; fire/rag_engine.py 51-185).
ReviewHasGround == AlarmsAreReal /\ RulesAreKept

Ended == {"done", "stopped", "failed"}

\* Whatever fails, a send ends and a review that has begun ends
\* (ApiClient.cs 147-259, pipe/workflow_handler.py 1982-2350, elec 435-668, fire
\* 335-610, arch 112-195).
AnalysisEnds == SendsEnd /\ (at \notin Ended \union {"none"} ~> at \in Ended)
==============================================================================
