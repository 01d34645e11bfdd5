---------------------------- MODULE Analysis_proofs ----------------------------
(* What is proved of the upload and of a conversation holds inside the      *)
(* analysis, whatever reviews, messages and conversations come beside it;   *)
(* the analysis is typed; and the runs and circuits of a review are the     *)
(* parts of the drawing that hang together.                                 *)
EXTENDS Analysis, ChunkUpload_proofs, Conversation_proofs, FiniteSetTheorems

LEMMA SpecUploads == Spec => UploadSpec
<1>1. Init => UploadInit
  BY DEF Init
<1>2. [Next]_vars => [UploadNext]_upload
  BY DEF Next, vars
<1> QED BY <1>1, <1>2, PTL DEF Spec, UploadSpec

\* The drawing that the reviews and the messages are about is a whole one, and it
\* is never replaced by that of an older extraction (cad_interop.py 224-306,
\* ApiClient.cs 85-89, 147-269).
THEOREM ReviewedDrawingIsWhole == Spec => []StoredIsWhole /\ StoredGoesForward
BY SpecUploads, StoredDrawingIsWhole, StoredNeverGoesBack

LEMMA SpecConverses == Spec => DialogSpec
<1>1. Init => DialogInit
  BY DEF Init
<1>2. [Next]_vars => [DialogNext]_dialog
  BY DEF Next, vars, Converses
<1> QED BY <1>1, <1>2, PTL DEF Spec, DialogSpec

\* What a session remembers is its answered turns, in their order and each of them
\* once, unless a turn could not read the memory, or wrote over what another had
\* stored since, or was given up between the two halves; and what is remembered is
\* in the transcript, with the question and the answer (agent_service.py 255-265,
\* 353-424; memory_summary_node.py 113-139; state_service.py 140-149).
THEOREM AnalysisRemembers == Spec => []MemoryIsWhole
BY SpecConverses, ConversationIsRemembered

\* An answer rests on what was saved, drawn and retrieved: the organisation's roles
\* of the layers, the nearest walls, the names of the blocks, the tables beside a
\* text, the references of the fixes; a question of rules is looked up
\* (mapping.py 79-175, cad_interop.py 146-147; pipe_review_node.py 112-145, 374-425,
\* 489-512 and 2187-2204; elec_review_node.py 470-486, 1737-1871).
THEOREM AnalysisHasGround == Spec => []DialogHasGround
BY SpecConverses, ConversationHasGround

------------------------------------------------------------------------------
(* The analysis is typed: where the review is, its jobs and its result, and *)
(* where a message is.                                                      *)

JobStates == {"none", "running", "ok", "failed", "late"}
TalkFits ==
    /\ talk.at \in {"none", "agent", "again", "over"}
    /\ talk # Chat!NoTalk => "at" \in DOMAIN talk /\ talk.at # "none"
ReviewFits ==
    /\ ReviewTypeOK
    /\ domain \in Others \union {"none", "pipe"} /\ (domain = "none" <=> at = "none")
AnalysisFits == TalkFits /\ ReviewFits /\ (at # "none" => talk.at = "none")

LEMMA OthersAre == Others = {"elec", "fire", "arch"}
BY DEF Others, Stages

LEMMA TogetherIs == ASSUME NEW r, NEW s, DOMAIN r # {} PROVE Together(r, s) # <<>>
<1>1. DOMAIN Together(r, s) # {}
  BY DEF Together
<1>2. DOMAIN <<>> = {}
  <2>1. DOMAIN <<>> = 1..0
    OBVIOUS
  <2> QED BY <2>1
<1> QED BY <1>1, <1>2

\* A job begins or ends: the jobs stay jobs.
LEMMA StartedFits == ASSUME ReviewTypeOK, NEW S PROVE Started(S) \in [Jobs -> JobStates]
BY DEF ReviewTypeOK, Started, JobStates

LEMMA BeginningFits ==
    ASSUME AnalysisFits, BeginReview, UNCHANGED <<upload, talk, dialog>>
    PROVE  AnalysisFits'
<1>1. at = "none" /\ talk.at = "none"
  BY DEF BeginReview, BeginPipe, Begin, BeginOther, Chat!NoTalk
<1>2. jobs' \in [Jobs -> JobStates]
  BY StartedFits DEF AnalysisFits, ReviewFits, BeginReview, BeginPipe, Begin, BeginOther
<1>3. /\ rules' = rules /\ result' = result
      /\ (at' = "text" /\ domain' = "pipe") \/ (at' = "gather" /\ domain' \in Others)
  BY DEF BeginReview, BeginPipe, Begin, BeginOther
<1>4. Others' = Others /\ Jobs' = Jobs
  BY DEF Others, Stages, Jobs, Gathered, Checks
<1>5. TalkFits'
  BY DEF AnalysisFits, TalkFits
<1> QED BY <1>1, <1>2, <1>3, <1>4, <1>5, OthersAre DEF AnalysisFits, ReviewFits, ReviewTypeOK, JobStates, NoResult

LEMMA AdvancingFits ==
    ASSUME AnalysisFits, Advances \/ StopReview, UNCHANGED <<upload, domain, talk, dialog>>
    PROVE  AnalysisFits'
<1>1. jobs' \in [Jobs -> JobStates]
  <2>1. \A j \in Jobs, x \in JobStates : [jobs EXCEPT ![j] = x] \in [Jobs -> JobStates]
    BY DEF AnalysisFits, ReviewFits, ReviewTypeOK, JobStates
  <2>2. CASE domain = "pipe" /\ Proceeds
    BY <2>2, StartedFits DEF Proceeds, Gather, AskAgain, Check, AnalysisFits, ReviewFits
  <2>3. CASE OtherProceeds
    BY <2>3, StartedFits DEF OtherProceeds, Abandon, Ask, AnalysisFits, ReviewFits, ReviewTypeOK, JobStates
  <2>4. CASE GivesUp
    <3>1. "compliance" \in Jobs /\ "late" \in JobStates
      BY DEF Jobs, Checks, JobStates
    <3> QED BY <2>1, <2>4, <3>1 DEF GivesUp
  <2>5. CASE \E j \in Jobs : Ends(j)
    BY <2>1, <2>5 DEF Ends, JobStates
  <2>6. CASE StopReview
    BY <2>6 DEF StopReview, AnalysisFits, ReviewFits, ReviewTypeOK, JobStates
  <2> QED BY <2>2, <2>3, <2>4, <2>5, <2>6 DEF Advances
<1>2. /\ rules' \in BOOLEAN /\ result' = result
      /\ \/ at' = at
         \/ at \notin {"none", "done"} /\ at' \in {"gather", "fallback", "checks", "stopped", "failed"}
  <2>1. CASE domain = "pipe" /\ Proceeds
    BY <2>1 DEF Proceeds, Gather, AskAgain, Check, AnalysisFits, ReviewFits, ReviewTypeOK
  <2>2. CASE OtherProceeds
    BY <2>2 DEF OtherProceeds, Abandon, Ask, AnalysisFits, ReviewFits, ReviewTypeOK
  <2>3. CASE StopReview
    BY <2>3 DEF StopReview, AnalysisFits, ReviewFits, ReviewTypeOK
  <2>4. CASE GivesUp \/ \E j \in Jobs : Ends(j)
    BY <2>4 DEF GivesUp, Ends, AnalysisFits, ReviewFits, ReviewTypeOK
  <2> QED BY <2>1, <2>2, <2>3, <2>4 DEF Advances
<1>3. ReviewTypeOK'
  BY <1>1, <1>2 DEF AnalysisFits, ReviewFits, ReviewTypeOK, JobStates, NoResult, Jobs, Gathered, Checks
<1> QED BY <1>2, <1>3 DEF AnalysisFits, ReviewFits, TalkFits, Others, Stages

LEMMA ConcludingFits ==
    ASSUME AnalysisFits, Concludes, UNCHANGED <<upload, talk, dialog>>
    PROVE  AnalysisFits'
<1>1. /\ at = "checks" /\ at' = "done" /\ rules' = FALSE /\ domain' = domain
      /\ jobs' = [j \in Jobs |-> "none"]
  BY DEF Concludes, Finish, Finishes, FinishOther, OtherFinishes
<1>2. \E plan, answer, claims, found, r :
        result' = Together([plan |-> plan, answer |-> answer, claims |-> claims, search |-> found], r)
  <2>1. ASSUME NEW plan, Finish(stored.list, plan)
        PROVE  \E answer, claims, found, r :
                    result' = Together([plan |-> plan, answer |-> answer, claims |-> claims, search |-> found], r)
    <3> DEFINE found == PipeSearch(plan.search, jobs["rules"] = "ok", jobs["fallback"] = "ok")
               topo == IF jobs["topology"] = "ok" THEN Topology(plan, stored.list) ELSE NoTopology
               geo == IF jobs["geometry"] = "ok" THEN Geometry(plan, stored.list) ELSE NoGeometry
               claims(answer) == PipeClaims(plan, stored.list, answer)
               shown(answer) == Review(plan, stored.list, claims(answer), topo, geo, jobs["deterministic"] = "ok",
                                       jobs["quality"] = "ok", jobs["text"] = "ok")
    <3>1. PICK answer \in Answers("pipe", plan) :
            result' = Together([plan |-> plan, answer |-> answer, claims |-> claims(answer), search |-> found], shown(answer))
      BY <2>1, Zenon DEF Finish
    <3> HIDE DEF found, topo, geo, claims, shown
    <3> QED BY <3>1
  <2>2. ASSUME NEW plan, FinishOther(stored.list, plan)
        PROVE  \E answer, claims, found, r :
                    result' = Together([plan |-> plan, answer |-> answer, claims |-> claims, search |-> found], r)
    BY <2>2 DEF FinishOther
  <2> QED BY <2>1, <2>2 DEF Concludes
<1>3. result' # NoResult
  BY <1>2, TogetherIs DEF NoResult
<1>4. ReviewTypeOK'
  BY <1>1, <1>3 DEF ReviewTypeOK, NoResult
<1> QED BY <1>1, <1>4 DEF AnalysisFits, ReviewFits, TalkFits, Others, Stages

\* What has been said keeps its place; a new message is no longer at "none".
LEMMA TalkingFits ==
    ASSUME AnalysisFits, Talks, UNCHANGED <<upload, review, domain, dialog>>
    PROVE  AnalysisFits'
<1>1. at = "none" /\ Chat!TalkNext(Requests, stored.list)
  BY DEF Talks
<1>a. ReviewFits'
  BY DEF AnalysisFits, ReviewFits, ReviewTypeOK, review, Others, Stages, Jobs, Gathered, Checks, NoResult
<1> SUFFICES TalkFits'
  BY <1>1, <1>a DEF AnalysisFits, review
<1>2. ASSUME talk' = Chat!Began(talk'.req) PROVE TalkFits'
  BY <1>2 DEF Chat!Began, TalkFits, Chat!NoTalk
<1>3. ASSUME NEW was, NEW outs, NEW next \in {"agent", "over"}, talk' = Chat!Settled(was, outs, next), "at" \in DOMAIN was
      PROVE  TalkFits'
  BY <1>3 DEF Chat!Settled, Chat!Ended, TalkFits, Chat!NoTalk
<1>4. CASE \E req \in Requests : Chat!Ask(req, stored.list) \/ Chat!StartAgent(req)
  <2>1. ASSUME NEW req, Chat!Ask(req, stored.list) PROVE TalkFits'
    <3> DEFINE outs == Chat!Handled(req.scene, Chat!FastCommand(req, stored.list, req.scene.ents), TRUE)
               was == Chat!Began(req)
    <3>1. talk' = Chat!Settled(was, outs, "agent")
      BY <2>1 DEF Chat!Ask
    <3>2. "at" \in DOMAIN was
      BY DEF Chat!Began
    <3> HIDE DEF outs, was
    <3> QED BY <1>3, <3>1, <3>2
  <2>2. ASSUME NEW req, Chat!StartAgent(req) PROVE TalkFits'
    BY <2>2 DEF Chat!StartAgent, Chat!Began, TalkFits, Chat!NoTalk
  <2> QED BY <1>4, <2>1, <2>2
<1>5. ASSUME talk.at \in {"agent", "again"}
      PROVE  "at" \in DOMAIN talk
  BY <1>5 DEF AnalysisFits, TalkFits, Chat!NoTalk
<1>6. CASE Chat!AgentAnswers(stored.list) \/ Chat!AgentOnlyTalks \/ Chat!CancelChat
  <2>1. Chat!After \in {"again", "over"}
    BY DEF Chat!After
  <2> QED BY <1>5, <1>6, <2>1 DEF Chat!AgentAnswers, Chat!AgentOnlyTalks, Chat!CancelChat, TalkFits, Chat!NoTalk
<1>7. CASE Chat!ParsesAgain(stored.list)
  <2> DEFINE outs == Chat!Handled(talk.d, Chat!DomainParsed([talk.req EXCEPT !.answer = talk.req.again],
                                                          stored.list, talk.req.scene.ents), FALSE)
  <2>1. talk' = Chat!Settled(talk, outs, "over") /\ talk.at = "again"
    BY <1>7 DEF Chat!ParsesAgain
  <2> HIDE DEF outs
  <2> QED BY <1>3, <1>5, <2>1
<1>8. ASSUME talk # Chat!NoTalk, talk'.at = talk.at, DOMAIN talk' = DOMAIN talk
      PROVE  TalkFits'
  BY <1>8 DEF AnalysisFits, TalkFits, Chat!NoTalk
<1>9. CASE Chat!ApproveEntity \/ Chat!RejectEntity
  <2>1. PICK d2, rejected : \/ talk' = [talk EXCEPT !.d = d2, !.panel = Chat!NoPanel]
                            \/ talk' = [talk EXCEPT !.d = d2, !.panel = Chat!NoPanel, !.rejected = rejected]
    BY <1>9 DEF Chat!ApproveEntity, Chat!RejectEntity
  <2>2. talk # Chat!NoTalk
    BY <1>9 DEF Chat!ApproveEntity, Chat!RejectEntity
  <2>3. "at" \in DOMAIN talk
    BY <2>2 DEF AnalysisFits, TalkFits
  <2> QED BY <1>8, <2>1, <2>2, <2>3
<1>10. CASE talk # Chat!NoTalk /\ \E ids \in Chat!Choice : Chat!ApproveFix(ids) \/ Chat!RejectFix(ids)
  <2>1. PICK d2, shown, approved : \/ talk' = [talk EXCEPT !.d = d2, !.shown = shown, !.approved = approved]
                                   \/ talk' = [talk EXCEPT !.shown = shown]
    BY <1>10 DEF Chat!ApproveFix, Chat!RejectFix
  <2>2. "at" \in DOMAIN talk
    BY <1>10 DEF AnalysisFits, TalkFits
  <2> QED BY <1>8, <1>10, <2>1, <2>2
<1> QED BY <1>1, <1>4, <1>6, <1>7, <1>9, <1>10 DEF Chat!TalkNext

\* The analysis is typed, whatever the drawing, the messages and the scripts are
\* (cad_interop.py 224-306, pipe/workflow_handler.py 1911-2398, websocket.py 500-516,
\* agent_service.py 239-424).
THEOREM AnalysisTyped == Spec => []TypeOK
<1>1. Init => AnalysisFits
  <2> SUFFICES ASSUME Init PROVE AnalysisFits
    OBVIOUS
  <2>1. TalkFits /\ talk.at = "none"
    BY DEF Init, Chat!TalkInit, Chat!NoTalk, TalkFits
  <2>2. ReviewFits
    BY DEF Init, ReviewInit, ReviewFits, ReviewTypeOK
  <2> QED BY <2>1, <2>2 DEF AnalysisFits
<1>2. AnalysisFits /\ [Next]_vars => AnalysisFits'
  <2> SUFFICES ASSUME AnalysisFits, [Next]_vars PROVE AnalysisFits'
    OBVIOUS
  <2>1. CASE UNCHANGED <<review, domain, talk>>
    BY <2>1 DEF AnalysisFits, TalkFits, ReviewFits, ReviewTypeOK, review, Others, Stages, Jobs, Gathered, Checks, NoResult
  <2>2. CASE BeginReview /\ UNCHANGED <<upload, talk, dialog>>
    BY <2>2, BeginningFits
  <2>3. CASE Advances /\ UNCHANGED <<upload, talk, dialog>>
    BY <2>3, AdvancingFits DEF Advances
  <2>4. CASE Concludes /\ UNCHANGED <<upload, talk, dialog>>
    BY <2>4, ConcludingFits
  <2>5. CASE StopReview /\ UNCHANGED <<upload, domain, talk, dialog>>
    BY <2>5, AdvancingFits
  <2>6. CASE Talks /\ UNCHANGED <<upload, review, domain, dialog>>
    BY <2>6, TalkingFits
  <2> QED BY <2>1, <2>2, <2>3, <2>4, <2>5, <2>6 DEF Next, vars
<1>3. AnalysisFits /\ UploadTypeOK /\ DialogTypeOK => TypeOK
  BY DEF AnalysisFits, TalkFits, ReviewFits, TypeOK
<1> QED BY <1>1, <1>2, <1>3, SpecUploads, SpecConverses, UploadIsTyped, DialogTyped, PTL DEF Spec

------------------------------------------------------------------------------
(* Runs and circuits of a drawing                                           *)

LEMMA OnlyIs ==
    ASSUME NEW S, NEW seq \in Seq(S), NEW handles
    PROVE  Only(seq, handles) \in Seq(S) /\ ToSet(Only(seq, handles)) = ToSet(seq) \intersect handles
BY FilteredIs DEF Only, FilterByHandles

(* Union-find: a forest over D, with f that leads from each x to its root   *)
(* and d that falls on the way.                                             *)

Forest(p, f, d, D) ==
    /\ p \in [D -> D] /\ f \in [D -> D] /\ d \in [D -> Nat]
    /\ \A x \in D : p[x] # x => d[p[x]] < d[x]
    /\ \A x \in D : f[x] = IF p[x] = x THEN x ELSE f[p[x]]
    /\ \A x \in D : p[f[x]] = f[x]

\* What leads from each to its root is determined by the parents.
LEMMA OneRoot ==
    ASSUME NEW D, NEW p, NEW f, NEW d, Forest(p, f, d, D),
           NEW g, \A x \in D : g[x] = IF p[x] = x THEN x ELSE g[p[x]]
    PROVE  \A x \in D : g[x] = f[x]
<1> DEFINE S == {n \in Nat : \A x \in D : d[x] <= n => g[x] = f[x]}
<1>1. \A x \in D : p[x] \in D /\ d[x] \in Nat /\ d[p[x]] \in Nat
  BY DEF Forest
<1>2. 0 \in S
  <2> SUFFICES ASSUME NEW x \in D, d[x] <= 0 PROVE g[x] = f[x]
    OBVIOUS
  <2>1. p[x] = x
    BY <1>1 DEF Forest
  <2> QED BY <2>1 DEF Forest
<1>3. ASSUME NEW n \in S PROVE n + 1 \in S
  <2> SUFFICES ASSUME NEW x \in D, d[x] <= n + 1 PROVE g[x] = f[x]
    OBVIOUS
  <2>1. CASE p[x] = x
    BY <2>1 DEF Forest
  <2>2. CASE p[x] # x
    <3>1. d[p[x]] <= n
      BY <1>1, <2>2 DEF Forest
    <3>2. g[p[x]] = f[p[x]]
      BY <1>1, <3>1
    <3> QED BY <2>2, <3>2 DEF Forest
  <2> QED BY <2>1, <2>2
<1>4. S = Nat
  <2>1. S \in SUBSET Nat
    OBVIOUS
  <2> HIDE DEF S
  <2> QED BY <1>2, <1>3, <2>1, OverNat
<1> QED BY <1>1, <1>4

LEMMA FindIs == ASSUME NEW D, NEW p, NEW f, NEW d, Forest(p, f, d, D) PROVE Find(p) = f
<1> DEFINE root[x \in DOMAIN p] == IF p[x] = x THEN x ELSE root[p[x]]
           body(g) == [x \in DOMAIN p |-> IF p[x] = x THEN x ELSE g[p[x]]]
<1>1. Find(p) = root
  BY DEF Find
<1>2. DOMAIN p = D /\ f \in [D -> D]
  BY DEF Forest
<1>3. f = body(f)
  BY <1>2 DEF Forest
<1>4. root = body(root)
  BY <1>3
<1> HIDE DEF root
<1>5. \A x \in D : root[x] = IF p[x] = x THEN x ELSE root[p[x]]
  BY <1>2, <1>4
<1>6. \A x \in D : root[x] = f[x]
  <2> HIDE DEF body
  <2> QED BY <1>5, OneRoot
<1>7. root = [x \in D |-> root[x]]
  BY <1>2, <1>4
<1>8. f = [x \in D |-> f[x]]
  BY <1>2
<1> QED BY <1>1, <1>6, <1>7, <1>8

\* A root is its own root, and a parent has the root of its child.
LEMMA RootsOf ==
    ASSUME NEW D, NEW p, NEW f, NEW d, Forest(p, f, d, D)
    PROVE  \A x \in D : f[x] \in D /\ p[x] \in D /\ f[f[x]] = f[x] /\ f[p[x]] = f[x]
<1> SUFFICES ASSUME NEW x \in D PROVE f[x] \in D /\ p[x] \in D /\ f[f[x]] = f[x] /\ f[p[x]] = f[x]
  OBVIOUS
<1>1. f[x] \in D /\ p[x] \in D
  BY DEF Forest
<1>2. p[f[x]] = f[x] /\ f[x] = IF p[x] = x THEN x ELSE f[p[x]]
  BY DEF Forest
<1>3. f[f[x]] = f[x]
  BY <1>1, <1>2 DEF Forest
<1> QED BY <1>1, <1>2, <1>3

JoinedRoots(f, a, b, D) == [x \in D |-> IF f[x] = f[a] THEN f[b] ELSE f[x]]

\* union(a, b): all that led to the root of a leads to the root of b.
LEMMA JoinedForest ==
    ASSUME NEW D, NEW p, NEW f, NEW d, Forest(p, f, d, D), NEW a \in D, NEW b \in D
    PROVE  \E d2 : Forest(Joined(p, <<a, b>>), JoinedRoots(f, a, b, D), d2, D)
<1> DEFINE q == [p EXCEPT ![f[a]] = f[b]]
           g == JoinedRoots(f, a, b, D)
           d2 == [x \in D |-> IF f[x] = f[a] /\ f[a] # f[b] THEN d[x] + d[f[b]] + 1 ELSE d[x]]
<1>1. Joined(p, <<a, b>>) = q
  BY FindIs DEF Joined
<1>2. \A x \in D : f[x] \in D /\ p[x] \in D /\ f[f[x]] = f[x] /\ f[p[x]] = f[x]
  BY RootsOf
<1>3. /\ \A x \in D : d[x] \in Nat /\ (p[x] # x => d[p[x]] < d[x]) /\ p[f[x]] = f[x]
      /\ \A x \in D : p[x] = x => f[x] = x
      /\ p \in [D -> D]
  BY DEF Forest
<1>4. \A x \in D : q[x] = (IF x = f[a] THEN f[b] ELSE p[x]) /\ g[x] = IF f[x] = f[a] THEN f[b] ELSE f[x]
  BY <1>2, <1>3 DEF JoinedRoots
<1>5. q \in [D -> D] /\ g \in [D -> D]
  BY <1>2, <1>3 DEF JoinedRoots
<1>6. d2 \in [D -> Nat] /\ \A x \in D : d2[x] = IF f[x] = f[a] /\ f[a] # f[b] THEN d[x] + d[f[b]] + 1 ELSE d[x]
  BY <1>2, <1>3
<1> HIDE DEF q, g, d2
<1>7. ASSUME NEW x \in D, q[x] # x PROVE d2[q[x]] < d2[x]
  <2>1. CASE x = f[a]
    <3>1. q[x] = f[b] /\ f[a] # f[b] /\ f[x] = f[a] /\ f[f[b]] = f[b]
      BY <1>2, <1>4, <1>7, <2>1
    <3>2. d2[f[b]] = d[f[b]] /\ d2[x] = d[x] + d[f[b]] + 1
      BY <1>2, <1>6, <3>1
    <3> QED BY <1>2, <1>3, <3>1, <3>2
  <2>2. CASE x # f[a]
    <3>1. q[x] = p[x] /\ p[x] \in D /\ f[p[x]] = f[x] /\ d[p[x]] < d[x]
      BY <1>2, <1>3, <1>4, <1>7, <2>2
    <3>2. d[x] \in Nat /\ d[p[x]] \in Nat /\ d[f[b]] \in Nat
      BY <1>2, <1>3
    <3> QED BY <1>6, <3>1, <3>2
  <2> QED BY <2>1, <2>2
<1>8. ASSUME NEW x \in D PROVE g[x] = (IF q[x] = x THEN x ELSE g[q[x]]) /\ q[g[x]] = g[x]
  <2>1. f[x] \in D /\ p[x] \in D /\ q[x] \in D /\ f[a] \in D /\ f[b] \in D
    BY <1>2, <1>5
  <2>2. g[x] = IF q[x] = x THEN x ELSE g[q[x]]
    <3>1. CASE x = f[a]
      BY <1>2, <1>4, <2>1, <3>1
    <3>2. CASE x # f[a]
      <4>1. q[x] = p[x] /\ f[p[x]] = f[x]
        BY <1>2, <1>4, <3>2
      <4>2. CASE p[x] = x
        <5>1. f[x] = x
          BY <1>3, <4>2
        <5>2. g[x] = x
          BY <1>4, <3>2, <5>1
        <5> QED BY <4>1, <4>2, <5>2
      <4>3. CASE p[x] # x
        BY <1>4, <2>1, <4>1, <4>3
      <4> QED BY <4>2, <4>3
    <3> QED BY <3>1, <3>2
  <2>3. q[g[x]] = g[x]
    <3>1. CASE f[x] = f[a]
      <4>1. g[x] = f[b]
        BY <1>4, <3>1
      <4>2. q[f[b]] = f[b]
        BY <1>3, <1>4, <2>1
      <4> QED BY <4>1, <4>2
    <3>2. CASE f[x] # f[a]
      <4>1. g[x] = f[x]
        BY <1>4, <3>2
      <4>2. q[f[x]] = p[f[x]]
        BY <1>4, <2>1, <3>2
      <4> QED BY <1>3, <4>1, <4>2
    <3> QED BY <3>1, <3>2
  <2> QED BY <2>2, <2>3
<1>9. Forest(q, g, d2, D)
  BY <1>5, <1>6, <1>7, <1>8 DEF Forest
<1> QED BY <1>1, <1>9 DEF g

\* No part of a group is without a link out of it, if L are the links.
Linked(L, x, y) == <<x, y>> \in L \/ <<y, x>> \in L
Tied(f, L, D) ==
    \A r \in D : \A part \in SUBSET {x \in D : f[x] = f[r]} :
        part # {} /\ part # {x \in D : f[x] = f[r]} =>
            \E x \in part : \E y \in D : f[y] = f[r] /\ y \notin part /\ Linked(L, x, y)

\* Two groups with a link between them make one that is tied.
LEMMA JoinedTied ==
    ASSUME NEW D, NEW L, NEW f, f \in [D -> D], Tied(f, L, D), NEW a \in D, NEW b \in D, <<a, b>> \in L
    PROVE  Tied(JoinedRoots(f, a, b, D), L, D)
<1> DEFINE g == JoinedRoots(f, a, b, D)
<1>1. \A x \in D : g[x] = IF f[x] = f[a] THEN f[b] ELSE f[x]
  BY DEF JoinedRoots
<1> HIDE DEF g
<1> SUFFICES ASSUME NEW r \in D, NEW part \in SUBSET {x \in D : g[x] = g[r]},
                    part # {}, part # {x \in D : g[x] = g[r]}
             PROVE  \E x \in part : \E y \in D : g[y] = g[r] /\ y \notin part /\ Linked(L, x, y)
  BY DEF Tied, g
<1>2. CASE f[r] # f[a] /\ f[r] # f[b]
  <2>1. \A x \in D : g[x] = g[r] <=> f[x] = f[r]
    BY <1>1, <1>2
  <2>2. part \in SUBSET {x \in D : f[x] = f[r]} /\ part # {x \in D : f[x] = f[r]}
    BY <2>1
  <2>3. \E x \in part : \E y \in D : f[y] = f[r] /\ y \notin part /\ Linked(L, x, y)
    BY <2>2 DEF Tied
  <2> QED BY <2>1, <2>3
<1>3. CASE f[r] = f[a] \/ f[r] = f[b]
  <2> DEFINE inA == {x \in part : f[x] = f[a]}
             inB == {x \in part : f[x] = f[b]}
  <2>1. \A x \in D : g[x] = g[r] <=> f[x] = f[a] \/ f[x] = f[b]
    BY <1>1, <1>3
  <2>2. inA \in SUBSET {x \in D : f[x] = f[a]} /\ inB \in SUBSET {x \in D : f[x] = f[b]}
    OBVIOUS
  <2>3. CASE inA # {} /\ inA # {x \in D : f[x] = f[a]}
    <3>1. \E x \in inA : \E y \in D : f[y] = f[a] /\ y \notin inA /\ Linked(L, x, y)
      BY <2>2, <2>3 DEF Tied
    <3> QED BY <2>1, <3>1
  <2>4. CASE inB # {} /\ inB # {x \in D : f[x] = f[b]}
    <3>1. \E x \in inB : \E y \in D : f[y] = f[b] /\ y \notin inB /\ Linked(L, x, y)
      BY <2>2, <2>4 DEF Tied
    <3> QED BY <2>1, <3>1
  <2>5. CASE (inA = {} \/ inA = {x \in D : f[x] = f[a]}) /\ (inB = {} \/ inB = {x \in D : f[x] = f[b]})
    <3>1. part = inA \union inB
      BY <2>1
    <3>2. {x \in D : g[x] = g[r]} = {x \in D : f[x] = f[a]} \union {x \in D : f[x] = f[b]}
      BY <2>1
    <3>3. CASE inA = {x \in D : f[x] = f[a]} /\ inB = {}
      <4>1. a \in part /\ b \notin part /\ g[b] = g[r]
        BY <2>1, <3>1, <3>3
      <4> QED BY <4>1 DEF Linked
    <3>4. CASE inA = {} /\ inB = {x \in D : f[x] = f[b]}
      <4>1. b \in part /\ a \notin part /\ g[a] = g[r]
        BY <2>1, <3>1, <3>4
      <4> QED BY <4>1 DEF Linked
    <3> QED BY <2>5, <3>1, <3>2, <3>3, <3>4
  <2> QED BY <2>3, <2>4, <2>5
<1> QED BY <1>2, <1>3

\* The forests whose groups are tied by L.
Forests(L, D) == {p \in [D -> D] : \E f, d : Forest(p, f, d, D) /\ Tied(f, L, D)}
\* q has joined what p has, and more perhaps.
Coarser(p, q, D) == \A x, y \in D : Find(p)[x] = Find(p)[y] => Find(q)[x] = Find(q)[y]

\* A union of two that are linked keeps the groups tied, and forgets no union.
LEMMA JoinedFits ==
    ASSUME NEW D, NEW L, NEW p \in Forests(L, D), NEW a \in D, NEW b \in D, <<a, b>> \in L
    PROVE  /\ Joined(p, <<a, b>>) \in Forests(L, D) /\ Coarser(p, Joined(p, <<a, b>>), D)
           /\ Find(Joined(p, <<a, b>>))[a] = Find(Joined(p, <<a, b>>))[b]
<1> DEFINE q == Joined(p, <<a, b>>)
<1>1. PICK f, d : Forest(p, f, d, D) /\ Tied(f, L, D)
  BY DEF Forests
<1> DEFINE g == JoinedRoots(f, a, b, D)
<1>2. PICK d2 : Forest(q, g, d2, D)
  BY <1>1, JoinedForest
<1>3. Find(p) = f /\ Find(q) = g
  BY <1>1, <1>2, FindIs
<1>4. Tied(g, L, D) /\ q \in [D -> D]
  BY <1>1, <1>2, JoinedTied DEF Forest
<1>5. \A x \in D : g[x] = IF f[x] = f[a] THEN f[b] ELSE f[x]
  BY DEF JoinedRoots
<1> HIDE DEF q, g
<1>6. q \in Forests(L, D)
  BY <1>2, <1>4 DEF Forests
<1>7. Coarser(p, q, D) /\ g[a] = g[b]
  BY <1>3, <1>5 DEF Coarser
<1> QED BY <1>3, <1>6, <1>7 DEF q

LEMMA JoinToSteps ==
    ASSUME NEW D, NEW L, NEW p \in Forests(L, D), NEW a \in D, NEW inner \in Seq(D), NEW pairs \in SUBSET L
    PROVE  \E g : /\ g[0] = p /\ JoinTo(p, a, inner, pairs) = g[Len(inner)]
                  /\ \A k \in 0..(Len(inner) - 1) :
                        g[k + 1] = IF <<a, inner[k + 1]>> \in pairs THEN Joined(g[k], <<a, inner[k + 1]>>) ELSE g[k]
<1> DEFINE n == Len(inner)
           Op(q, y) == IF <<a, y>> \in pairs THEN Joined(q, <<a, y>>) ELSE q
           it[u \in SUBSET (DOMAIN inner)] == IF u = {} THEN p ELSE LET k == Max(u) IN Op(it[u \ {k}], inner[k])
           body(f) == [u \in SUBSET (DOMAIN inner) |->
                           IF u = {} THEN p ELSE LET k == Max(u) IN Op(f[u \ {k}], inner[k])]
           step == [z \in (1..n) \X Forests(L, D) |-> Op(z[2], inner[z[1]])]
<1>1. DOMAIN inner = 1..n /\ n \in Nat /\ \A k \in 1..n : inner[k] \in D
  OBVIOUS
<1>2. JoinTo(p, a, inner, pairs) = it[DOMAIN inner]
  BY DEF JoinTo, FoldLeft, MapThenFoldSet
<1>3. it = body(it)
  <2>1. \A q \in Forests(L, D), y \in D : Op(q, y) \in Forests(L, D)
    BY JoinedFits
  <2>2. step \in [(1..n) \X Forests(L, D) -> Forests(L, D)]
    <3> HIDE DEF Op
    <3> QED BY <1>1, <2>1
  <2>3. PICK f \in [SUBSET (1..n) -> Forests(L, D)] : Folding(n, p, step, f)
    <3> HIDE DEF step, n
    <3> QED BY <1>1, <2>2, FoldingExists
  <2>4. f = body(f)
    <3> SUFFICES ASSUME NEW u \in SUBSET (1..n), u # {}
                 PROVE  step[<<Max(u), f[u \ {Max(u)}]>>] = Op(f[u \ {Max(u)}], inner[Max(u)])
      BY <1>1, <2>3 DEF Folding
    <3>1. Max(u) \in 1..n /\ f[u \ {Max(u)}] \in Forests(L, D)
      BY <1>1, LastIsIn
    <3> HIDE DEF Op
    <3> QED BY <3>1
  <2> HIDE DEF step
  <2> QED BY <2>4
<1>4. \A u \in SUBSET (1..n) : it[u] = IF u = {} THEN p ELSE Op(it[u \ {Max(u)}], inner[Max(u)])
  <2> HIDE DEF it
  <2> QED BY <1>1, <1>3
<1> HIDE DEF it, n
<1> DEFINE g == [k \in 0..n |-> it[1..k]]
<1>5. \A k \in 0..(n - 1) : g[k + 1] = Op(g[k], inner[k + 1])
  <2> SUFFICES ASSUME NEW k \in 0..(n - 1) PROVE it[1..(k + 1)] = Op(it[1..k], inner[k + 1])
    BY <1>1
  <2>1. /\ Max(1..(k + 1)) = k + 1 /\ (1..(k + 1)) \ {k + 1} = 1..k
        /\ 1..(k + 1) \in SUBSET (1..n) /\ 1..(k + 1) # {}
    BY <1>1, LastPlace
  <2> HIDE DEF Op
  <2> QED BY <1>4, <2>1
<1>6. g[0] = p /\ g[n] = it[DOMAIN inner]
  <2>1. 1..0 = {} /\ {} \in SUBSET (1..n) /\ 0 \in 0..n /\ n \in 0..n
    BY <1>1
  <2>2. g[0] = it[1..0] /\ g[n] = it[1..n]
    BY <2>1
  <2>3. it[{}] = p
    BY <1>4
  <2> QED BY <1>1, <2>1, <2>2, <2>3
<1> HIDE DEF g
<1> QED BY <1>2, <1>5, <1>6 DEF n

\* All pairs of one element are joined, whatever comes between them.
LEMMA JoinToFits ==
    ASSUME NEW D, NEW L, NEW p \in Forests(L, D), NEW a \in D, NEW inner \in Seq(D), NEW pairs \in SUBSET L
    PROVE  /\ JoinTo(p, a, inner, pairs) \in Forests(L, D) /\ Coarser(p, JoinTo(p, a, inner, pairs), D)
           /\ \A i \in DOMAIN inner : <<a, inner[i]>> \in pairs =>
                  Find(JoinTo(p, a, inner, pairs))[a] = Find(JoinTo(p, a, inner, pairs))[inner[i]]
<1> DEFINE n == Len(inner)
<1>1. n \in Nat /\ DOMAIN inner = 1..n /\ \A k \in 1..n : inner[k] \in D
  OBVIOUS
<1>2. PICK g : /\ g[0] = p /\ JoinTo(p, a, inner, pairs) = g[n]
               /\ \A k \in 0..(n - 1) : g[k + 1] =
                      IF <<a, inner[k + 1]>> \in pairs THEN Joined(g[k], <<a, inner[k + 1]>>) ELSE g[k]
  BY JoinToSteps
<1> DEFINE Holds == {k \in 0..n : /\ g[k] \in Forests(L, D) /\ Coarser(p, g[k], D)
                                  /\ \A i \in 1..k : <<a, inner[i]>> \in pairs =>
                                         Find(g[k])[a] = Find(g[k])[inner[i]]}
<1> HIDE DEF n
<1>3. 0 \in Holds
  <2>1. 0 \in 0..n /\ 1..0 = {}
    BY <1>1
  <2>2. Coarser(p, p, D)
    BY DEF Coarser
  <2> QED BY <1>2, <2>1, <2>2
<1>4. ASSUME NEW k \in 0..(n - 1), k \in Holds PROVE k + 1 \in Holds
  <2>1. k + 1 \in 1..n /\ k + 1 \in 0..n /\ inner[k + 1] \in D
    BY <1>1
  <2>2. /\ g[k] \in Forests(L, D) /\ Coarser(p, g[k], D)
        /\ \A i \in 1..k : <<a, inner[i]>> \in pairs => Find(g[k])[a] = Find(g[k])[inner[i]]
    BY <1>4
  <2>3. /\ g[k + 1] \in Forests(L, D) /\ Coarser(g[k], g[k + 1], D)
        /\ <<a, inner[k + 1]>> \in pairs => Find(g[k + 1])[a] = Find(g[k + 1])[inner[k + 1]]
    <3>1. CASE <<a, inner[k + 1]>> \in pairs
      <4>1. g[k + 1] = Joined(g[k], <<a, inner[k + 1]>>)
        BY <1>2, <3>1
      <4> QED BY <2>1, <2>2, <3>1, <4>1, JoinedFits
    <3>2. CASE <<a, inner[k + 1]>> \notin pairs
      <4>1. g[k + 1] = g[k]
        BY <1>2, <3>2
      <4> QED BY <2>2, <3>2, <4>1 DEF Coarser
    <3> QED BY <3>1, <3>2
  <2>4. Coarser(p, g[k + 1], D)
    BY <2>2, <2>3 DEF Coarser
  <2>5. \A i \in 1..k : <<a, inner[i]>> \in pairs => Find(g[k + 1])[a] = Find(g[k + 1])[inner[i]]
    BY <1>1, <2>2, <2>3 DEF Coarser
  <2>6. \A i \in 1..(k + 1) : i \in 1..k \/ i = k + 1
    OBVIOUS
  <2> QED BY <2>1, <2>3, <2>4, <2>5, <2>6
<1>5. n \in Holds
  <2> HIDE DEF Holds
  <2>1. \A k \in 0..n : k \in Holds
    BY <1>1, <1>3, <1>4, UpTo
  <2> QED BY <1>1, <2>1
<1> QED BY <1>1, <1>2, <1>5

\* What the passes over the inner list make one after the other.
Visits(g, p, outer, inner, pairs) ==
    g[0] = p /\ \A k \in 0..(Len(outer) - 1) : g[k + 1] = JoinTo(g[k], outer[k + 1], inner, pairs)

LEMMA JoinAllSteps ==
    ASSUME NEW D, NEW L, NEW p \in Forests(L, D), NEW outer \in Seq(D), NEW inner \in Seq(D), NEW pairs \in SUBSET L
    PROVE  \E g : Visits(g, p, outer, inner, pairs) /\ JoinAll(p, outer, inner, pairs) = g[Len(outer)]
<1> DEFINE n == Len(outer)
           Op(q, y) == JoinTo(q, y, inner, pairs)
           it[u \in SUBSET (DOMAIN outer)] == IF u = {} THEN p ELSE LET k == Max(u) IN Op(it[u \ {k}], outer[k])
           body(f) == [u \in SUBSET (DOMAIN outer) |->
                           IF u = {} THEN p ELSE LET k == Max(u) IN Op(f[u \ {k}], outer[k])]
           step == [z \in (1..n) \X Forests(L, D) |-> Op(z[2], outer[z[1]])]
<1>1. DOMAIN outer = 1..n /\ n \in Nat /\ \A k \in 1..n : outer[k] \in D
  OBVIOUS
<1>2. JoinAll(p, outer, inner, pairs) = it[DOMAIN outer]
  BY DEF JoinAll, FoldLeft, MapThenFoldSet
<1>3. it = body(it)
  <2>1. \A q \in Forests(L, D), y \in D : Op(q, y) \in Forests(L, D)
    BY JoinToFits
  <2>2. step \in [(1..n) \X Forests(L, D) -> Forests(L, D)]
    <3> HIDE DEF Op
    <3> QED BY <1>1, <2>1
  <2>3. PICK f \in [SUBSET (1..n) -> Forests(L, D)] : Folding(n, p, step, f)
    <3> HIDE DEF step, n
    <3> QED BY <1>1, <2>2, FoldingExists
  <2>4. f = body(f)
    <3> SUFFICES ASSUME NEW u \in SUBSET (1..n), u # {}
                 PROVE  step[<<Max(u), f[u \ {Max(u)}]>>] = Op(f[u \ {Max(u)}], outer[Max(u)])
      BY <1>1, <2>3 DEF Folding
    <3>1. Max(u) \in 1..n /\ f[u \ {Max(u)}] \in Forests(L, D)
      BY <1>1, LastIsIn
    <3> HIDE DEF Op
    <3> QED BY <3>1
  <2> HIDE DEF step
  <2> QED BY <2>4
<1>4. \A u \in SUBSET (1..n) : it[u] = IF u = {} THEN p ELSE Op(it[u \ {Max(u)}], outer[Max(u)])
  <2> HIDE DEF it
  <2> QED BY <1>1, <1>3
<1> HIDE DEF it, n
<1> DEFINE g == [k \in 0..n |-> it[1..k]]
<1>5. \A k \in 0..(n - 1) : g[k + 1] = Op(g[k], outer[k + 1])
  <2> SUFFICES ASSUME NEW k \in 0..(n - 1) PROVE it[1..(k + 1)] = Op(it[1..k], outer[k + 1])
    BY <1>1
  <2>1. /\ Max(1..(k + 1)) = k + 1 /\ (1..(k + 1)) \ {k + 1} = 1..k
        /\ 1..(k + 1) \in SUBSET (1..n) /\ 1..(k + 1) # {}
    BY <1>1, LastPlace
  <2> HIDE DEF Op
  <2> QED BY <1>4, <2>1
<1>6. g[0] = p /\ g[n] = it[DOMAIN outer]
  <2>1. 1..0 = {} /\ {} \in SUBSET (1..n) /\ 0 \in 0..n /\ n \in 0..n
    BY <1>1
  <2>2. g[0] = it[1..0] /\ g[n] = it[1..n]
    BY <2>1
  <2>3. it[{}] = p
    BY <1>4
  <2> QED BY <1>1, <2>1, <2>2, <2>3
<1> HIDE DEF g
<1> QED BY <1>2, <1>5, <1>6 DEF n, Visits

\* All pairs are joined, whatever the order of the lists.
LEMMA JoinAllFits ==
    ASSUME NEW D, NEW L, NEW p \in Forests(L, D), NEW outer \in Seq(D), NEW inner \in Seq(D), NEW pairs \in SUBSET L
    PROVE  /\ JoinAll(p, outer, inner, pairs) \in Forests(L, D) /\ Coarser(p, JoinAll(p, outer, inner, pairs), D)
           /\ \A i \in DOMAIN outer : \A j \in DOMAIN inner : <<outer[i], inner[j]>> \in pairs =>
                  Find(JoinAll(p, outer, inner, pairs))[outer[i]] = Find(JoinAll(p, outer, inner, pairs))[inner[j]]
<1> DEFINE n == Len(outer)
<1>1. n \in Nat /\ DOMAIN outer = 1..n /\ \A k \in 1..n : outer[k] \in D
  OBVIOUS
<1>a. PICK g : Visits(g, p, outer, inner, pairs) /\ JoinAll(p, outer, inner, pairs) = g[n]
  BY JoinAllSteps
<1>2. /\ g[0] = p /\ JoinAll(p, outer, inner, pairs) = g[n]
      /\ \A k \in 0..(n - 1) : g[k + 1] = JoinTo(g[k], outer[k + 1], inner, pairs)
  BY <1>a DEF Visits
<1> DEFINE Holds == {k \in 0..n : /\ g[k] \in Forests(L, D) /\ Coarser(p, g[k], D)
                                  /\ \A i \in 1..k : \A j \in DOMAIN inner : <<outer[i], inner[j]>> \in pairs =>
                                         Find(g[k])[outer[i]] = Find(g[k])[inner[j]]}
<1> HIDE DEF n
<1>3. 0 \in Holds
  <2>1. 0 \in 0..n /\ 1..0 = {}
    BY <1>1
  <2>2. Coarser(p, p, D)
    BY DEF Coarser
  <2> QED BY <1>2, <2>1, <2>2
<1>4. ASSUME NEW k \in 0..(n - 1), k \in Holds PROVE k + 1 \in Holds
  <2>1. k + 1 \in 1..n /\ k + 1 \in 0..n /\ outer[k + 1] \in D
    BY <1>1
  <2>2. /\ g[k] \in Forests(L, D) /\ Coarser(p, g[k], D)
        /\ \A i \in 1..k : \A j \in DOMAIN inner : <<outer[i], inner[j]>> \in pairs =>
               Find(g[k])[outer[i]] = Find(g[k])[inner[j]]
    BY <1>4
  <2>3. /\ g[k + 1] \in Forests(L, D) /\ Coarser(g[k], g[k + 1], D)
        /\ \A j \in DOMAIN inner : <<outer[k + 1], inner[j]>> \in pairs =>
               Find(g[k + 1])[outer[k + 1]] = Find(g[k + 1])[inner[j]]
    <3>1. g[k + 1] = JoinTo(g[k], outer[k + 1], inner, pairs)
      BY <1>2
    <3> QED BY <2>1, <2>2, <3>1, JoinToFits
  <2>4. Coarser(p, g[k + 1], D)
    BY <2>2, <2>3 DEF Coarser
  <2>5. \A i \in 1..k : \A j \in DOMAIN inner : <<outer[i], inner[j]>> \in pairs =>
            Find(g[k + 1])[outer[i]] = Find(g[k + 1])[inner[j]]
    <3>1. \A j \in DOMAIN inner : inner[j] \in D
      OBVIOUS
    <3> QED BY <1>1, <2>2, <2>3, <3>1 DEF Coarser
  <2>6. \A i \in 1..(k + 1) : i \in 1..k \/ i = k + 1
    OBVIOUS
  <2> QED BY <2>1, <2>3, <2>4, <2>5, <2>6
<1>5. n \in Holds
  <2> HIDE DEF Holds
  <2>1. \A k \in 0..n : k \in Holds
    BY <1>1, <1>3, <1>4, UpTo
  <2> QED BY <1>1, <2>1
<1> QED BY <1>1, <1>2, <1>5

\* Before anything is joined each one is a group by itself.
LEMMA AloneFits == ASSUME NEW D, NEW L PROVE [x \in D |-> x] \in Forests(L, D)
<1> DEFINE p == [x \in D |-> x]
           d == [x \in D |-> 0]
<1>1. Forest(p, p, d, D)
  BY DEF Forest
<1>2. Tied(p, L, D)
  BY DEF Tied
<1> QED BY <1>1, <1>2 DEF Forests

LEMMA FitsFind ==
    ASSUME NEW D, NEW L, NEW p \in Forests(L, D)
    PROVE  /\ DOMAIN p = D /\ Find(p) \in [D -> D] /\ Tied(Find(p), L, D)
           /\ \A x \in D : Find(p)[Find(p)[x]] = Find(p)[x]
<1>1. PICK f, d : Forest(p, f, d, D) /\ Tied(f, L, D)
  BY DEF Forests
<1>2. Find(p) = f
  BY <1>1, FindIs
<1> QED BY <1>1, <1>2, RootsOf DEF Forests, Forest

\* An order of a finite set has all of it.
LEMMA OrderIs ==
    ASSUME NEW S, IsFiniteSet(S), NEW order \in SetToSeqs(S)
    PROVE  order \in Seq(S) /\ \A x \in S : \E i \in DOMAIN order : order[i] = x
<1> DEFINE n == Cardinality(S)
<1>1. n \in Nat
  BY FS_CardinalityType
<1>2. order \in [1..n -> S] /\ \A i, j \in 1..n : i # j => order[i] # order[j]
  BY DEF SetToSeqs
<1>3. order \in Injection(1..n, S)
  BY <1>2 DEF Injection, IsInjective
<1>4. Cardinality(1..n) = n
  BY <1>1, FS_Interval
<1>5. order \in Surjection(1..n, S)
  BY <1>3, <1>4, FS_Injection
<1> QED BY <1>1, <1>2, <1>5 DEF Surjection

LEMMA RangeIsFinite ==
    ASSUME NEW S, NEW s \in Seq(S)
    PROVE  IsFiniteSet(ToSet(s)) /\ \A x \in ToSet(s) : \E i \in DOMAIN s : s[i] = x
<1>1. s \in Surjection(DOMAIN s, ToSet(s))
  BY DEF Surjection, ToSet
<1>2. IsFiniteSet(DOMAIN s)
  BY FS_Interval
<1> QED BY <1>1, <1>2, FS_Surjection DEF ToSet

\* The runs of a pipe drawing.
LEMMA RunsHang ==
    ASSUME NEW S, NEW s \in Seq(S), NEW plan, NEW order \in SetToSeqs(ToSet(s))
    PROVE  /\ UNION Runs(plan, s, order) = ToSet(s)
           /\ \A run \in Runs(plan, s, order) :
                /\ \A a \in run, b \in ToSet(s) : {a, b} \in plan.touch => b \in run
                /\ \A part \in (SUBSET run) \ {{}, run} : \E a \in part, b \in run \ part : {a, b} \in plan.touch
<1> DEFINE D == ToSet(s)
           L == Adjacent(plan, s)
           p == JoinAll([x \in D |-> x], s, order, L)
           root == Find(p)
<1>1. s \in Seq(D) /\ order \in Seq(D) /\ \A x \in D : \E i \in DOMAIN order : order[i] = x
  BY RangeIsFinite, OrderIs DEF ToSet
<1>2. \A x \in D : \E i \in DOMAIN s : s[i] = x
  BY DEF ToSet
<1>3. /\ p \in Forests(L, D)
      /\ \A i \in DOMAIN s : \A j \in DOMAIN order : <<s[i], order[j]>> \in L => root[s[i]] = root[order[j]]
  <2>1. [x \in D |-> x] \in Forests(L, D) /\ L \in SUBSET L
    BY AloneFits
  <2> HIDE DEF L, D
  <2> QED BY <1>1, <2>1, JoinAllFits
<1>4. Runs(plan, s, order) = {{x \in D : root[x] = root[y]} : y \in D}
  <2>1. DOMAIN p = D
    <3> HIDE DEF p
    <3> QED BY <1>3, FitsFind
  <2> QED BY <2>1 DEF Runs, Groups
<1> HIDE DEF p, root
<1>5. Tied(root, L, D)
  BY <1>3, FitsFind DEF root
<1>6. ASSUME NEW a \in D, NEW b \in D, {a, b} \in plan.touch PROVE root[a] = root[b]
  <2>1. CASE a = b
    BY <2>1
  <2>2. CASE a # b
    <3>1. PICK i \in DOMAIN s : s[i] = a
      BY <1>2
    <3>2. PICK k \in DOMAIN s : s[k] = b
      BY <1>2
    <3>3. i # k
      BY <2>2, <3>1, <3>2
    <3>4. <<a, b>> \in L
      BY <1>6, <3>1, <3>2, <3>3 DEF Adjacent, Touches
    <3>5. PICK j \in DOMAIN order : order[j] = b
      BY <1>1
    <3> QED BY <1>3, <3>1, <3>4, <3>5
  <2> QED BY <2>1, <2>2
<1>7. ASSUME NEW y \in D, NEW part \in SUBSET {x \in D : root[x] = root[y]},
             part # {}, part # {x \in D : root[x] = root[y]}
      PROVE  \E a \in part : \E b \in D : root[b] = root[y] /\ b \notin part /\ {a, b} \in plan.touch
  <2>1. PICK a \in part : \E b \in D : root[b] = root[y] /\ b \notin part /\ Linked(L, a, b)
    <3> HIDE DEF L, D
    <3> QED BY <1>5, <1>7 DEF Tied
  <2>2. PICK b \in D : root[b] = root[y] /\ b \notin part /\ Linked(L, a, b)
    BY <2>1
  <2>3. Touches(plan, a, b) \/ Touches(plan, b, a)
    BY <2>2 DEF Linked, Adjacent
  <2>4. {a, b} = {b, a} /\ a # b
    BY <2>2
  <2> QED BY <2>2, <2>3, <2>4 DEF Touches
<1> HIDE DEF D, L
<1>8. UNION Runs(plan, s, order) = D
  BY <1>4
<1>9. ASSUME NEW run \in Runs(plan, s, order)
      PROVE  /\ \A a \in run, b \in D : {a, b} \in plan.touch => b \in run
             /\ \A part \in (SUBSET run) \ {{}, run} : \E a \in part, b \in run \ part : {a, b} \in plan.touch
  <2>1. PICK y \in D : run = {x \in D : root[x] = root[y]}
    BY <1>4
  <2>2. \A a \in run, b \in D : {a, b} \in plan.touch => b \in run
    BY <1>6, <2>1
  <2>3. ASSUME NEW part \in (SUBSET run) \ {{}, run} PROVE \E a \in part, b \in run \ part : {a, b} \in plan.touch
    <3>1. part \in SUBSET {x \in D : root[x] = root[y]} /\ part # {} /\ part # {x \in D : root[x] = root[y]}
      BY <2>1
    <3>2. PICK a \in part : \E b \in D : root[b] = root[y] /\ b \notin part /\ {a, b} \in plan.touch
      BY <1>7, <3>1
    <3>3. PICK b \in D : root[b] = root[y] /\ b \notin part /\ {a, b} \in plan.touch
      BY <3>2
    <3>4. b \in run \ part
      BY <2>1, <3>3
    <3> QED BY <3>3, <3>4
  <2> QED BY <2>2, <2>3
<1> QED BY <1>8, <1>9 DEF D

\* The numbers of the places of a list, in their order.
LEMMA PlacesAre ==
    ASSUME NEW S, NEW s \in Seq(S)
    PROVE  /\ PlacesOf(s) \in Seq(DOMAIN s) /\ ToSet(PlacesOf(s)) = DOMAIN s /\ DOMAIN PlacesOf(s) = DOMAIN s
           /\ PlacesOf(s) = [x \in DOMAIN s |-> x]
<1>1. PICK n \in Nat : DOMAIN s = 1..n
  OBVIOUS
<1> QED BY <1>1 DEF PlacesOf, ToSet

\* What the four passes are about.
Ties(plan, s) == EndsMeet(plan, s) \union Tees(plan, s) \union Across(s, plan.arcs) \union Across(s, plan.noted)

\* So it is after one pass over the places, and after the four.
LEMMA PassFits ==
    ASSUME NEW S, NEW s \in Seq(S), NEW L, NEW p \in Forests(L, DOMAIN s), NEW pairs \in SUBSET L
    PROVE  /\ Pass(p, s, pairs) \in Forests(L, DOMAIN s) /\ Coarser(p, Pass(p, s, pairs), DOMAIN s)
           /\ \A i, j \in DOMAIN s : <<i, j>> \in pairs => Find(Pass(p, s, pairs))[i] = Find(Pass(p, s, pairs))[j]
<1> DEFINE D == DOMAIN s
           places == PlacesOf(s)
           q == JoinAll(p, places, places, pairs)
<1>1. places \in Seq(D) /\ DOMAIN places = D /\ \A i \in D : places[i] = i
  BY PlacesAre
<1>2. Pass(p, s, pairs) = q
  BY DEF Pass
<1> HIDE DEF places, D
<1>3. /\ q \in Forests(L, D) /\ Coarser(p, q, D)
      /\ \A i \in DOMAIN places : \A j \in DOMAIN places : <<places[i], places[j]>> \in pairs =>
             Find(q)[places[i]] = Find(q)[places[j]]
  BY <1>1, JoinAllFits DEF D
<1> HIDE DEF q
<1> QED BY <1>1, <1>2, <1>3 DEF D

LEMMA WiredFits ==
    ASSUME NEW S, NEW s \in Seq(S), NEW plan
    PROVE  LET D == DOMAIN s
               root == Find(Wired(plan, s))
           IN  /\ root \in [D -> D] /\ Tied(root, Ties(plan, s), D)
               /\ \A i, j \in D : <<i, j>> \in Ties(plan, s) => root[i] = root[j]
<1> DEFINE D == DOMAIN s
           L == Ties(plan, s)
           p0 == PlacesOf(s)
           p1 == Pass(p0, s, EndsMeet(plan, s))
           p2 == Pass(p1, s, Tees(plan, s))
           p3 == Pass(p2, s, Across(s, plan.arcs))
           p4 == Pass(p3, s, Across(s, plan.noted))
<1>1. p0 \in Forests(L, D)
  BY PlacesAre, AloneFits
<1>2. EndsMeet(plan, s) \in SUBSET L /\ Tees(plan, s) \in SUBSET L /\ Across(s, plan.arcs) \in SUBSET L
      /\ Across(s, plan.noted) \in SUBSET L
  BY DEF Ties
<1>3. Wired(plan, s) = p4
  BY DEF Wired
<1>4. L = EndsMeet(plan, s) \union Tees(plan, s) \union Across(s, plan.arcs) \union Across(s, plan.noted)
  BY DEF Ties
<1> HIDE DEF L, p0
<1>5. /\ p1 \in Forests(L, D) /\ \A i, j \in D : <<i, j>> \in EndsMeet(plan, s) => Find(p1)[i] = Find(p1)[j]
  BY <1>1, <1>2, PassFits
<1> HIDE DEF p1
<1>6. /\ p2 \in Forests(L, D) /\ Coarser(p1, p2, D)
      /\ \A i, j \in D : <<i, j>> \in Tees(plan, s) => Find(p2)[i] = Find(p2)[j]
  BY <1>2, <1>5, PassFits
<1> HIDE DEF p2
<1>7. /\ p3 \in Forests(L, D) /\ Coarser(p2, p3, D)
      /\ \A i, j \in D : <<i, j>> \in Across(s, plan.arcs) => Find(p3)[i] = Find(p3)[j]
  BY <1>2, <1>6, PassFits
<1> HIDE DEF p3
<1>8. /\ p4 \in Forests(L, D) /\ Coarser(p3, p4, D)
      /\ \A i, j \in D : <<i, j>> \in Across(s, plan.noted) => Find(p4)[i] = Find(p4)[j]
  BY <1>2, <1>7, PassFits
<1> HIDE DEF p4, D
<1>9. \A i, j \in D : <<i, j>> \in L => Find(p4)[i] = Find(p4)[j]
  BY <1>4, <1>5, <1>6, <1>7, <1>8 DEF Coarser
<1> QED BY <1>3, <1>8, <1>9, FitsFind DEF D, L

\* A circuit has the handles at the places with its root.
HandlesAt(s, root, r) == {s[i] : i \in {i \in DOMAIN s : root[i] = r}}

LEMMA CircuitIs ==
    ASSUME NEW S, NEW s \in Seq(S), NEW f, NEW r
    PROVE  ToSet(Circuit(s, f, r).handles) = HandlesAt(s, f, r)
<1> DEFINE mine == Only(PlacesOf(s), {i \in DOMAIN s : f[i] = r})
<1>1. ToSet(mine) = {i \in DOMAIN s : f[i] = r}
  BY PlacesAre, OnlyIs
<1> HIDE DEF mine
<1>2. ToSet(Each(LAMBDA i : s[i], mine)) = {s[i] : i \in ToSet(mine)}
  BY DEF Each, ToSet
<1> QED BY <1>1, <1>2 DEF Circuit, mine, HandlesAt

LEMMA HasFirst == ASSUME NEW u \in SUBSET Nat, u # {} PROVE \E x \in u : \A y \in u : x <= y
<1>1. PICK x \in u : \A y \in u : ~ (<<y, x>> \in OpToRel(<, Nat))
  BY NatLessThanWellFounded, WFMin
<1>2. \A y \in u : x <= y
  <2> SUFFICES ASSUME NEW y \in u, ~(x <= y) PROVE FALSE
    OBVIOUS
  <2>1. <<y, x>> \in OpToRel(<, Nat)
    BY DEF OpToRel
  <2> QED BY <1>1, <2>1
<1> QED BY <1>2

\* Every root has a first place, so every circuit is there.
LEMMA CircuitsAre ==
    ASSUME NEW S, NEW s \in Seq(S), NEW root
    PROVE  ToSet(CircuitsOf(s, root)) = {Circuit(s, root, root[i]) : i \in DOMAIN s}
<1> DEFINE Opens(i) == \A j \in 1..(i - 1) : root[j] # root[i]
           firsts == Only(PlacesOf(s), {i \in DOMAIN s : Opens(i)})
           n == Len(s)
<1>1. n \in Nat /\ DOMAIN s = 1..n
  OBVIOUS
<1>2. ToSet(firsts) = {i \in DOMAIN s : Opens(i)}
  BY PlacesAre, OnlyIs
<1>3. ToSet(CircuitsOf(s, root)) = {Circuit(s, root, root[i]) : i \in ToSet(firsts)}
  <2> HIDE DEF firsts
  <2>1. CircuitsOf(s, root) = Each(LAMBDA i : Circuit(s, root, root[i]), firsts)
    BY DEF CircuitsOf, firsts
  <2> QED BY <2>1 DEF Each, ToSet
<1>4. ASSUME NEW i \in DOMAIN s PROVE \E k \in DOMAIN s : Opens(k) /\ root[k] = root[i]
  <2> DEFINE alike == {k \in Nat : k \in 1..n /\ root[k] = root[i]}
  <2>1. PICK k \in alike : \A j \in alike : k <= j
    <3>1. i \in alike /\ alike \subseteq Nat
      BY <1>1
    <3> HIDE DEF alike
    <3> QED BY <3>1, HasFirst
  <2>2. Opens(k)
    <3> SUFFICES ASSUME NEW j \in 1..(k - 1), root[j] = root[i] PROVE FALSE
      BY <2>1
    <3>1. j \in alike /\ j < k
      BY <1>1, <2>1
    <3> HIDE DEF alike
    <3> QED BY <1>1, <2>1, <3>1
  <2>3. k \in DOMAIN s /\ root[k] = root[i]
    BY <1>1, <2>1
  <2> QED BY <2>2, <2>3
<1> HIDE DEF Opens, firsts
<1> QED BY <1>2, <1>3, <1>4

\* What joins two wires, in whichever of the two it ends.
Jointed(plan, a, b) ==
    \/ Meets(plan, a, b) \/ {<<a, b>>, <<b, a>>} \intersect plan.tee # {}
    \/ {a, b} \in plan.arcs \union plan.noted

\* Two places are linked when their wires are joined, and only then.
LEMMA JointedIsTied ==
    ASSUME NEW S, NEW s \in Seq(S), NEW plan, NEW i \in DOMAIN s, NEW j \in DOMAIN s, i # j
    PROVE  Jointed(plan, s[i], s[j]) <=> Linked(Ties(plan, s), i, j)
<1>1. i \in Nat /\ j \in Nat /\ (i < j \/ j < i) /\ ~(i < j /\ j < i)
  OBVIOUS
<1>2. Meets(plan, s[i], s[j]) <=> Meets(plan, s[j], s[i])
  BY DEF Meets
<1>3. {s[i], s[j]} = {s[j], s[i]}
  OBVIOUS
<1>4. <<i, j>> \in EndsMeet(plan, s) \/ <<j, i>> \in EndsMeet(plan, s) <=> Meets(plan, s[i], s[j])
  BY <1>1, <1>2 DEF EndsMeet, Later
<1>5. <<i, j>> \in Tees(plan, s) \/ <<j, i>> \in Tees(plan, s)
      <=> {<<s[i], s[j]>>, <<s[j], s[i]>>} \intersect plan.tee # {}
  BY DEF Tees
<1>6. \A T : <<i, j>> \in Across(s, T) \/ <<j, i>> \in Across(s, T) <=> {s[i], s[j]} \in T
  BY <1>1, <1>3 DEF Across, Later
<1> QED BY <1>4, <1>5, <1>6 DEF Jointed, Linked, Ties

\* The circuits of an electrical drawing.
LEMMA CircuitsHang ==
    ASSUME NEW S, NEW s \in Seq(S), NEW plan
    PROVE  LET all == ToSet(Circuits(plan, s)) IN
           /\ \A h \in ToSet(s) : Cardinality({c \in all : h \in ToSet(c.handles)}) = 1
           /\ \A c \in all :
                /\ \A a \in ToSet(c.handles), b \in ToSet(s) : Jointed(plan, a, b) => b \in ToSet(c.handles)
                /\ \A part \in (SUBSET ToSet(c.handles)) \ {{}, ToSet(c.handles)} :
                        \E a \in part, b \in ToSet(c.handles) \ part : Jointed(plan, a, b)
<1> DEFINE D == DOMAIN s
           root == Find(Wired(plan, s))
           L == Ties(plan, s)
           all == ToSet(Circuits(plan, s))
           At(r) == {i \in D : root[i] = r}
           Mine(r) == {s[i] : i \in At(r)}
<1>1. /\ root \in [D -> D] /\ Tied(root, L, D)
      /\ \A i, j \in D : <<i, j>> \in L => root[i] = root[j]
  BY WiredFits
<1>2. ToSet(s) = {s[i] : i \in D}
  BY DEF ToSet
<1>3. all = {Circuit(s, root, root[i]) : i \in D}
  BY CircuitsAre DEF Circuits
<1>4. ASSUME NEW r PROVE ToSet(Circuit(s, root, r).handles) = Mine(r)
  <2> HIDE DEF root
  <2>1. ToSet(Circuit(s, root, r).handles) = HandlesAt(s, root, r)
    BY CircuitIs
  <2> QED BY <2>1 DEF HandlesAt
<1>5. \A i, j \in D : i # j => (Jointed(plan, s[i], s[j]) <=> Linked(L, i, j))
  BY JointedIsTied
<1> HIDE DEF root, L, all
<1>6. \A i, j \in D : Jointed(plan, s[i], s[j]) => root[i] = root[j]
  BY <1>1, <1>5 DEF Linked
<1>7. \A i, j \in D : s[i] = s[j] => root[i] = root[j]
  BY <1>6 DEF Jointed, Meets
<1>8. ASSUME NEW h \in ToSet(s) PROVE Cardinality({c \in all : h \in ToSet(c.handles)}) = 1
  <2>1. PICK i \in D : h = s[i]
    BY <1>2
  <2>2. {c \in all : h \in ToSet(c.handles)} = {Circuit(s, root, root[i])}
    <3>1. ASSUME NEW k \in D, h \in Mine(root[k]) PROVE root[k] = root[i]
      BY <1>7, <2>1, <3>1
    <3>2. h \in Mine(root[i])
      BY <2>1
    <3> HIDE DEF Mine, D
    <3>3. ASSUME NEW c \in all, h \in ToSet(c.handles) PROVE c = Circuit(s, root, root[i])
      BY <1>3, <1>4, <3>1, <3>3
    <3>4. Circuit(s, root, root[i]) \in all /\ h \in ToSet(Circuit(s, root, root[i]).handles)
      BY <1>3, <1>4, <2>1, <3>2
    <3> QED BY <3>3, <3>4
  <2> QED BY <2>2, FS_Singleton
<1>9. ASSUME NEW k \in D
      PROVE  /\ \A a \in Mine(root[k]), b \in ToSet(s) : Jointed(plan, a, b) => b \in Mine(root[k])
             /\ \A part \in (SUBSET Mine(root[k])) \ {{}, Mine(root[k])} :
                    \E a \in part, b \in Mine(root[k]) \ part : Jointed(plan, a, b)
  <2>1. \A a \in Mine(root[k]), b \in ToSet(s) : Jointed(plan, a, b) => b \in Mine(root[k])
    BY <1>2, <1>6
  <2>2. ASSUME NEW part \in (SUBSET Mine(root[k])) \ {{}, Mine(root[k])}
        PROVE  \E a \in part, b \in Mine(root[k]) \ part : Jointed(plan, a, b)
    <3> DEFINE P == {i \in At(root[k]) : s[i] \in part}
    <3>1. P # {} /\ P # At(root[k]) /\ P \subseteq At(root[k])
      BY <2>2
    <3>2. PICK x \in P : \E y \in D : root[y] = root[k] /\ y \notin P /\ Linked(L, x, y)
      <4>1. At(root[k]) = {i \in D : root[i] = root[k]}
        OBVIOUS
      <4> HIDE DEF P, At
      <4> QED BY <1>1, <3>1, <4>1 DEF Tied
    <3>3. PICK y \in D : root[y] = root[k] /\ y \notin P /\ Linked(L, x, y)
      BY <3>2
    <3>4. s[x] \in part /\ s[y] \in Mine(root[k]) \ part /\ x # y /\ x \in D
      BY <3>2, <3>3
    <3> QED BY <1>5, <3>3, <3>4
  <2> QED BY <2>1, <2>2
<1> HIDE DEF Mine, D
<1>10. \A c \in all : \E k \in D : ToSet(c.handles) = Mine(root[k])
  BY <1>3, <1>4
<1> QED BY <1>8, <1>9, <1>10 DEF all

\* The sends leave a drawing that is a list of handles, or leave it alone.
LEMMA DrawingKept == ASSUME TypeInv, UploadNext PROVE stored' = stored \/ stored'.list \in Seq(Handles)
<1>1. ASSUME NEW s \in Sends, Sending(s) \/ Start(s) \/ Cancel(s) \/ TimesOut(s) \/ Breaks(s)
      PROVE  stored' = stored
  BY <1>1 DEF Sending, Post, Stops, Answered, Refused, Start, Cancel, TimesOut, Breaks, Client
<1>2. ASSUME NEW c \in calls, Serves(c) PROVE stored' = stored \/ stored'.list \in Seq(Handles)
  <2>1. CASE Store(c)
    <3>1. c.read \in Seq(Handles)
      BY DEF TypeInv, CallTypes, Typed, ServerCalls
    <3> QED BY <2>1, <3>1 DEF Store
  <2>2. CASE Enter(c) \/ Push(c) \/ Merge(c) \/ Read(c) \/ Clear(c)
    BY <2>2 DEF Enter, Push, Merge, Read, Clear
  <2> QED BY <1>2, <2>1, <2>2 DEF Serves
<1>3. Expire => stored' = stored
  BY DEF Expire
<1> QED BY <1>1, <1>2, <1>3 DEF UploadNext

\* What a review reads is a drawing.
HasList == stored # None \/ at # "none" => stored.list \in Seq(Handles)

LEMMA DrawingStays == ASSUME TypeInv, HasList, [Next]_vars PROVE HasList'
<1>1. CASE UNCHANGED <<stored, at>>
  BY <1>1 DEF HasList
<1>2. CASE UploadNext /\ UNCHANGED <<review, domain, talk, dialog>>
  <2>1. at' = at
    BY <1>2 DEF review
  <2> QED BY <1>2, <2>1, DrawingKept DEF HasList
<1>3. CASE (BeginReview \/ Advances \/ Concludes \/ StopReview) /\ stored' = stored
  <2>1. CASE BeginReview
    BY <1>3, <2>1 DEF BeginReview, SendsOver, HasList
  <2>2. CASE Advances
    <3>1. at # "none" \/ at' = at
      BY <2>2 DEF Advances, Proceeds, Gather, AskAgain, Check, OtherProceeds, Abandon, Ask, GivesUp, Ends
    <3> QED BY <1>3, <3>1 DEF HasList
  <2>3. CASE Concludes
    BY <1>3, <2>3 DEF Concludes, Finish, Finishes, FinishOther, OtherFinishes, HasList
  <2>4. CASE StopReview
    BY <1>3, <2>4 DEF StopReview, HasList
  <2> QED BY <1>3, <2>1, <2>2, <2>3, <2>4
<1> QED BY <1>1, <1>2, <1>3 DEF Next, vars, upload, review

\* A review of a list of handles, whatever it is, has such runs and circuits.
LEMMA DrawingHangs == ASSUME HasList PROVE RunsAreComponents
<1> SUFFICES ASSUME Done PROVE RunsAreComponents
  BY DEF RunsAreComponents
<1> DEFINE plan == result.plan
           s == IF domain = "elec" THEN WiresOf(plan, stored.list) ELSE LinesOf(stored.list)
           all == ToSet(Circuits(plan, s))
           circuits == [c \in all |-> ToSet(c.handles)]
           Touch(a, b) == {a, b} \in plan.touch
           Joint(a, b) == Meets(plan, a, b) \/ {<<a, b>>, <<b, a>>} \intersect plan.tee # {}
                          \/ {a, b} \in plan.arcs \union plan.noted
<1>1. s \in Seq(Handles)
  <2>1. stored.list \in Seq(Handles)
    BY DEF HasList, Done
  <2>2. \A handles : Only(stored.list, handles) \in Seq(Handles)
    BY <2>1, OnlyIs
  <2> QED BY <2>2 DEF WiresOf, WiresAmong, LinesOf
<1> HIDE DEF s, plan
<1>2. ASSUME NEW order \in SetToSeqs(ToSet(s))
      PROVE  LET runs == Runs(plan, s, order) IN
             UNION runs = ToSet(s) /\ \A run \in runs : Component(run, ToSet(s), Touch)
  BY <1>1, RunsHang DEF Component
<1>3. /\ \A h \in ToSet(s) : Cardinality({c \in DOMAIN circuits : h \in circuits[c]}) = 1
      /\ \A c \in DOMAIN circuits : Component(circuits[c], ToSet(s), Joint)
  <2>1. DOMAIN circuits = all /\ \A c \in all : circuits[c] = ToSet(c.handles)
    OBVIOUS
  <2>2. \A h : {c \in DOMAIN circuits : h \in circuits[c]} = {c \in all : h \in ToSet(c.handles)}
    BY <2>1
  <2>3. \A h \in ToSet(s) : Cardinality({c \in all : h \in ToSet(c.handles)}) = 1
    BY <1>1, CircuitsHang
  <2>4. \A a, b : Joint(a, b) <=> Jointed(plan, a, b)
    BY DEF Jointed
  <2>5. \A c \in all :
            /\ \A a \in ToSet(c.handles), b \in ToSet(s) : Jointed(plan, a, b) => b \in ToSet(c.handles)
            /\ \A part \in (SUBSET ToSet(c.handles)) \ {{}, ToSet(c.handles)} :
                    \E a \in part, b \in ToSet(c.handles) \ part : Jointed(plan, a, b)
    BY <1>1, CircuitsHang
  <2> HIDE DEF circuits, all, Joint
  <2> QED BY <2>1, <2>2, <2>3, <2>4, <2>5 DEF Component
<1> QED BY <1>2, <1>3 DEF RunsAreComponents, s, plan

\* Whatever the drawing is and however its lines are listed, doubled or missing
\* entities included: in whatever order the set of neighbours is visited, the runs
\* of a pipe drawing are the parts of it that hang together, and so are the circuits
\* of an electrical one, each line in one of them (pipe/sub/topology.py 1015-1032,
\* 1280-1293; elec/sub/topology.py 976-1114).
THEOREM RunsArePartsOfTheDrawing == Spec => []RunsAreComponents
<1>1. Init => HasList
  BY DEF Init, UploadInit, ReviewInit, HasList
<1>2. TypeInv /\ HasList /\ [Next]_vars => HasList'
  BY DrawingStays
<1>3. HasList => RunsAreComponents
  BY DrawingHangs
<1>4. UploadSpec => []TypeInv
  <2>1. Inv => TypeInv
    BY DEF Inv
  <2> QED BY <2>1, InvInit, InvNext, PTL DEF UploadSpec
<1> QED BY <1>1, <1>2, <1>3, <1>4, SpecUploads, PTL DEF Spec

==============================================================================
