----------------------------- MODULE ChatCommands ------------------------------
(* A chat message that asks for a change, from the words to the drawing     *)
(* (websocket.py 40-170, 188-410, 517-796, 853-943; agent_api.py 1047-1394; *)
(* SocketMessageHandler.cs 178-350): the server first tries the fast path,  *)
(* then asks the agent of the domain, and then tries its parser again.      *)
(* What is drawn is drawn at once and removed when the user rejects it;     *)
(* what changes is shown first, as a panel or as fixes to approve.  The     *)
(* plugin is connected and answers in time (Proposals has the rest).        *)
(* Beside the fields of FireAction a request has its `domain`, the way it   *)
(* came `by` (a chat message or the start of a review), the `scene`, which  *)
(* is the drawing in AutoCAD, and `again`, the language model's answer when *)
(* the parser asks it for the second time.                                  *)
EXTENDS FireAction
LOCAL INSTANCE Integers
LOCAL INSTANCE Sequences
LOCAL INSTANCE FiniteSets
LOCAL INSTANCE SequencesExt
LOCAL INSTANCE TLC

VARIABLE talk       \* the message, the drawing, and what awaits an answer

NoPanel == [type |-> "none", handles |-> {}, erase |-> <<>>, commands |-> <<>>]
NoTalk == [at |-> "none"]
TalkInit == talk = NoTalk

------------------------------------------------------------------------------
(* The fast path                                                            *)

\* A word of deletion, or one of painting and a colour, is enough.
DirectDelete(req) ==
    IF "delete" \notin req.words THEN Nothing
    ELSE IF req.selected = <<>> THEN NoSelection
    ELSE One([type |-> "DELETE", targets |-> req.selected])
DirectColor(req) ==
    IF "paint" \notin req.words \/ req.colors = {} THEN Nothing
    ELSE IF req.selected = <<>> THEN NoSelection
    ELSE One([type |-> "COLOR", color |-> CHOOSE c \in req.colors : \A b \in req.colors : c <= b,
              targets |-> req.selected])

\* The parser of the piping domain does not take the view that it is called
\* with: the call fails, and the failure is taken for "nothing".
DomainParsed(req, list, ents) ==
    CASE req.domain = "pipe" -> Nothing
      [] req.domain = "elec" -> ElecParsed(req, list, ents)
      [] OTHER -> Parsed(req, list, ents)

\* The same change of two or more elements is one fix for all of them.
BulkTypes == {"LAYER", "COLOR", "LINETYPE", "LINEWEIGHT", "MOVE", "ROTATE", "SCALE", "DELETE"}
Collapsed(fixes) ==
    IF /\ Len(fixes) > 1 /\ fixes[1].type \in BulkTypes
       /\ \A i \in DOMAIN fixes : Has(fixes[i], "handle") /\ Without(fixes[i], "handle") = Without(fixes[1], "handle")
    THEN <<Without(fixes[1], "handle") @@ [targets |-> [i \in DOMAIN fixes |-> fixes[i].handle]]>>
    ELSE fixes

Command(fix) ==
    IF Has(fix, "handle") THEN [handle |-> fix.handle, fix |-> Without(fix, "handle")] ELSE [fix |-> fix]
\* Commands are carried out one after another; `handles` are those of the new
\* entities that belong to the proposal.
Carried(d, fixes) ==
    FoldLeft(LAMBDA acc, fix :
                LET r == HandleCadAction(acc.d, Command(fix)) IN
                [d |-> r.d, handles |-> acc.handles \union (IF fix.type = "CREATE_ENTITY" THEN r.handles ELSE {})],
             [d |-> d, handles |-> {}], fixes)

\* A list is carried out, or becomes a panel: what it draws is drawn already, what
\* it deletes or changes waits for the answer.
Outcome(d, panel) == {[d |-> d, panel |-> panel]}
Of(fixes, type) == SelectSeq(fixes, LAMBDA f : f.type = type)
Others(fixes, type) == SelectSeq(fixes, LAMBDA f : f.type # type)
Panel(type, drawn, erase) ==
    Outcome(drawn.d, [type |-> type, handles |-> drawn.handles, erase |-> erase, commands |-> <<>>])
\* The items of a list are sent as they are: the plugin does not look for a
\* handle within the fix.
AsListed(fixes) == [i \in DOMAIN fixes |-> Without(fixes[i], "handle")]
\* What a kind of list does: carried out at once, drawn with or without something
\* that is held back, or only prepared.
Kind(fixes, draws, erases) ==
    IF ~draws /\ \E i \in DOMAIN fixes : Has(fixes[i], "direct") THEN "direct"
    ELSE IF draws /\ erases THEN "replace"
    ELSE IF \E i \in DOMAIN fixes : Has(fixes[i], "handle") THEN "modify"
    ELSE IF draws THEN "create" ELSE "none"
ByKind(kind, d, fixes) ==
    CASE kind = "direct" -> Outcome(Carried(d, AsListed([i \in DOMAIN fixes |-> Without(fixes[i], "direct")])).d, NoPanel)
      [] kind \in {"replace", "create"} ->
            Panel(kind, Carried(d, AsListed(Others(fixes, "DELETE"))),
                  FlattenSeq([i \in DOMAIN Of(fixes, "DELETE") |-> Get(Of(fixes, "DELETE")[i], "targets", <<>>)]))
      [] kind = "modify" -> Outcome(d, [NoPanel EXCEPT !.type = "modify", !.commands = Collapsed(fixes)])
      [] kind = "none" -> {}
SendListAsProposal(d, fixes) ==
    ByKind(Kind(fixes, Of(fixes, "CREATE_ENTITY") # <<>>, Of(fixes, "DELETE") # <<>>), d, fixes)

\* Tier 4 is given to a deletion that has none.
Guarded(fix) == IF fix.type = "DELETE" THEN fix @@ [tier |-> 4] ELSE fix
\* What becomes of a parsed command; {} when it is not handled.  A deletion of
\* the fast path is not guarded.
Changed(d, fix) == Outcome(Carried(d, <<fix>>).d, NoPanel)
OrChanged(listed, d, fix, fast) == IF listed = {} /\ fast THEN Changed(d, fix) ELSE listed
Handled(d, cmd, fast) ==
    CASE cmd.is = "nothing" -> {}
      [] cmd.is = "no selection" -> Outcome(d, NoPanel)
      [] cmd.is = "list" -> SendListAsProposal(d, cmd.fixes)
      [] cmd.is = "one" ->
            IF Creates(cmd.fix) THEN OrChanged(SendListAsProposal(d, <<cmd.fix>>), d, cmd.fix, fast)
            ELSE Changed(d, IF fast THEN cmd.fix ELSE Guarded(cmd.fix))

OrElseDo(cmd, otherwise) == IF cmd # Nothing THEN cmd ELSE otherwise
FastCommand(req, list, ents) ==
    OrElseDo(DirectDelete(req), OrElseDo(DirectColor(req), DomainParsed(req, list, ents)))

Began(req) ==
    [at |-> "agent", req |-> req, d |-> req.scene, panel |-> NoPanel, shown |-> <<>>, approved |-> {}, rejected |-> FALSE]
Ended(was, out) == [was EXCEPT !.at = "over", !.d = out.d, !.panel = out.panel]
Settled(was, outs, next) ==
    IF outs = {} THEN [was EXCEPT !.at = next] ELSE Ended(was, CHOOSE o \in outs : TRUE)
\* USER_CHAT, up to the call of the agent.
Ask(req, list) ==
    /\ talk = NoTalk /\ req.by = "chat"
    /\ talk' = Settled(Began(req), Handled(req.scene, FastCommand(req, list, req.scene.ents), TRUE), "agent")
\* /agent/start with a text goes to the agent at once.
StartAgent(req) ==
    /\ talk = NoTalk /\ req.by = "start"
    /\ talk' = Began(req)

------------------------------------------------------------------------------
(* The agent's fixes, and the findings they are shown under                 *)

AnalyzeAndFix(req, list, ents) ==
    CASE req.domain = "pipe" -> PipeAnalyzeAndFix(req, list, ents)
      [] req.domain = "elec" -> ElecAnalyzeAndFix(req, list)
      [] req.domain = "fire" -> FireAnalyzeAndFix(req, list)
      [] OTHER -> <<>>

\* An offer with several commands is one pending fix for each.
PendingOf(offers) ==
    FlattenSeq([i \in DOMAIN offers |->
        [j \in DOMAIN offers[i].auto |-> [offers[i] EXCEPT !.type = offers[i].auto[j].type, !.auto = offers[i].auto[j]]]])

CadTypes == {"ATTRIBUTE", "LAYER", "TEXT_CONTENT", "TEXT_HEIGHT", "COLOR", "LINETYPE", "LINEWEIGHT", "DELETE",
             "MOVE", "ROTATE", "SCALE", "GEOMETRY", "BLOCK_REPLACE", "DYNAMIC_BLOCK_PARAM", "RECTANGLE_RESIZE",
             "STRETCH_RECT", "CREATE_ENTITY", "CREATE_TEXT"}
\* A deletion is always of tier 4, whatever the fix says.
Tier(fix) ==
    IF fix.type = "DELETE" THEN 4
    ELSE IF Get(fix, "tier", 0) \in 1..4 THEN fix.tier
    ELSE IF fix.type \in {"BLOCK_REPLACE", "ROTATE", "MOVE", "SCALE", "CREATE_ENTITY", "CREATE_TEXT"} THEN 2
    ELSE IF fix.type = "DYNAMIC_BLOCK_PARAM" THEN 3
    ELSE IF fix.type \in {"GEOMETRY", "RECTANGLE_RESIZE", "STRETCH_RECT"} THEN 4 ELSE 1
ResolveAutofix(fix) == IF fix.type \in CadTypes THEN {[tier |-> Tier(fix)] @@ fix} ELSE {}

\* The first entity of the list with this handle or this block name.
EntityByObjectId(key, list, ents) ==
    ToSet(FirstOf(1, SelectSeq(list, LAMBDA h : h = key \/ ents[h].block = key)))
EntityByAny(keys, list, ents) == IF keys = <<>> THEN {} ELSE EntityByObjectId(keys[1], list, ents)
ArchLayers == {"A-WALL", "S-BEAM"}

\* The finding of a fix gets the first fix for its element and of its type; one
\* without an element gets none.  Its handle is that of the first entity which the
\* finding or the fix names, else the name as it is.
FirstLike(pending, p) ==
    CHOOSE j \in DOMAIN pending :
        /\ Has(pending[j], "handle") /\ pending[j].handle = p.handle /\ pending[j].type = p.type
        /\ \A k \in 1..(j - 1) : ~(Has(pending[k], "handle") /\ pending[k].handle = p.handle /\ pending[k].type = p.type)
Shown(p, id, auto, known) ==
    [id |-> id, known |-> known, auto |-> ResolveAutofix(auto),
     handle |-> IF known = {} THEN p.handle ELSE CHOOSE h \in known : TRUE]
FirstKnown(keys, list, ents) ==
    EntityByAny(SelectSeq(keys, LAMBDA key : EntityByObjectId(key, list, ents) # {}), list, ents)
Named(p, id, auto, list, ents) ==
    Shown(p, id, auto, FirstKnown(<<p.handle>> \o Get(auto, "targets", <<>>), list, ents))
Annotated(pending, p, list, ents) ==
    IF ~Has(p, "handle") THEN [id |-> 0, known |-> {}, auto |-> {}]
    ELSE LET first == FirstLike(pending, p) IN Named(p, first, pending[first].auto, list, ents)

\* In the piping domain what is on a layer of the architect is not marked.
Findings(pending, list, ents) == [i \in DOMAIN pending |-> Annotated(pending, pending[i], list, ents)]
SendReview(req, offers, list, ents) ==
    SelectSeq(Findings(PendingOf(offers), list, ents),
              LAMBDA a : req.domain = "pipe" => \A h \in a.known : ents[h].layer \notin ArchLayers)

\* The agent of the domain answers with fixes, or in words only.
After == IF talk.req.by = "chat" THEN "again" ELSE "over"
AgentAnswers(list) ==
    /\ talk.at = "agent"
    /\ talk' = [talk EXCEPT !.at = After,
                            !.shown = SendReview(talk.req, AnalyzeAndFix(talk.req, list, talk.req.scene.ents),
                                                 list, talk.req.scene.ents)]
AgentOnlyTalks ==
    /\ talk.at = "agent"
    /\ talk' = [talk EXCEPT !.at = After]

\* CANCEL_CHAT, while the agent is at work.
CancelChat ==
    /\ talk.at \in {"agent", "again"}
    /\ talk' = [talk EXCEPT !.at = "over"]

\* After the answer the parser is asked again.
ParsesAgain(list) ==
    /\ talk.at = "again"
    /\ talk' = Settled(talk, Handled(talk.d, DomainParsed([talk.req EXCEPT !.answer = talk.req.again],
                                                          list, talk.req.scene.ents), FALSE), "over")

------------------------------------------------------------------------------
(* The user's answers                                                       *)

\* APPROVE_ENTITY: what was held back is deleted, what was prepared is changed.
ApproveEntity ==
    /\ talk # NoTalk /\ talk.panel.type # "none"
    /\ LET held == IF talk.panel.erase = <<>> THEN <<>> ELSE <<[type |-> "DELETE", targets |-> talk.panel.erase]>> IN
       talk' = [talk EXCEPT !.d = Carried(@, held \o talk.panel.commands).d, !.panel = NoPanel]

\* REJECT_ENTITY: the new entities that the panel names are deleted.
RejectEntity ==
    /\ talk # NoTalk /\ talk.panel.type # "none"
    /\ LET new == IF talk.panel.handles = {} THEN <<>>
                  ELSE <<[type |-> "DELETE", targets |-> SetToSeq(talk.panel.handles)]>> IN
       talk' = [talk EXCEPT !.d = Carried(@, new).d, !.panel = NoPanel, !.rejected = TRUE]

\* APPROVE_FIX, for one finding or for ALL: of the fixes with targets only the first
\* is carried out; what is drawn needs no element.
AppliedFix(acc, handle, fix) ==
    IF Get(fix, "targets", <<>>) # <<>>
    THEN IF acc.bulk THEN acc ELSE [bulk |-> TRUE, d |-> ApplyBulkFix(acc.d, fix)]
    ELSE IF Creates(fix) THEN [acc EXCEPT !.d = ApplyCreateEntity(@, fix).d]
    ELSE [acc EXCEPT !.d = ApplyFix(@, handle, fix).d]
Applied(acc, a) == IF a.auto = {} THEN acc ELSE AppliedFix(acc, a.handle, CHOOSE f \in a.auto : TRUE)
Ids == {talk.shown[i].id : i \in DOMAIN talk.shown}
Choice == {{id} : id \in Ids \ {0}} \union ({Ids} \ {{}})
ApproveFix(ids) ==
    LET chosen == SelectSeq(talk.shown, LAMBDA a : a.id \in ids) IN
    talk' = [talk EXCEPT !.d = FoldLeft(Applied, [bulk |-> FALSE, d |-> @], chosen).d,
                         !.shown = SelectSeq(@, LAMBDA a : a.id \notin ids),
                         !.approved = @ \union ToSet(chosen)]
RejectFix(ids) ==
    talk' = [talk EXCEPT !.shown = SelectSeq(@, LAMBDA a : a.id \notin ids)]

TalkNext(requests, list) ==
    \/ \E req \in requests : Ask(req, list) \/ StartAgent(req)
    \/ AgentAnswers(list) \/ AgentOnlyTalks \/ CancelChat \/ ParsesAgain(list)
    \/ ApproveEntity \/ RejectEntity
    \/ talk # NoTalk /\ \E ids \in Choice : ApproveFix(ids) \/ RejectFix(ids)

------------------------------------------------------------------------------
(* Properties                                                               *)

\* What the user has asked about: the selected elements, in the electrical domain
\* the earth rods and their texts, and what the approved findings name.  A handle
\* stands for the entity that the drawing finds under it.
IsCounted(e) == CountText(e.text, 0) # e.text \/ CountText(e.text, 1) # e.text
Targets(a) == {a.handle} \union UNION {ToSet(Get(f, "targets", <<>>)) : f \in a.auto}
Asked == ToSet(talk.req.selected) \union UNION {Targets(a) : a \in {b \in talk.approved : b.id # 0}}
IsRods(e) == e.layer \in RodLayers \/ e.block \in RodBlocks \/ e.text \in RodTexts \/ IsCounted(e)
Meant(scene) ==
    UNION {ObjectOf(scene, h) : h \in Asked}
    \union {h \in DOMAIN scene.ents :
              talk.req.domain = "elec" /\ "rod" \in talk.req.words /\ IsRods(scene.ents[h])}

\* An element of the drawing is changed or erased only when the user has selected
\* it, has asked for it by its name, or has approved a finding that names it
\* (websocket.py 68-81, 111-139, 853-923; SocketMessageHandler.cs 235-352).  As
\* long as only findings were approved nothing is erased but a block that another
\* one replaces (cad_modification_tiers.py 9-18), and a panel that is rejected
\* leaves the drawing as it was (websocket.py 892-923).
Unchanged(was, now, but) == \A h \in DOMAIN was \ but : h \in DOMAIN now /\ now[h] = was[h]
NoneIsReplaced == \A a \in talk.approved : \A f \in a.auto : f.type # "BLOCK_REPLACE"
OnlyMeantChanges ==
    talk # NoTalk =>
        /\ Unchanged(talk.req.scene.ents, talk.d.ents, Meant(talk.req.scene))
        /\ (talk.at = "again" \/ talk.req.by = "start") /\ NoneIsReplaced =>
                DOMAIN talk.req.scene.ents \subseteq DOMAIN talk.d.ents
        /\ talk.rejected /\ talk.approved = {} => talk.d.ents = talk.req.scene.ents

\* After "make it two rods" there are two, among those that the request was
\* about, and every text that counts them says so, if the server knows the drawing
\* (elec/sub/action.py 1714-1875, 1957-1995).
AsksFewerRods(req) ==
    /\ req.domain = "elec" /\ {"rod", "replace"} \subseteq req.words /\ req.count # {}
    /\ req.words \intersect {"delete", "paint", "outlet"} = {}
\* The request finds more rods than it wants; they are counted among what it is
\* about, or everywhere when there is no rod among that.
RodsLeft(req, n, near, handles, left, ents) ==
    /\ Len(FindGrndRodGroups(left, ents, IF near = <<>> THEN <<>> ELSE handles)) = n
    /\ \A h \in ToSet(left) : IsCounted(ents[h]) => ents[h].text \in {Quantity(n), Label(n)}
RodsCounted(req, n, handles, list, was, now) ==
    FewerRods(req, n, handles, list, was) # Nothing =>
        RodsLeft(req, n, FindGrndRodGroups(list, was, handles), handles, SelectSeq(list, LAMBDA h : h \in DOMAIN now), now)
RodsAsAsked(list) ==
    talk # NoTalk =>
        (talk.at = "over" /\ AsksFewerRods(talk.req) /\ ToSet(list) = DOMAIN talk.req.scene.ents =>
            RodsCounted(talk.req, Upto(50, talk.req.count), RodHandles(talk.req, list, talk.req.scene.ents),
                        list, talk.req.scene.ents, talk.d.ents))
==============================================================================
