----------------------------- MODULE DomainReviews ----------------------------
(* A review of one of the four domains.  The three others have no text check *)
(* and no second query, and where the pipe review goes on without a part     *)
(* that fails, they fail: gather has no return_exceptions, and only the 120 s *)
(* of compliance are caught.  The node turns a failure into an answer that    *)
(* has no violations.                                                        *)
EXTENDS PipeReview, ElecReview, FireReview

CONSTANT OtherPlans     \* Plans of the three others

VARIABLE domain                     \* of the review, or "none"

Stages == [elec |-> {"topology", "geometry", "rules", "quality"}, fire |-> {"rules"},
          arch |-> {"topology", "geometry", "rules"}]
Others == DOMAIN Stages
Ok(S) == \A j \in S : jobs[j] = "ok"

BeginPipe == Begin /\ domain' = "pipe"

\* The drawing is parsed before anything else is started.
BeginOther(d) ==
    /\ at = "none"
    /\ at' = "gather" /\ domain' = d /\ jobs' = Started(Stages[d])
    /\ UNCHANGED <<rules, result>>

\* wait_for gives up on compliance.
GivesUp ==
    /\ jobs["compliance"] = "running" /\ domain # "pipe"
    /\ jobs' = [jobs EXCEPT !["compliance"] = "late"]
    /\ UNCHANGED <<at, rules, result>>

\* Compliance of the architectural review catches what fails in it.
Fatal == IF domain = "arch" THEN Stages[domain] ELSE Stages[domain] \union {"compliance"}

\* The first exception ends the review; the parts beside it go on.
Abandon ==
    /\ at \in {"gather", "checks"} /\ \E j \in Fatal : jobs[j] = "failed"
    /\ at' = "failed"
    /\ UNCHANGED <<jobs, rules, result>>

\* Without rules nobody asks the language model.
Ask(found) ==
    /\ at = "gather" /\ Ok(Stages[domain])
    /\ at' = "checks" /\ jobs' = IF found THEN Started({"compliance"}) ELSE jobs
    /\ rules' = found
    /\ UNCHANGED result

OtherProceeds == domain \in Others /\ (Abandon \/ \E found \in BOOLEAN : Ask(found))

\* The architectural review has no rules of its own: what the language model
\* claims is reported, and every claim of a known type has an action.
Built == {"distance", "size", "layer"}
ArchResult(claims) ==
    [det |-> <<>>, qa |-> <<>>, shown |-> claims,
     pending |-> Each(LAMBDA f : [eq |-> f.eq, type |-> f.type, made |-> f.type, group |-> NoGroup,
                                  action |-> IF f.type \in Built THEN "automatic" ELSE "manual"], claims)]

OtherFinishes ==
    /\ at = "checks" /\ domain \in Others
    /\ jobs["compliance"] \in {"ok", "late"} \/ ~rules \/ (domain = "arch" /\ jobs["compliance"] = "failed")
    /\ at' = "done"

\* What the compliance agent of the domain makes of the answer.
OtherClaims(plan, list, answer) ==
    CASE domain = "elec" -> ElecClaims(plan, list, answer)
      [] domain = "fire" -> FireClaims(list, answer)
      [] domain = "arch" -> ArchClaims(list, answer)

\* What the search has found; the names of layers stand for rules of the architect.
OtherSearch(search) ==
    CASE domain = "elec" -> ElecSearch(search)
      [] domain = "fire" -> FireSearch(search)
      [] domain = "arch" -> ArchSearch(search)
Knows(search, found) == found.rules # <<>> \/ (domain = "arch" /\ search.glossary)

FinishOther(list, plan) ==
    /\ OtherFinishes
    /\ LET found == OtherSearch(plan.search) IN
       /\ rules <=> Knows(plan.search, found)
       /\ \E answer \in Answers(domain, plan) :
            LET claims == OtherClaims(plan, list, answer) IN
            /\ answer.parts # <<>> => rules /\ jobs["compliance"] = "ok"
            /\ result' = Together([plan |-> plan, answer |-> answer, claims |-> claims, search |-> found],
                                  CASE domain = "elec" -> ElecResult(plan, list, claims)
                                    [] domain = "fire" -> FireResult(plan, list, claims)
                                    [] domain = "arch" -> ArchResult(claims))
    /\ jobs' = [j \in Jobs |-> "none"] /\ rules' = FALSE
==============================================================================
