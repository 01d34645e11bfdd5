------------------------------- MODULE PipeReview -----------------------------
(* call_review_agent of the pipe workflow as a task of the event loop: the  *)
(* notes are checked, then topology, geometry and the search for rules run  *)
(* beside each other, then the three groups of checks; any of them may      *)
(* fail, and the review goes on without it.  A review that is cancelled     *)
(* leaves the checks it has begun running.                                  *)
EXTENDS Compliance, RuleSearch

CONSTANTS
    Plans,          \* what the coordinates of a drawing may amount to
    Answers(_, _),  \* what the language model may answer for a domain and a plan
    MaxBroken       \* bound: parts of one review that fail

Gathered == {"topology", "geometry", "rules"}
Checks == {"deterministic", "quality", "compliance"}
Jobs == {"text", "fallback"} \union Gathered \union Checks

VARIABLES
    at,             \* where the task is: "none", "text", ..., "done", "stopped", "failed"
    jobs,           \* every job: "none", "running", "ok", "failed", "late"
    rules,          \* rules were found, so compliance is asked
    result          \* what the node hands on, with the plan it comes from

review == <<at, jobs, rules, result>>

NoResult == <<>>

ReviewTypeOK ==
    /\ at \in {"none", "text", "gather", "fallback", "checks", "done", "stopped", "failed"}
    /\ jobs \in [Jobs -> {"none", "running", "ok", "failed", "late"}]
    /\ rules \in BOOLEAN
    /\ (result # NoResult) <=> (at = "done")

ReviewInit ==
    /\ at = "none"
    /\ jobs = [j \in Jobs |-> "none"]
    /\ rules = FALSE
    /\ result = NoResult

Over(S) == \A j \in S : jobs[j] \in {"ok", "failed"}
Started(S) == [j \in Jobs |-> IF j \in S THEN "running" ELSE jobs[j]]

Begin ==
    /\ at = "none"
    /\ at' = "text" /\ jobs' = Started({"text"})
    /\ UNCHANGED <<rules, result>>

\* A failure is caught and stands for nothing found; so does the 120 s that
\* wait_for gives to the whole of compliance, its chunks and its retry.
Ends(j) ==
    /\ jobs[j] = "running"
    /\ \/ jobs' = [jobs EXCEPT ![j] = "ok"]
       \/ /\ Cardinality({k \in Jobs : jobs[k] = "failed"}) < MaxBroken
          /\ jobs' = [jobs EXCEPT ![j] = "failed"]
    /\ UNCHANGED <<at, rules, result>>

Gather ==
    /\ at = "text" /\ Over({"text"})
    /\ at' = "gather" /\ jobs' = Started(Gathered)
    /\ UNCHANGED <<rules, result>>

\* Without rules one general query is tried.
AskAgain ==
    /\ at = "gather" /\ Over(Gathered)
    /\ at' = "fallback" /\ jobs' = Started({"fallback"})
    /\ UNCHANGED <<rules, result>>

\* Without any, compliance is skipped: the built-in rules accuse nobody.
Check(found) ==
    /\ \/ at = "gather" /\ Over(Gathered) /\ found /\ jobs["rules"] = "ok"
       \/ at = "fallback" /\ Over({"fallback"}) /\ (found => jobs["fallback"] = "ok")
    /\ at' = "checks" /\ jobs' = Started(Checks)
    /\ rules' = found
    /\ UNCHANGED result

\* What the search has found: the general query only without rules, and
\* compliance only with them.
Fits(found) ==
    /\ (jobs["fallback"] = "none") <=> (found.rules # <<>> /\ GeneralQuery \notin ToSet(found.asked))
    /\ rules <=> (found.rules # <<>>)

\* Two records as one; where both have a field, that of the first.
Together(r, s) == [x \in DOMAIN r \union DOMAIN s |-> IF x \in DOMAIN r THEN r[x] ELSE s[x]]

\* The checks are awaited one after the other, then merged.
Finishes == at = "checks" /\ Over(Checks) /\ at' = "done"
Finish(list, plan) ==
    /\ Finishes
    /\ LET found == PipeSearch(plan.search, jobs["rules"] = "ok", jobs["fallback"] = "ok")
           topo == IF jobs["topology"] = "ok" THEN Topology(plan, list) ELSE NoTopology
           geo == IF jobs["geometry"] = "ok" THEN Geometry(plan, list) ELSE NoGeometry
       IN  /\ Fits(found)
           /\ \E answer \in Answers("pipe", plan) :
                LET claims == PipeClaims(plan, list, answer) IN
                /\ answer.parts # <<>> => rules /\ jobs["compliance"] = "ok"
                /\ result' = Together([plan |-> plan, answer |-> answer, claims |-> claims, search |-> found],
                                      Review(plan, list, claims, topo, geo, jobs["deterministic"] = "ok",
                                             jobs["quality"] = "ok", jobs["text"] = "ok"))
    /\ jobs' = [j \in Jobs |-> "none"] /\ rules' = FALSE

\* CANCEL_REVIEW, or the plugin's answer to a wait: the task is cancelled.
StopReview ==
    /\ at \in {"text", "gather", "fallback", "checks"}
    /\ at' = "stopped"
    /\ UNCHANGED <<jobs, rules, result>>

Proceeds == Gather \/ AskAgain \/ \E found \in BOOLEAN : Check(found)
==============================================================================
