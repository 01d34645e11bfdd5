------------------------------- MODULE Compliance -----------------------------
(* What a review takes from the language model: compliance.py of the four   *)
(* domains.  The model is asked once about a drawing, or part by part when   *)
(* the drawing and its rules are too long for one call.  Its answer has      *)
(*   of       the element that is asked about, or "ALL"                      *)
(*   long     it was asked part by part                                      *)
(*   parts    the claims of every call; one that fails claims nothing        *)
(* and a claim is a Finding with                                             *)
(*   cites    what its rule speaks of;  says  what all of it speaks of       *)
(*   values   what its values are: "current", "required", a "length" both,   *)
(*            "numbers", "weak" when they say that they are missing          *)
(*   odd      the rule and the value it requires bound one number from       *)
(*            opposite sides                                                 *)
(*   reason   how long its reason is, which also tells reasons apart         *)
(* Of a plan it reads the `traces`, <<element, word>> for what an element    *)
(* itself shows, and whether supports are drawn in a `figure` of its type.   *)
EXTENDS ReviewMerge

Unrated == -1       \* no confidence is given, or none from 0 to 1

Trace(plan, list, h, word) == h \in ToSet(list) /\ <<h, word>> \in plan.traces

\* An element that is not found does not narrow the review.
Asked(list, target) == IF target \in ToSet(list) THEN SelectSeq(list, LAMBDA h : h = target) ELSE list

\* _slim_parsed_for_llm: lines of which nothing is known are left out.
Sent(plan, list, evidence) ==
    SelectSeq(list, LAMBDA h : h \in Lines => \E e \in evidence : <<h, e>> \in plan.traces)

\* Nothing is asked of a drawing in parts that has none.
Said(answer, sent) == IF answer.long /\ sent = <<>> THEN <<>> ELSE FlattenSeq(answer.parts)

\* (mutant) the last claim of an element and type stays
WordiestLast(s) == LastOf(s, Pair)

\* _dedupe_violations of the pipe and the architectural review: at the place of
\* the first claim of an element and type, the first with the longest reason.
Wordiest(s) ==
    LET Same(f) == SelectSeq(s, LAMBDA g : Pair(g) = Pair(f)) IN
    Each(LAMBDA f : SelectSeq(Same(f), LAMBDA g : \A o \in ToSet(Same(f)) : o.reason <= g.reason)[1],
         FirstOf(s, Pair))

\* _inject_confidence
Rated(s, Score(_)) == Each(LAMBDA c : IF c.conf = Unrated THEN [c EXCEPT !.conf = Score(c)] ELSE c, s)
When(condition, points) == IF condition THEN points ELSE 0
Clipped(score) == Min({100, Max({0, score})})

------------------------------------------------------------------------------
(* What a rule is about                                                     *)

Domains == {"fire", "gas", "water"}
Drawing == {"qa_gap", "qa_mismatch", "qa_dangling", "text"}

\* A rule of another domain; an element that is not known is of every domain.
OtherDomain(plan, list, c) ==
    c.eq \in ToSet(list) /\ \E d \in Domains \intersect c.cites : ~Trace(plan, list, c.eq, d)

------------------------------------------------------------------------------
(* Claims about supports of the pipe review                                 *)

IsSupport(c) == c.type = "hanger" \/ "support" \in c.says

\* On the element, or on another that the claim names.
ShownSupport(plan, list, c) == \E h \in {c.eq} \union c.rel : Trace(plan, list, h, "support")

\* No symbol of a pipe, but one by its role, its layer or its values.
IsPipe(plan, list, c) ==
    LET Has(word) == Trace(plan, list, c.eq, word) IN
    ~Has("symbol") /\ \E word \in {"mep", "pipe", "value", "material"} : Has(word)

MeasuredSpacing(plan, list, c) ==
    \/ Trace(plan, list, c.eq, "spacing") \/ c.rel # {}
    \/ {"current", "required", "length"} \subseteq c.values /\ "support" \in c.says

Supported(plan, list, c) ==
    /\ plan.figure => ShownSupport(plan, list, c)
    /\ IsPipe(plan, list, c) /\ MeasuredSpacing(plan, list, c)

------------------------------------------------------------------------------
(* The filters of the pipe review                                           *)

\* A slope or a height that the element itself has.
Levelled(plan, list, c) ==
    LET Has(word) == Trace(plan, list, c.eq, word) IN
    (c.type = "slope" => Has("slope")) /\ ("height" \in c.says => Has("height"))

\* A rule for gas meters or tanks is about one.
OfItsKind(plan, list, c) == \A word \in {"meter", "tank"} \intersect c.says : Trace(plan, list, c.eq, word)

\* Nothing that the element shows, or does not show, speaks against the claim; a
\* note can only be drawn badly.
Borne(plan, list, c) ==
    /\ ~c.odd /\ ~OtherDomain(plan, list, c)
    /\ Trace(plan, list, c.eq, "note") => c.type \in Drawing
    /\ Levelled(plan, list, c) /\ OfItsKind(plan, list, c)
    /\ IsSupport(c) => Supported(plan, list, c)

PipeScore(plan, list, c) ==
    LET given == c.values \intersect {"current", "required"}
        clear == c.eq \notin ToSet(list) \/ \E word \in {"pipe", "fire"} : Trace(plan, list, c.eq, word)
    IN  Clipped(100 - When("current" \notin given, 15) - When("required" \notin given, 10)
                + When(Cardinality(given) = 2, 10)
                - When(~Trace(plan, list, c.eq, "material"), 10) - When(~clear, 5))

\* What the model says before the filters; dimensions are not sent either.
PipeSaid(plan, asked, answer) ==
    LET drawn == SelectSeq(asked, LAMBDA h : <<h, "dimension">> \notin plan.traces) IN
    Said(answer, Sent(plan, drawn, {"named", "mep", "value", "material"}))

\* check_compliance_parsed; only what was asked in parts is freed of doubles, and
\* before the filters.
PipeClaims(plan, list, answer) ==
    LET asked == Asked(list, answer.of)
        said == PipeSaid(plan, asked, answer)
        once == IF answer.long THEN Wordiest(said) ELSE said
    IN  Rated(SelectSeq(once, LAMBDA c : Borne(plan, asked, c)), LAMBDA c : PipeScore(plan, asked, c))

------------------------------------------------------------------------------
(* The other domains                                                        *)

\* _WIRE_VIOLATION_TYPES_FOR_TEXT
OfWires == {"size", "cable"}

ElecScore(list, c) ==
    Clipped(45 + (IF c.eq \in ToSet(list) THEN 15 ELSE 5) + When(c.cites # {}, 15)
            + When({"current", "required"} \subseteq c.values, 12) + When("numbers" \in c.values, 8)
            + When(c.auto, 5) + When(c.type = "open", 8) - When("weak" \in c.values, 25))

\* A line without electrical values is taken for the frame of a table.
Electrical(plan, list) == Sent(plan, list, {"value"})

\* The first of an element and type; no text has the size of a wire.
ElecClaims(plan, list, answer) ==
    LET once == FirstOf(Said(answer, Electrical(plan, list)), Pair)
        kept == SelectSeq(once, LAMBDA c : /\ ~c.odd
                                           /\ c.type \in OfWires => c.eq \notin ToSet(list) \intersect DOMAIN plan.says)
    IN  Rated(kept, LAMBDA c : ElecScore(list, c))

\* One call is believed; of several, what is said twice word for word is once.
FireClaims(list, answer) ==
    LET said == Said(answer, list) IN
    IF answer.long THEN FirstOf(said, LAMBDA c : <<Pair(c), c.reason>>) ELSE said

ArchClaims(list, answer) ==
    LET said == Said(answer, list) IN IF answer.long THEN Wordiest(said) ELSE said
==============================================================================
