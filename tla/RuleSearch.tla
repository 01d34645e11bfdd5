------------------------------ MODULE RuleSearch ------------------------------
(* The rules that a review is held against, chunks of documents that its    *)
(* queries find: the pipe review asks for every system of pipes, lets the    *)
(* language model judge the documents and asks again for what it misses; the *)
(* others ask for their candidates.  A chunk is <<document, place>>.  Of the *)
(* `search` of a plan these operators read                                   *)
(*   finds     query -> the chunks that the database gives for it, the best  *)
(*             first and perhaps twice; a query that fails finds nothing     *)
(*   uploads   documents of the session;  listing: chunks that are a table   *)
(*             of contents                                                   *)
(*   hint      the systems that the drawing's data name by their code;       *)
(*   titled    those that the language model reads out of title and texts;   *)
(*   shown     those that layers, materials and texts show                   *)
(*   words     texts that name equipment                                     *)
(*   own       the query for what the elements are                           *)
(*   asks      those of the candidates or of the focus;  extra: of the words *)
(*   judged    document -> suitability in percent;  missing: what the model  *)
(*             would have asked as well                                      *)
(*   standard  the document that the user names, or ""                       *)
(*   ranks     chunk -> the reranker's score; empty without a reranker       *)
(*   glossary  the names of layers are explained in the database             *)
EXTENDS ReviewMerge

Firsts(s) == FirstOf(s, LAMBDA x : x)
Taken(s, most) == SubSeq(s, 1, Min({most, Len(s)}))

\* sorted(): what is not before the other keeps its place.
Sorted(s, Before(_, _)) ==
    LET order == SortSeq([i \in DOMAIN s |-> i],
                         LAMBDA i, j : Before(s[i], s[j]) \/ (~Before(s[j], s[i]) /\ i < j))
    IN  Each(LAMBDA i : s[i], order)

Found(search, q) == IF q \in DOMAIN search.finds THEN search.finds[q] ELSE <<>>
Uploaded(search, c) == c[1] \in search.uploads
Common(search, s) == SelectSeq(s, LAMBDA c : ~Uploaded(search, c))
Own(search, s) == SelectSeq(s, LAMBDA c : Uploaded(search, c))

------------------------------------------------------------------------------
(* What the pipe review asks                                                *)

Systems == <<"GAS", "DRAIN", "FIRE", "WATER", "HVAC">>
MaxQueries == 8
PerQuery == 6
MaxRules == 18

\* _classify_pipe_domain_hint_llm: an exact hint is not put to the model.
Classified(search) == IF search.hint # <<>> THEN search.hint ELSE search.titled

\* Up to 8 texts: two queries for the first five of them, one for the rest.
WordQueries(search) ==
    SelectSeq(<<<<"words", 1>>, <<"words", 2>>, <<"words", 6>>>>,
              LAMBDA q : search.words >= IF q[2] = 6 THEN 6 ELSE 1)

SystemQueries(search) ==
    Firsts(Each(LAMBDA d : <<"system", d>>,
                Classified(search) \o SelectSeq(Systems, LAMBDA d : d \in search.shown)))
CoreQueries == <<<<"core", 1>>, <<"core", 2>>>>

\* (mutant) what every review asks comes first
QueriesCoreFirst(search) ==
    Taken(CoreQueries \o WordQueries(search) \o SystemQueries(search), MaxQueries)

\* _build_domain_rag_queries: the general ones give way.
Queries(search) ==
    LET asked == SystemQueries(search) \o WordQueries(search) \o CoreQueries IN
    Taken(IF Len(asked) < MaxQueries THEN Firsts(Append(asked, search.own)) ELSE asked, MaxQueries)

------------------------------------------------------------------------------
(* What the pipe review finds; a row is a chunk with the queries it answers *)

\* QueryAgent.execute: the documents of all, then those of the session.
Readable(search, q) == SelectSeq(Firsts(Found(search, q)), LAMBDA c : c \notin search.listing)
Batch(search, q) ==
    LET chunks == Readable(search, q) IN
    Taken(Common(search, chunks), PerQuery) \o Taken(Own(search, chunks), PerQuery)
Rows(chunks) == Each(LAMBDA c : [of |-> c, asked |-> {}], chunks)
Batches(search, queries) == Each(LAMBDA q : Rows(Batch(search, q)), queries)

\* A share of it for every rank: 1 / r of it is whole.
Unit == 12252240

Hits(batches) ==
    LET Hit(b, r) == LET row == batches[b][r] IN
            [of |-> row.of, asked |-> IF row.asked = {} THEN {b} ELSE row.asked, weight |-> Unit \div r]
    IN  FlattenSeq([b \in DOMAIN batches |-> [r \in DOMAIN batches[b] |-> Hit(b, r)]])

\* _merge_rag_batches
Pooled(search, batches) ==
    LET hits == Hits(batches)
        Row(h) == LET same == SelectSeq(hits, LAMBDA g : g.of = h.of) IN
            [of |-> h.of, asked |-> UNION {g.asked : g \in ToSet(same)},
             weight |-> FoldLeft(LAMBDA sum, g : sum + g.weight, 0, same)]
        Score(r) == Unit * Cardinality(r.asked) + r.weight
        Before(a, b) == IF Uploaded(search, a.of) # Uploaded(search, b.of) THEN Uploaded(search, a.of)
                        ELSE Score(a) > Score(b)
    IN  Taken(Sorted(Each(Row, FirstOf(hits, LAMBDA h : h.of)), Before), MaxRules)

\* _assess_rag_documents_llm: nothing is judged, and nothing missing, where nothing was found.
Missing(search, rows) ==
    IF rows = <<>> THEN <<>>
    ELSE SelectSeq(Taken(search.missing, 3), LAMBDA q : q \notin ToSet(Queries(search)))

\* `float(... or 0.5)`: what does not fit at all fits half.
Suits(search, c) ==
    LET doc == c[1] IN
    CASE doc \notin DOMAIN search.judged -> 55
      [] doc \in DOMAIN search.judged /\ search.judged[doc] = 0 -> 50
      [] OTHER -> search.judged[doc]

\* _apply_rag_doc_assessment
Judged(search, rows) ==
    LET Before(a, b) ==
            IF Uploaded(search, a.of) # Uploaded(search, b.of) THEN Uploaded(search, a.of)
            ELSE IF Suits(search, a.of) # Suits(search, b.of) THEN Suits(search, a.of) > Suits(search, b.of)
            ELSE Cardinality(a.asked) > Cardinality(b.asked)
    IN  Sorted(rows, Before)

\* The queries of the second round count from one again: the one that answers
\* them is taken to have answered the first ones.
Searched(search) ==
    LET first == Pooled(search, Batches(search, Queries(search)))
        more == Missing(search, first)
        rows == IF more = <<>> THEN first ELSE Pooled(search, <<first>> \o Batches(search, more))
    IN  [asked |-> Queries(search) \o more, rules |-> Each(LAMBDA r : r.of, Judged(search, rows))]

GeneralQuery == <<"general", 1>>
NoSearch == [asked |-> <<>>, rules |-> <<>>]

\* The rules of a pipe review of which the search, or the general query after it, ended well.
PipeSearch(search, ended, general) ==
    LET found == IF ended THEN Searched(search) ELSE NoSearch IN
    IF found.rules # <<>> \/ ~general THEN found
    ELSE [asked |-> Append(found.asked, GeneralQuery), rules |-> Batch(search, GeneralQuery)]

------------------------------------------------------------------------------
(* The other domains                                                        *)

\* A standard that the user names is the only one, as far as it answers the query.
OfStandard(search, chunks) ==
    LET strict == SelectSeq(chunks, LAMBDA c : c[1] = search.standard) IN
    IF strict = <<>> THEN chunks ELSE strict

ElecBatch(search, q, most) ==
    Taken(Firsts(OfStandard(search, Common(search, Found(search, q)))), most)
    \o Taken(Own(search, Found(search, q)), most)

\* ElecQueryBuilder.build_queries, without the query that is asked first
ElecQueries(search) ==
    SelectSeq(Taken(Firsts(Append(search.asks, search.own)), MaxQueries), LAMBDA q : q # search.own)

ElecSearch(search) ==
    LET more == ElecQueries(search) IN
    [asked |-> <<search.own>> \o more,
     rules |-> Firsts(ElecBatch(search, search.own, 5)
                      \o FlattenSeq(Each(LAMBDA q : ElecBatch(search, q, 4), more)))]

\* rerank_chunks: without a model the order stays.
Reranked(search, pool) ==
    IF search.ranks = <<>> THEN pool
    ELSE Sorted(pool, LAMBDA a, b : search.ranks[a] > search.ranks[b])

\* retrieve of the engines: ``each` chunks of a query, `pooled` in all, `most` of them.
Retrieved(search, queries, each, pooled, most) ==
    LET Candidates(q) == Taken(Common(search, Found(search, q)), each)
                         \o Taken(Own(search, Found(search, q)), each)
        pool == Taken(Firsts(FlattenSeq(Each(Candidates, queries))), pooled)
    IN  [asked |-> queries, rules |-> Taken(Reranked(search, pool), most)]

\* FIRE_SUB_QUERIES are for a drawing without candidates.
FireQueries(search) ==
    IF search.asks # <<>> THEN Firsts(search.asks)
    ELSE <<search.own>> \o [i \in 1..8 |-> <<"fire", i>>]
FireSearch(search) == Retrieved(search, FireQueries(search), 8, 100, 8)

\* ARCH_SUB_QUERIES, or those of the focus; and up to six for the words of the query.
ArchQueries(search) ==
    Firsts(<<search.own>> \o (IF search.asks # <<>> THEN search.asks ELSE [i \in 1..10 |-> <<"arch", i>>])
           \o Taken(Firsts(search.extra), 6))
ArchSearch(search) == Retrieved(search, ArchQueries(search), 10, 120, 5)
==============================================================================
