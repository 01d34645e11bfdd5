------------------------------ MODULE RagContext -------------------------------
(* What the agents cite: chunks of the documents as a question has found    *)
(* them, the tables beside them, and the references that an answer and a    *)
(* fix keep (elec_review_node.py 1607-1871, arch 906-994 and 1168-1190,     *)
(* fire 840-927 and 1084-1155, pipe 2095-2204).  A chunk has its `id` and   *)
(* the section's `number` as <<n>>, or <<>> when it has none: chunks of a   *)
(* document that only this session has are not in the database.  `section`  *)
(* and `title` are the words of the section's name and the document's, so   *)
(* that one name contains another when its words do.                        *)
EXTENDS Integers, Sequences, SequencesExt, FiniteSetsExt

Window == 3
TableBeside(c, ref) == c.table /\ c.doc = ref.doc /\ c.at \in (ref.at - Window)..(ref.at + Window)

\* A text that speaks of a table brings the tables near it in its document, up to
\* `most` in all; a query that fails brings none and does not end the others.  The
\* first place of a document is not recognised among what was found.
IsAt(k, c) == k.doc = c.doc /\ k.at = c.at
IsThere(c, found, added) == (\E k \in ToSet(added) : IsAt(k, c)) \/ (c.at # 0 /\ \E k \in ToSet(found) : IsAt(k, c))
WithTables(added, ref, found, library, most) ==
    FoldLeft(LAMBDA more, c : IF TableBeside(c, ref) /\ Len(more) < most /\ ~IsThere(c, found, more)
                              THEN Append(more, c) ELSE more,
             added, library)
AsksForTables(c, failing) == ~c.table /\ c.refers /\ c.doc \notin failing
TablesOf(found, library, failing, most) ==
    FoldLeft(LAMBDA added, c : IF AsksForTables(c, failing) THEN WithTables(added, c, found, library, most) ELSE added,
             <<>>, found)
ExpandTableNeighbors(found, library, failing, most) == found \o TablesOf(found, library, failing, most)

\* A reference to a chunk without an id takes a number out of its section's name
\* or its place for the id, when there is nothing else in it.
LawReference(c) ==
    [id |-> CASE c.id # <<>> -> c.id
              [] c.id = <<>> /\ c.section # {} -> c.number
              [] OTHER -> IF c.at = 0 THEN <<>> ELSE <<c.at>>,
     name |-> IF c.section # {} THEN c.section ELSE c.title]
LawReferences(found) == [i \in DOMAIN found |-> LawReference(found[i])]

\* The chunk that a finding's rule is from: the first of a name that contains
\* the rule's or is contained in it.
RefChunkId(rule, laws) ==
    LET Fits(law) == law.name # {} /\ (law.name \subseteq rule \/ rule \subseteq law.name) /\ law.id # <<>>
        fitting == {i \in DOMAIN laws : Fits(laws[i])}
    IN  IF rule = {} \/ fitting = {} THEN <<>> ELSE laws[Min(fitting)].id
==============================================================================
