------------------------------ MODULE Lexical ------------------------------
(***************************************************************************)
(* The lexical half of the observations' index: Bm25, kept up to date text *)
(* by text (backend/app/fieldnotes/index.py), under the index's lock.  A   *)
(* text is the number of times it has each term.  A score is the set of    *)
(* what it adds up: for a term, how many texts have it (its idf), how      *)
(* often this one does and how long it is; the average length they share.  *)
(***************************************************************************)
EXTENDS Integers, FiniteSets

CONSTANTS
    Documents,      \* the observations' ids
    Terms,
    MaxCount,       \* bound: the times a text has a term
    NoText

TextCounts == [Terms -> 0..MaxCount]

ASSUME LexicalAssumption ==
    /\ IsFiniteSet(Terms) /\ IsFiniteSet(Documents)
    /\ MaxCount \in Nat /\ NoText \notin TextCounts

VARIABLES
    indexed,        \* Index._entries: each observation's text
    bm25            \* its counts, lengths, postings and total

lexicalVars == <<indexed, bm25>>

Tokens(x) == {u \in Terms \X (1..MaxCount) : u[2] <= x[u[1]]}
Length(x) == Cardinality(Tokens(x))
TermsOf(x) == {t \in Terms : x[t] > 0}

\* A term no text has has no posting.
NoTexts ==
    [counts |-> [d \in Documents |-> NoText], lengths |-> [d \in Documents |-> 0],
     postings |-> [t \in Terms |-> {}], total |-> 0]

LexicalInit == indexed = [d \in Documents |-> NoText] /\ bm25 = NoTexts

\* Mutant: the postings keep what is removed.
RemovedButPostings(b, d) ==
    IF b.counts[d] = NoText THEN b
    ELSE [b EXCEPT !.counts[d] = NoText, !.lengths[d] = 0, !.total = @ - b.lengths[d]]

\* Bm25.remove.
Removed(b, d) ==
    IF b.counts[d] = NoText THEN b
    ELSE [counts |-> [b.counts EXCEPT ![d] = NoText],
          lengths |-> [b.lengths EXCEPT ![d] = 0],
          postings |-> [t \in Terms |-> IF t \in TermsOf(b.counts[d]) THEN b.postings[t] \ {d}
                                        ELSE b.postings[t]],
          total |-> b.total - b.lengths[d]]

\* Bm25.put, which removes first.
Added(b, d, x) ==
    [counts |-> [b.counts EXCEPT ![d] = x],
     lengths |-> [b.lengths EXCEPT ![d] = Length(x)],
     postings |-> [t \in Terms |-> IF t \in TermsOf(x) THEN b.postings[t] \cup {d}
                                   ELSE b.postings[t]],
     total |-> b.total + Length(x)]
Put(b, d, x) == Added(Removed(b, d), d, x)

\* Index.update, of one file: one that is there and is an observation's, or not.
Takes(d, x) ==
    /\ indexed' = [indexed EXCEPT ![d] = x]
    /\ bm25' = Put(Removed(bm25, d), d, x)
Drops(d) ==
    /\ indexed' = [indexed EXCEPT ![d] = NoText]
    /\ bm25' = Removed(bm25, d)

LexicalNext == \E d \in Documents : Drops(d) \/ \E x \in TextCounts : Takes(d, x)

LexicalSpec == LexicalInit /\ [][LexicalNext]_lexicalVars

----------------------------------------------------------------------------
\* Bm25.overlap: what a document earns for a query, and what the query's own terms
\* would earn as a document.
Earns(t, count, length) == <<t, Cardinality(bm25.postings[t]), count, length>>
Score(d, q) ==
    {Earns(t, bm25.counts[d][t], bm25.lengths[d]) :
        t \in {t \in TermsOf(q) : d \in bm25.postings[t]}}
Own(q) == {Earns(t, q[t], Length(q)) : t \in TermsOf(q)}

\* Each document's counts are a text's, or it has none.
LexicalTypeOK ==
    /\ indexed \in [Documents -> TextCounts \cup {NoText}]
    /\ bm25 \in [counts : [Documents -> TextCounts \cup {NoText}], lengths : [Documents -> Nat],
                 postings : [Terms -> SUBSET Documents], total : Int]

\* "Kept incrementally" (Bm25): whatever was taken in, replaced and dropped, in any
\* order, the postings and the average length are those of the texts that are
\* indexed now, and an observation's own text earns all there is to earn ("1 for
\* the query's own text", overlap).
IndexIsItsTexts ==
    LET there == {d \in Documents : indexed[d] # NoText} IN
    /\ \A t \in Terms : bm25.postings[t] = {d \in there : t \in TermsOf(indexed[d])}
    /\ bm25.total = Cardinality(UNION {{d} \X Tokens(indexed[d]) : d \in there})
    /\ \A d \in there : Score(d, indexed[d]) = Own(indexed[d])
=============================================================================
