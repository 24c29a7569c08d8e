------------------------------ MODULE LeakGate ------------------------------
(***************************************************************************)
(* The gate that keeps the words of reference documents out of a draft      *)
(* (invariants/leakage.py, phase_b/validation_legal.py): runs of words that *)
(* the draft shares with a reference, noticed shard by shard and reported   *)
(* when they are long enough.  A text is the sequence of its normalised     *)
(* words.                                                                  *)
(***************************************************************************)
EXTENDS Naturals, Sequences, FiniteSets

CONSTANTS
    Word,
    NgramWords,     \* NGRAM_WORDS: the length of a shard
    MinRunWords,    \* MIN_RUN_WORDS: the shortest run that is reported
    MaxDraft,       \* bound on the words of the draft
    MaxReference    \* bound on the words of a reference

ASSUME ShardAssumption ==
    /\ NgramWords \in Nat \ {0}
    /\ MinRunWords \in Nat /\ MinRunWords >= NgramWords
    /\ MaxDraft \in Nat /\ MaxReference \in Nat

Text(n) == UNION {[1 .. k -> Word] : k \in 0 .. n}
Ref == {1, 2}       \* the reference documents of the contract

VARIABLES
    draft,
    references,
    findings    \* no tuple, or the passages found to be copied from each reference

leakVars == <<draft, references, findings>>

Passage == [document : Ref, first : 1 .. MaxDraft, last : 1 .. MaxDraft]

LeakTypeOK ==
    /\ draft \in Text(MaxDraft)
    /\ references \in [Ref -> Text(MaxReference)]
    /\ \A hits \in findings : hits \subseteq Passage

LeakInit ==
    /\ draft \in Text(MaxDraft)
    /\ references \in [Ref -> Text(MaxReference)]
    /\ findings = {}

-----------------------------------------------------------------------------
\* ngrams
Ngrams(text) ==
    {SubSeq(text, i, i + NgramWords - 1) : i \in 1 .. Len(text) + 1 - NgramWords}

\* Mutant: the last shard is not looked at.
CoveredButLast(text) ==
    UNION {k .. k + NgramWords - 1 :
           k \in {i \in 1 .. Len(draft) - NgramWords :
                    SubSeq(draft, i, i + NgramWords - 1) \in Ngrams(text)}}

\* The places of the draft that lie in a shard of the reference
Covered(text) ==
    UNION {k .. k + NgramWords - 1 :
           k \in {i \in 1 .. Len(draft) + 1 - NgramWords :
                    SubSeq(draft, i, i + NgramWords - 1) \in Ngrams(text)}}

\* _runs: the maximal runs of a set of places
Runs(places) ==
    {run \in places \X places :
        /\ run[1] .. run[2] # {} /\ run[1] .. run[2] \subseteq places
        /\ run[1] - 1 \notin places /\ run[2] + 1 \notin places}

\* find_leaks
FindLeaks ==
    UNION {{[document |-> r, first |-> run[1], last |-> run[2]] :
                run \in {long \in Runs(Covered(references[r])) :
                            long[2] + 1 - long[1] >= MinRunWords}} : r \in Ref}

\* _reference_leakage: a finding blocks the draft for each document with hits.
ReferenceLeakage ==
    /\ findings = {}
    /\ findings' = {FindLeaks}
    /\ UNCHANGED <<draft, references>>

LeakNext == ReferenceLeakage

-----------------------------------------------------------------------------
\* The draft's words from place i are those of the text from place j, n of them.
Copies(text, i, j, n) ==
    \A k \in 0 .. n - 1 : draft[i + k] = text[j + k]

\* Whatever a draft copies of a reference, if it is as long as the limit, lies
\* within one passage reported for that document, and each word reported is
\* part of a shard the two share: a passage cannot slip between two shards or
\* past the end, and nothing is held against a draft that shares less.
CopiedRunsReported ==
    \A hits \in findings : \A r \in Ref :
        LET text == references[r]
        IN  /\ \A i \in 1 .. Len(draft), j \in 1 .. Len(text), n \in MinRunWords .. MaxReference :
                   /\ i + n - 1 <= Len(draft) /\ j + n - 1 <= Len(text)
                   /\ Copies(text, i, j, n)
                   => \E hit \in hits : hit.document = r /\ hit.first <= i /\ i + n - 1 <= hit.last
            /\ \A hit \in hits : hit.document = r =>
                   \A k \in hit.first .. hit.last :
                       \E i \in hit.first .. k, j \in 1 .. Len(text) :
                           /\ k < i + NgramWords /\ i + NgramWords - 1 <= hit.last
                           /\ j + NgramWords - 1 <= Len(text)
                           /\ Copies(text, i, j, NgramWords)
=============================================================================
