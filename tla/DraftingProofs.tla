--------------------------- MODULE DraftingProofs ---------------------------
(* Proofs about the steps of drafting that no model decides: merging what    *)
(* the sources know, choosing a clause for each slot, and keeping the words  *)
(* of reference documents out of a draft.                                    *)
EXTENDS DocumentProofs

(***************************************************************************)
(* Merging what the sources know                                           *)
(***************************************************************************)

\* The providers are ranked, each with a rank of its own (knowledge/base.py).
LEMMA ProviderRanks ==
  /\ IsFiniteSet(Provider)
  /\ "template" \in Provider /\ "llm" \in Provider
  /\ \A p \in Provider : PrecedenceOf(p) \in Nat
  /\ \A p, q \in Provider : PrecedenceOf(p) = PrecedenceOf(q) => p = q
<1> DEFINE n == Len(Ranking)
           S == {"playbook", "clause_library", "template", "reference", "llm"} \cup ToSet(Extensions)
<1>1. Ranking \in Seq(S) /\ n >= 5 /\ Ranking[3] = "template" /\ Ranking[5] = "llm"
  <2>1. Precedence \in Seq(S)
    <3>1. ASSUME NEW T, NEW a \in T, NEW b \in T, NEW c \in T, NEW d \in T, NEW e \in T
          PROVE  <<a, b, c, d, e>> \in Seq(T)
      OBVIOUS
    <3>2. /\ "playbook" \in S /\ "clause_library" \in S /\ "template" \in S
          /\ "reference" \in S /\ "llm" \in S
      OBVIOUS
    <3> HIDE DEF S
    <3> QED
      BY <3>1, <3>2 DEF Precedence
  <2>2. Len(Precedence) = 5
    BY DEF Precedence
  <2>3. Precedence[3] = "template"
    BY DEF Precedence
  <2>4. Precedence[5] = "llm"
    BY DEF Precedence
  <2>5. Extensions \in Seq(S)
    <3>1. Extensions \in Seq(ToSet(Extensions)) /\ ToSet(Extensions) \subseteq S
      BY KnowledgeAssumption
    <3>2. \A A, B : A \subseteq B => Seq(A) \subseteq Seq(B)
      OBVIOUS
    <3> HIDE DEF S
    <3> QED
      BY <3>1, <3>2
  <2> HIDE DEF S
  <2>6. /\ Ranking \in Seq(S) /\ n = 5 + Len(Extensions)
        /\ \A i \in 1 .. Len(Precedence) : Ranking[i] = Precedence[i]
    <3> DEFINE first == Precedence
               last == Extensions
    <3>1. first \in Seq(S) /\ last \in Seq(S) /\ Len(first) = 5
      BY <2>1, <2>2, <2>5
    <3>2. Ranking = first \o last
      BY DEF Ranking
    <3> HIDE DEF first, last
    <3>3. first \o last \in Seq(S) /\ Len(first \o last) = Len(first) + Len(last)
      BY <3>1, Joined
    <3>4. \A i \in 1 .. Len(first) : (first \o last)[i] = first[i]
      BY <3>1, JoinedElements
    <3> QED
      BY <3>1, <3>2, <3>3, <3>4 DEF first, last
  <2>7. Len(Extensions) \in Nat
    BY <2>5, Elements
  <2>8. 3 \in 1 .. Len(Precedence) /\ 5 \in 1 .. Len(Precedence)
    BY <2>2
  <2> QED
    BY <2>3, <2>4, <2>6, <2>7, <2>8
<1>2. n \in Nat /\ DOMAIN Ranking = 1 .. n
  BY <1>1, Elements
<1>3. Provider = {Ranking[i] : i \in 1 .. n}
  BY <1>2 DEF Provider, ToSet
<1>4. "template" \in Provider /\ "llm" \in Provider
  <2>1. 3 \in 1 .. n /\ 5 \in 1 .. n
    BY <1>1, <1>2
  <2> QED
    BY <1>1, <1>3, <2>1
<1>5. \A p \in Provider : PrecedenceOf(p) \in 1 .. n /\ Ranking[PrecedenceOf(p)] = p
  BY <1>2, <1>3 DEF PrecedenceOf
<1>6. IsFiniteSet(Provider)
  <2> DEFINE list == [i \in 1 .. n |-> Ranking[i]]
  <2>1. list \in Surjection(1 .. n, Provider)
    BY <1>3 DEF Surjection
  <2>2. IsFiniteSet(1 .. n)
    BY <1>2, FS_Interval
  <2> HIDE DEF list, n
  <2> QED
    BY <2>1, <2>2, FS_Surjection
<1>7. \A p \in Provider : PrecedenceOf(p) \in Nat
  BY <1>2, <1>5
<1>8. \A p, q \in Provider : PrecedenceOf(p) = PrecedenceOf(q) => p = q
  BY <1>5
<1> QED
  BY <1>4, <1>6, <1>7, <1>8

\* The plan has every available provider once (phase_a/resolver.py).
LEMMA PlanReorders ==
  ASSUME NEW s \in Seq(Provider)
  PROVE  \E turns \in Bijection(1 .. Len(s), 1 .. Len(s)) :
            Sorted(s, LAMBDA p, q : PrecedenceOf(p) < PrecedenceOf(q)) = Taken(s, turns)
<1> DEFINE n == Len(s)
           W == {pair \in Provider \X Provider : PrecedenceOf(pair[1]) < PrecedenceOf(pair[2])}
           ahead == [i \in 1 .. n |->
                       {j \in 1 .. n : <<s[j], s[i]>> \in W
                                       \/ (j < i /\ <<s[i], s[j]>> \notin W)}]
<1>1. n \in Nat /\ DOMAIN s = 1 .. n /\ \A i \in 1 .. n : s[i] \in Provider
  BY Elements
<1> HIDE DEF n
<1>2. \A p, q \in Provider : <<p, q>> \in W <=> PrecedenceOf(p) < PrecedenceOf(q)
  OBVIOUS
<1> HIDE DEF W
<1>3. \A i, j \in 1 .. n : <<s[i], s[j]>> \in W <=> PrecedenceOf(s[i]) < PrecedenceOf(s[j])
  BY <1>1, <1>2
<1>4. Ranked(s, W, n)
  <2>1. \A i \in 1 .. n : PrecedenceOf(s[i]) \in Nat
    BY <1>1, ProviderRanks
  <2>2. \A i \in 1 .. n : <<s[i], s[i]>> \notin W
    BY <1>3, <2>1
  <2>3. ASSUME NEW i \in 1 .. n, NEW j \in 1 .. n, NEW k \in 1 .. n
        PROVE  /\ (<<s[i], s[j]>> \in W /\ <<s[j], s[k]>> \in W => <<s[i], s[k]>> \in W)
               /\ (<<s[i], s[k]>> \in W => <<s[i], s[j]>> \in W \/ <<s[j], s[k]>> \in W)
    BY <1>3, <2>1
  <2> QED
    BY <2>2, <2>3 DEF Ranked
<1>5. Sorted(s, LAMBDA p, q : PrecedenceOf(p) < PrecedenceOf(q)) = Arranged(s, ahead)
  <2>1. [i \in 1 .. n |-> {j \in 1 .. n : PrecedenceOf(s[j]) < PrecedenceOf(s[i])
                             \/ (j < i /\ ~(PrecedenceOf(s[i]) < PrecedenceOf(s[j])))}] = ahead
    BY <1>3
  <2> QED
    BY <1>1, <2>1 DEF Sorted
<1>6. PICK turns \in Bijection(1 .. n, 1 .. n) :
        /\ Arranged(s, ahead) = Taken(s, turns)
        /\ \A j, k \in 1 .. n : j < k =>
             \/ <<s[turns[j]], s[turns[k]]>> \in W
             \/ (turns[j] < turns[k] /\ <<s[turns[k]], s[turns[j]]>> \notin W)
  BY <1>1, <1>4, Sorting
<1> QED
  BY <1>5, <1>6 DEF n

\* By authority, each contribution is taken once and the higher ranks come first.
LEMMA AuthorityReorders ==
  ASSUME NEW s \in Seq(Contribution)
  PROVE  \E turns \in Bijection(1 .. Len(s), 1 .. Len(s)) :
            /\ ByAuthority(s) = Taken(s, turns)
            /\ \A j, k \in 1 .. Len(s) : j < k =>
                 PrecedenceOf(s[turns[j]].provider) <= PrecedenceOf(s[turns[k]].provider)
<1> DEFINE n == Len(s)
           W == {pair \in Contribution \X Contribution :
                   PrecedenceOf(pair[1].provider) < PrecedenceOf(pair[2].provider)}
           ahead == [i \in 1 .. n |->
                       {j \in 1 .. n : <<s[j], s[i]>> \in W
                                       \/ (j < i /\ <<s[i], s[j]>> \notin W)}]
           rank(i) == PrecedenceOf(s[i].provider)
<1>1. n \in Nat /\ DOMAIN s = 1 .. n /\ \A i \in 1 .. n : s[i] \in Contribution
  BY Elements
<1> HIDE DEF n
<1>2. \A c, d \in Contribution :
        <<c, d>> \in W <=> PrecedenceOf(c.provider) < PrecedenceOf(d.provider)
  OBVIOUS
<1> HIDE DEF W
<1>3. \A i, j \in 1 .. n : <<s[i], s[j]>> \in W <=> rank(i) < rank(j)
  BY <1>1, <1>2
<1>r. \A i \in 1 .. n : rank(i) \in Nat
  <2>1. \A i \in 1 .. n : s[i].provider \in Provider
    BY <1>1 DEF Contribution
  <2> QED
    BY <2>1, ProviderRanks
<1>4. Ranked(s, W, n)
  <2>2. \A i \in 1 .. n : <<s[i], s[i]>> \notin W
    BY <1>3, <1>r
  <2>3. ASSUME NEW i \in 1 .. n, NEW j \in 1 .. n, NEW k \in 1 .. n
        PROVE  /\ (<<s[i], s[j]>> \in W /\ <<s[j], s[k]>> \in W => <<s[i], s[k]>> \in W)
               /\ (<<s[i], s[k]>> \in W => <<s[i], s[j]>> \in W \/ <<s[j], s[k]>> \in W)
    <3> HIDE DEF rank
    <3> QED
      BY <1>3, <1>r
  <2> QED
    BY <2>2, <2>3 DEF Ranked
<1>5. ByAuthority(s) = Arranged(s, ahead)
  <2>1. [i \in 1 .. n |-> {j \in 1 .. n : PrecedenceOf(s[j].provider) < PrecedenceOf(s[i].provider)
             \/ (j < i /\ ~(PrecedenceOf(s[i].provider) < PrecedenceOf(s[j].provider)))}] = ahead
    BY <1>3
  <2> QED
    BY <1>1, <2>1 DEF ByAuthority, Sorted
<1>6. PICK turns \in Bijection(1 .. n, 1 .. n) :
        /\ Arranged(s, ahead) = Taken(s, turns)
        /\ \A j, k \in 1 .. n : j < k =>
             \/ <<s[turns[j]], s[turns[k]]>> \in W
             \/ (turns[j] < turns[k] /\ <<s[turns[k]], s[turns[j]]>> \notin W)
  BY <1>1, <1>4, Sorting
<1>7. \A k \in 1 .. n : turns[k] \in 1 .. n
  BY DEF Bijection, Injection
<1>8. ASSUME NEW j \in 1 .. n, NEW k \in 1 .. n, j < k
      PROVE  rank(turns[j]) <= rank(turns[k])
  <2>1. turns[j] \in 1 .. n /\ turns[k] \in 1 .. n
    BY <1>7
  <2>2. ~(rank(turns[k]) < rank(turns[j])) \/ rank(turns[j]) < rank(turns[k])
    <3> HIDE DEF rank
    <3> QED
      BY <1>3, <1>6, <1>8, <2>1
  <2> HIDE DEF rank
  <2> QED
    BY <1>r, <2>1, <2>2
<1> QED
  BY <1>5, <1>6, <1>8 DEF n

\* What has been merged so far: a field that is stated has a winner.
MergeState ==
    {m \in [metadata : Statement, winner : [Field -> SUBSET Provider], conflicts : Seq(Conflict)] :
        \A f \in Field : m.metadata[f] # Unstated => m.winner[f] # {}}

\* The places up to the last that state a field, and those that state something else
Stated(s, f, last) == {i \in 1 .. last : s[i].metadata[f] # Unstated}
Dissent(s, f, last, value) == {i \in Stated(s, f, last) : s[i].metadata[f] # value}
Recorded(m, f) == {k \in DOMAIN m.conflicts : m.conflicts[k].field = f}

\* A field has what the first to state it said, and every dissent is recorded once
\* against it.
FieldMerged(m, s, f, last) ==
    /\ Stated(s, f, last) = {} => m.metadata[f] = Unstated
    /\ Stated(s, f, last) # {} => \E first \in Stated(s, f, last) :
         /\ \A i \in Stated(s, f, last) : first <= i
         /\ m.metadata[f] = s[first].metadata[f]
         /\ m.winner[f] = {s[first].provider}
         /\ \A k \in Recorded(m, f) : m.conflicts[k].winner = s[first].provider
    /\ Cardinality(Recorded(m, f)) = Cardinality(Dissent(s, f, last, m.metadata[f]))
    /\ {<<m.conflicts[k].loser, m.conflicts[k].losing>> : k \in Recorded(m, f)}
         = {<<s[i].provider, s[i].metadata[f]>> : i \in Dissent(s, f, last, m.metadata[f])}

\* Merging a field leaves a state of that kind, and the other fields as they were.
LEMMA MergeFieldOthers ==
  ASSUME NEW m \in MergeState, NEW f \in Field, NEW c \in Contribution
  PROVE  /\ MergeField(m, f, c) \in MergeState
         /\ \A g \in Field : \A s, last : g # f /\ FieldMerged(m, s, g, last)
              => FieldMerged(MergeField(m, f, c), s, g, last)
<1> DEFINE new == MergeField(m, f, c)
           v == c.metadata[f]
           conflict == [field |-> f, winner |-> CHOOSE p \in m.winner[f] : TRUE,
                        loser |-> c.provider, losing |-> v]
<1>m. /\ m \in [metadata : Statement, winner : [Field -> SUBSET Provider],
                conflicts : Seq(Conflict)]
      /\ \A g \in Field : m.metadata[g] # Unstated => m.winner[g] # {}
  BY DEF MergeState
<1>t. /\ m.metadata \in Statement /\ m.winner \in [Field -> SUBSET Provider]
      /\ m.conflicts \in Seq(Conflict)
      /\ m = [metadata |-> m.metadata, winner |-> m.winner, conflicts |-> m.conflicts]
  BY <1>m
<1>c. c.provider \in Provider /\ v \in Value \cup {Unstated}
  BY DEF Contribution, Statement
<1>1. CASE v = Unstated
  <2>1. new = m
    BY <1>1 DEF MergeField
  <2> QED
    BY <2>1
<1>2. CASE v # Unstated /\ m.metadata[f] = Unstated
  <2>1. /\ new.metadata = [m.metadata EXCEPT ![f] = v]
        /\ new.winner = [m.winner EXCEPT ![f] = {c.provider}]
        /\ new.conflicts = m.conflicts
        /\ new = [metadata |-> new.metadata, winner |-> new.winner, conflicts |-> new.conflicts]
    BY <1>2, <1>t DEF MergeField
  <2> HIDE DEF new
  <2>2. new \in MergeState
    <3>1. new.metadata \in Statement /\ new.winner \in [Field -> SUBSET Provider]
      BY <1>t, <1>c, <2>1 DEF Statement
    <3>2. \A g \in Field : new.metadata[g] # Unstated => new.winner[g] # {}
      BY <1>m, <1>t, <2>1 DEF Statement
    <3>3. new \in [metadata : Statement, winner : [Field -> SUBSET Provider],
                   conflicts : Seq(Conflict)]
      BY <1>t, <2>1, <3>1
    <3> QED
      BY <3>2, <3>3 DEF MergeState
  <2>3. \A g \in Field : g # f =>
          /\ new.metadata[g] = m.metadata[g] /\ new.winner[g] = m.winner[g]
          /\ Recorded(new, g) = Recorded(m, g)
    BY <1>t, <2>1 DEF Recorded, Statement
  <2> QED
    BY <2>1, <2>2, <2>3 DEF FieldMerged, new
<1>3. CASE v # Unstated /\ m.metadata[f] # Unstated /\ m.metadata[f] = v
  <2>1. new = m
    BY <1>3 DEF MergeField
  <2> QED
    BY <2>1
<1>4. CASE v # Unstated /\ m.metadata[f] # Unstated /\ m.metadata[f] # v
  <2>1. /\ new.metadata = m.metadata /\ new.winner = m.winner
        /\ new.conflicts = Append(m.conflicts, conflict)
        /\ new = [metadata |-> new.metadata, winner |-> new.winner, conflicts |-> new.conflicts]
    BY <1>4, <1>t DEF MergeField
  <2>2. conflict \in Conflict /\ conflict.field = f
    <3>1. m.winner[f] # {} /\ m.winner[f] \subseteq Provider
      BY <1>4, <1>m, <1>t
    <3>2. (CHOOSE p \in m.winner[f] : TRUE) \in Provider
      BY <3>1
    <3> QED
      BY <1>4, <1>c, <3>2 DEF Conflict
  <2> HIDE DEF new, conflict
  <2>3. /\ new.conflicts \in Seq(Conflict) /\ Len(new.conflicts) = Len(m.conflicts) + 1
        /\ \A k \in 1 .. Len(m.conflicts) : new.conflicts[k] = m.conflicts[k]
        /\ new.conflicts[Len(m.conflicts) + 1] = conflict
    BY <1>t, <2>1, <2>2, AppendProperties
  <2>4. new \in MergeState
    <3>1. new \in [metadata : Statement, winner : [Field -> SUBSET Provider],
                   conflicts : Seq(Conflict)]
      BY <1>t, <2>1, <2>3
    <3> QED
      BY <1>m, <2>1, <3>1 DEF MergeState
  <2>5. \A g \in Field : g # f =>
          /\ Recorded(new, g) = Recorded(m, g)
          /\ \A k \in Recorded(m, g) : new.conflicts[k] = m.conflicts[k]
    <3>1. /\ DOMAIN m.conflicts = 1 .. Len(m.conflicts) /\ Len(m.conflicts) \in Nat
          /\ DOMAIN new.conflicts = 1 .. Len(m.conflicts) + 1
      BY <1>t, <2>3, Elements
    <3> QED
      BY <2>2, <2>3, <3>1 DEF Recorded
  <2>6. ASSUME NEW g \in Field, NEW s, NEW last, g # f, FieldMerged(m, s, g, last)
        PROVE  FieldMerged(new, s, g, last)
    <3>1. /\ Recorded(new, g) = Recorded(m, g)
          /\ \A k \in Recorded(m, g) : new.conflicts[k] = m.conflicts[k]
          /\ new.metadata[g] = m.metadata[g] /\ new.winner[g] = m.winner[g]
      BY <2>1, <2>5, <2>6
    <3>2. {<<new.conflicts[k].loser, new.conflicts[k].losing>> : k \in Recorded(new, g)}
            = {<<m.conflicts[k].loser, m.conflicts[k].losing>> : k \in Recorded(m, g)}
      BY <3>1
    <3> QED
      BY <2>6, <3>1, <3>2 DEF FieldMerged
  <2> QED
    BY <2>4, <2>6 DEF new
<1> QED
  BY <1>1, <1>2, <1>3, <1>4

\* And it takes account of what the contribution states.
LEMMA MergeFieldThis ==
  ASSUME NEW s \in Seq(Contribution), NEW last \in 1 .. Len(s),
         NEW m \in MergeState, NEW f \in Field, FieldMerged(m, s, f, last - 1)
  PROVE  FieldMerged(MergeField(m, f, s[last]), s, f, last)
<1> DEFINE new == MergeField(m, f, s[last])
           v == s[last].metadata[f]
           Old == Stated(s, f, last - 1)
           New == Stated(s, f, last)
           conflict == [field |-> f, winner |-> CHOOSE p \in m.winner[f] : TRUE,
                        loser |-> s[last].provider, losing |-> v]
<1>n. Len(s) \in Nat /\ \A i \in 1 .. Len(s) : s[i] \in Contribution
  BY Elements
<1>m. /\ m.metadata \in Statement /\ m.winner \in [Field -> SUBSET Provider]
      /\ m.conflicts \in Seq(Conflict)
      /\ m = [metadata |-> m.metadata, winner |-> m.winner, conflicts |-> m.conflicts]
  BY DEF MergeState
<1>r. DOMAIN m.conflicts = 1 .. Len(m.conflicts) /\ Len(m.conflicts) \in Nat
  BY <1>m, Elements
<1>R. IsFiniteSet(Recorded(m, f))
  <2>1. Recorded(m, f) \in SUBSET (1 .. Len(m.conflicts)) /\ IsFiniteSet(1 .. Len(m.conflicts))
    <3>1. Recorded(m, f) \in SUBSET (1 .. Len(m.conflicts))
      BY <1>r DEF Recorded
    <3>2. IsFiniteSet(1 .. Len(m.conflicts))
      <4> DEFINE L == Len(m.conflicts)
      <4>1. L \in Int
        BY <1>r
      <4> HIDE DEF L
      <4>2. IsFiniteSet(1 .. L)
        BY <4>1, FS_Interval
      <4> QED
        BY <4>2 DEF L
    <3> QED
      BY <3>1, <3>2
  <2> QED
    BY <2>1, FS_Subset
<1>D. \A value : IsFiniteSet(Dissent(s, f, last - 1, value))
  <2> SUFFICES ASSUME NEW value PROVE IsFiniteSet(Dissent(s, f, last - 1, value))
    OBVIOUS
  <2>1. IsFiniteSet(1 .. last - 1)
    BY <1>n, FS_Interval
  <2>2. Dissent(s, f, last - 1, value) \in SUBSET (1 .. last - 1)
    BY DEF Dissent, Stated
  <2> QED
    BY <2>1, <2>2, FS_Subset
<1>l. last \in Nat \ {0} /\ 1 .. last = (1 .. last - 1) \cup {last} /\ last \notin 1 .. last - 1
  BY <1>n
<1>s. /\ v = Unstated => New = Old
      /\ v # Unstated => New = Old \cup {last}
      /\ last \notin Old
      /\ \A i \in Old : i \in 1 .. last - 1 /\ i <= last /\ s[i].metadata[f] # Unstated
  BY <1>l DEF Stated
<1>f. /\ Old = {} => m.metadata[f] = Unstated
      /\ Old # {} => \E first \in Old :
           /\ \A i \in Old : first <= i
           /\ m.metadata[f] = s[first].metadata[f]
           /\ m.winner[f] = {s[first].provider}
           /\ \A k \in Recorded(m, f) : m.conflicts[k].winner = s[first].provider
      /\ Cardinality(Recorded(m, f)) = Cardinality(Dissent(s, f, last - 1, m.metadata[f]))
      /\ {<<m.conflicts[k].loser, m.conflicts[k].losing>> : k \in Recorded(m, f)}
           = {<<s[i].provider, s[i].metadata[f]>> : i \in Dissent(s, f, last - 1, m.metadata[f])}
  BY DEF FieldMerged
<1>1. CASE v = Unstated
  <2>1. new = m
    BY <1>1 DEF MergeField
  <2>2. Stated(s, f, last) = Stated(s, f, last - 1)
    BY <1>1, <1>s
  <2>3. \A value : Dissent(s, f, last, value) = Dissent(s, f, last - 1, value)
    BY <2>2 DEF Dissent
  <2> QED
    BY <2>1, <2>2, <2>3 DEF FieldMerged
<1>2. CASE v # Unstated /\ m.metadata[f] = Unstated
  <2>1. /\ new.metadata = [m.metadata EXCEPT ![f] = v]
        /\ new.winner = [m.winner EXCEPT ![f] = {s[last].provider}]
        /\ new.conflicts = m.conflicts
    BY <1>2, <1>m DEF MergeField
  <2> HIDE DEF new
  <2>2. new.metadata[f] = v /\ new.winner[f] = {s[last].provider}
    BY <1>m, <2>1 DEF Statement
  <2>3. Old = {}
    BY <1>2, <1>f, <1>s
  <2>4. New = {last}
    BY <1>2, <1>s, <2>3
  <2>5. Dissent(s, f, last - 1, m.metadata[f]) = {} /\ Dissent(s, f, last, v) = {}
    BY <2>3, <2>4 DEF Dissent
  <2>6. Recorded(m, f) = {}
    BY <1>f, <1>R, <2>5, FS_EmptySet
  <2>7. Recorded(new, f) = {}
    BY <2>1, <2>6 DEF Recorded
  <2>8. last \in Stated(s, f, last) /\ \A i \in Stated(s, f, last) : last <= i
    BY <1>l, <2>4
  <2> HIDE DEF v, Old, New
  <2>9. /\ Cardinality(Recorded(new, f)) = Cardinality(Dissent(s, f, last, new.metadata[f]))
        /\ {<<new.conflicts[k].loser, new.conflicts[k].losing>> : k \in Recorded(new, f)}
             = {<<s[i].provider, s[i].metadata[f]>> : i \in Dissent(s, f, last, new.metadata[f])}
    BY <2>2, <2>5, <2>7
  <2>10. FieldMerged(new, s, f, last)
    BY <2>2, <2>7, <2>8, <2>9 DEF FieldMerged, v
  <2> QED
    BY <2>10 DEF new
<1>3. CASE v # Unstated /\ m.metadata[f] # Unstated /\ m.metadata[f] = v
  <2>1. new = m
    BY <1>3 DEF MergeField
  <2>2. Old # {}
    BY <1>3, <1>f
  <2>3. PICK first \in Old :
          /\ \A i \in Old : first <= i
          /\ m.metadata[f] = s[first].metadata[f]
          /\ m.winner[f] = {s[first].provider}
          /\ \A k \in Recorded(m, f) : m.conflicts[k].winner = s[first].provider
    BY <1>f, <2>2
  <2>4. first \in New /\ \A i \in New : first <= i
    BY <1>3, <1>s, <2>3
  <2>5. Dissent(s, f, last, m.metadata[f]) = Dissent(s, f, last - 1, m.metadata[f])
    BY <1>3, <1>s DEF Dissent
  <2> HIDE DEF Old
  <2>6. FieldMerged(m, s, f, last)
    BY <1>f, <2>3, <2>4, <2>5 DEF FieldMerged
  <2> QED
    BY <2>1, <2>6
<1>4. CASE v # Unstated /\ m.metadata[f] # Unstated /\ m.metadata[f] # v
  <2>1. /\ new.metadata = m.metadata /\ new.winner = m.winner
        /\ new.conflicts = Append(m.conflicts, conflict)
    BY <1>4, <1>m DEF MergeField
  <2>2. Old # {}
    BY <1>4, <1>f
  <2>3. PICK first \in Old :
          /\ \A i \in Old : first <= i
          /\ m.metadata[f] = s[first].metadata[f]
          /\ m.winner[f] = {s[first].provider}
          /\ \A k \in Recorded(m, f) : m.conflicts[k].winner = s[first].provider
    BY <1>f, <2>2
  <2>4. first \in New /\ \A i \in New : first <= i
    BY <1>4, <1>s, <2>3
  <2>5. /\ conflict.field = f /\ conflict.winner = s[first].provider
        /\ conflict.loser = s[last].provider /\ conflict.losing = v
    BY <2>3
  <2> DEFINE L == Len(m.conflicts)
  <2>6. conflict \in Conflict
    <3>1. s[last] \in Contribution /\ s[first] \in Contribution
      BY <1>n, <1>s, <2>3
    <3>2. s[last].provider \in Provider /\ s[first].provider \in Provider /\ v \in Value
      BY <1>4, <3>1 DEF Contribution, Statement
    <3> QED
      BY <2>5, <3>2 DEF Conflict
  <2> HIDE DEF new, conflict, L
  <2>7. /\ new.conflicts \in Seq(Conflict) /\ Len(new.conflicts) = L + 1
        /\ \A k \in 1 .. L : new.conflicts[k] = m.conflicts[k]
        /\ new.conflicts[L + 1] = conflict
    BY <1>m, <2>1, <2>6, AppendProperties DEF L
  <2>8. DOMAIN new.conflicts = (1 .. L) \cup {L + 1} /\ L + 1 \notin 1 .. L
        /\ DOMAIN m.conflicts = 1 .. L
    <3>1. DOMAIN new.conflicts = 1 .. L + 1 /\ L \in Nat /\ DOMAIN m.conflicts = 1 .. L
      BY <1>r, <2>7, Elements DEF L
    <3> QED
      BY <3>1
  <2>9. Recorded(new, f) = Recorded(m, f) \cup {L + 1} /\ L + 1 \notin Recorded(m, f)
        /\ \A k \in Recorded(m, f) : new.conflicts[k] = m.conflicts[k]
    BY <2>5, <2>7, <2>8 DEF Recorded
  <2> DEFINE before == Dissent(s, f, last - 1, m.metadata[f])
             after == Dissent(s, f, last, m.metadata[f])
  <2>10. after = before \cup {last} /\ last \notin before
    BY <1>4, <1>s DEF Dissent
  <2>11. IsFiniteSet(before)
    BY <1>D
  <2> HIDE DEF before, after
  <2>12. Cardinality(Recorded(new, f)) = Cardinality(after)
    <3>1. Cardinality(Recorded(m, f)) = Cardinality(before)
      BY <1>f DEF before
    <3>2. Cardinality(Recorded(new, f)) = Cardinality(Recorded(m, f)) + 1
      <4> DEFINE T == Recorded(m, f)
      <4> HIDE DEF T
      <4>1. Cardinality(T \cup {L + 1}) = Cardinality(T) + 1
        BY <1>R, <2>9, FS_AddElement DEF T
      <4> QED
        BY <2>9, <4>1 DEF T
    <3>3. Cardinality(after) = Cardinality(before) + 1
      BY <2>10, <2>11, FS_AddElement
    <3> QED
      BY <3>1, <3>2, <3>3
  <2>13. {<<new.conflicts[k].loser, new.conflicts[k].losing>> : k \in Recorded(new, f)}
           = {<<s[i].provider, s[i].metadata[f]>> : i \in after}
    <3>1. {<<new.conflicts[k].loser, new.conflicts[k].losing>> : k \in Recorded(new, f)}
            = {<<new.conflicts[k].loser, new.conflicts[k].losing>> : k \in Recorded(m, f)}
                \cup {<<s[last].provider, v>>}
      BY <2>5, <2>7, <2>9
    <3>2. {<<new.conflicts[k].loser, new.conflicts[k].losing>> : k \in Recorded(m, f)}
            = {<<m.conflicts[k].loser, m.conflicts[k].losing>> : k \in Recorded(m, f)}
      BY <2>9
    <3>3. {<<s[i].provider, s[i].metadata[f]>> : i \in after}
            = {<<s[i].provider, s[i].metadata[f]>> : i \in before} \cup {<<s[last].provider, v>>}
      BY <2>10
    <3> QED
      BY <1>f, <3>1, <3>2, <3>3 DEF before
  <2>14. \A k \in Recorded(new, f) : new.conflicts[k].winner = s[first].provider
    BY <2>3, <2>5, <2>7, <2>9
  <2> HIDE DEF Old
  <2>15. FieldMerged(new, s, f, last)
    BY <2>1, <2>3, <2>4, <2>12, <2>13, <2>14 DEF FieldMerged, after
  <2> QED
    BY <2>15 DEF new
<1> QED
  BY <1>1, <1>2, <1>3, <1>4

\* What has been merged after each field
MergeRun(g, m, c) ==
    LET fields == SetToSeq(Field)
    IN  /\ g \in [0 .. Len(fields) -> MergeState]
        /\ g[0] = m
        /\ \A k \in 1 .. Len(fields) : g[k] = MergeField(g[k - 1], fields[k], c)
        /\ g[Len(fields)] = MergeOne(m, c)

\* One contribution is merged field by field (aggregator.py:_merge_metadata).
LEMMA MergesFieldByField ==
  ASSUME NEW m \in MergeState, NEW c \in Contribution
  PROVE  \E g : MergeRun(g, m, c)
<1> DEFINE fields == SetToSeq(Field)
           n == Len(fields)
           T == MergeState
           Rule(h) == h = [places \in SUBSET (1 .. n) |->
                             IF places = {} THEN m
                             ELSE MergeField(h[places \ {Max(places)}], fields[Max(places)], c)]
           f == [p \in T \X (1 .. n) |-> MergeField(p[1], fields[p[2]], c)]
<1>1. fields \in Seq(Field)
  BY SetList, KnowledgeAssumption
<1>2. n \in Nat /\ DOMAIN fields = 1 .. n /\ \A k \in 1 .. n : fields[k] \in Field
  BY <1>1, Elements
<1>o. MergeOne(m, c) = FoldLeft(LAMBDA t, g : MergeField(t, g, c), m, fields)
  BY DEF MergeOne
<1>p. \A g : /\ g \in [0 .. n -> T] /\ g[0] = m
             /\ \A k \in 1 .. n : g[k] = MergeField(g[k - 1], fields[k], c)
             /\ g[n] = MergeOne(m, c)
             => MergeRun(g, m, c)
  BY DEF MergeRun
<1> HIDE DEF fields, n, T
<1>4. \A t \in T, k \in 1 .. n : MergeField(t, fields[k], c) \in T
  BY <1>2, MergeFieldOthers DEF T
<1>5. /\ f \in [T \X (1 .. n) -> T]
      /\ \A t \in T, k \in 1 .. n : f[<<t, k>>] = MergeField(t, fields[k], c)
  BY <1>4
<1>6. m \in T
  BY DEF T
<1> HIDE DEF f
<1>m. \A places \in SUBSET (1 .. n) : places # {} =>
         Max(places) \in places /\ places \ {Max(places)} \in SUBSET (1 .. n)
  BY <1>2, GreatestIn
<1>7. \E h : h \in [SUBSET (1 .. n) -> T] /\ Rule(h)
  <2>1. PICK g : Fold(g, n, T, m, f)
    BY <1>2, <1>5, <1>6, Folding
  <2>2. /\ g \in [SUBSET (1 .. n) -> T]
        /\ \A places \in SUBSET (1 .. n) :
             g[places] = IF places = {} THEN m
                         ELSE f[<<g[places \ {Max(places)}], Max(places)>>]
    BY <2>1 DEF Fold
  <2>3. \A places \in SUBSET (1 .. n) : places # {} =>
          f[<<g[places \ {Max(places)}], Max(places)>>]
            = MergeField(g[places \ {Max(places)}], fields[Max(places)], c)
    BY <1>5, <1>m, <2>2
  <2>4. Rule(g)
    BY <2>2, <2>3
  <2> QED
    BY <2>2, <2>4
<1> DEFINE made == CHOOSE h : Rule(h)
           g == [k \in 0 .. n |-> made[1 .. k]]
<1>8. Rule(made)
  BY <1>7
<1>9. MergeOne(m, c) = made[1 .. n]
  BY <1>2, <1>o DEF FoldLeft, MapThenFoldSet
<1> HIDE DEF made
<1>10. g[0] = m
  <2>1. 1 .. 0 = {} /\ {} \in SUBSET (1 .. n) /\ 0 \in 0 .. n
    BY <1>2
  <2> QED
    BY <1>8, <2>1
<1>11. ASSUME NEW k \in 1 .. n PROVE k - 1 \in 0 .. n /\ g[k] = MergeField(g[k - 1], fields[k], c)
  <2>1. k \in Nat \ {0} /\ k \in 0 .. n /\ k - 1 \in 0 .. n
    BY <1>2
  <2>2. k \in 1 .. k /\ \A j \in 1 .. k : j \in 1 .. n
    BY <1>2
  <2>3. Max(1 .. k) = k /\ (1 .. k) \ {Max(1 .. k)} = 1 .. k - 1
    BY <2>1, Greatest
  <2>4. made[1 .. k] = MergeField(made[1 .. k - 1], fields[k], c)
    BY <1>8, <2>2, <2>3
  <2> QED
    BY <2>1, <2>4
<1>12. DOMAIN g = 0 .. n /\ g[n] = MergeOne(m, c)
  <2>1. n \in 0 .. n
    BY <1>2
  <2> QED
    BY <1>9, <2>1
<1> DEFINE Z == {k \in 0 .. n : g[k] \in T}
<1>13. \A k \in 0 .. n : k \in Z
  <2>1. 0 \in Z
    BY <1>2, <1>6, <1>10
  <2>2. ASSUME NEW k \in 1 .. n, k - 1 \in Z PROVE k \in Z
    <3>1. g[k - 1] \in T /\ k \in 0 .. n
      BY <1>2, <2>2
    <3> HIDE DEF g
    <3> QED
      BY <1>4, <1>11, <3>1
  <2> HIDE DEF Z
  <2> QED
    BY <1>2, <2>1, <2>2, Upwards
<1>14. g \in [0 .. n -> T]
  BY <1>13
<1> HIDE DEF g
<1>15. MergeRun(g, m, c)
  BY <1>10, <1>11, <1>12, <1>14, <1>p
<1> QED
  BY <1>15

\* What it states is taken account of in every field.
LEMMA MergeOneStep ==
  ASSUME NEW s \in Seq(Contribution), NEW last \in 1 .. Len(s), NEW m \in MergeState,
         \A f \in Field : FieldMerged(m, s, f, last - 1)
  PROVE  \A f \in Field : FieldMerged(MergeOne(m, s[last]), s, f, last)
<1> DEFINE c == s[last]
           fields == SetToSeq(Field)
           n == Len(fields)
<1>c. c \in Contribution
  BY Elements
<1>1. fields \in Seq(Field) /\ n = Cardinality(Field) /\ fields \in Bijection(1 .. n, Field)
  BY SetList, KnowledgeAssumption
<1>2. n \in Nat /\ DOMAIN fields = 1 .. n /\ \A k \in 1 .. n : fields[k] \in Field
  BY <1>1, Elements
<1>3. /\ \A j, k \in 1 .. n : fields[j] = fields[k] => j = k
      /\ \A f \in Field : \E k \in 1 .. n : fields[k] = f
  BY <1>1 DEF Bijection, Injection, Surjection, IsInjective
<1> HIDE DEF c
<1>4. PICK g : MergeRun(g, m, c)
  BY <1>c, MergesFieldByField
<1>5. /\ g \in [0 .. n -> MergeState] /\ g[0] = m /\ g[n] = MergeOne(m, c)
      /\ \A k \in 1 .. n : g[k] = MergeField(g[k - 1], fields[k], c)
  BY <1>4 DEF MergeRun
<1> HIDE DEF fields, n
<1> DEFINE Good(k) == \A j \in 1 .. n :
                         FieldMerged(g[k], s, fields[j], IF j <= k THEN last ELSE last - 1)
           Z == {k \in 0 .. n : Good(k)}
<1>g. \A k \in 0 .. n : k \in Z <=> Good(k)
  <2> HIDE DEF Good
  <2> QED
    OBVIOUS
<1> HIDE DEF Z
<1>10. 0 \in Z
  <2>1. 0 \in 0 .. n /\ \A j \in 1 .. n : ~(j <= 0)
    BY <1>2
  <2>2. Good(0)
    BY <1>2, <1>5, <2>1
  <2> HIDE DEF Good
  <2> QED
    BY <1>g, <2>1, <2>2
<1>11. ASSUME NEW k \in 1 .. n, k - 1 \in Z PROVE k \in Z
  <2>1. k \in Nat \ {0} /\ k \in 0 .. n /\ k - 1 \in 0 .. n
    BY <1>2
  <2> DEFINE old == g[k - 1]
             new == g[k]
  <2>3. new = MergeField(old, fields[k], c) /\ old \in MergeState /\ new \in MergeState
    BY <1>5, <2>1
  <2>4. Good(k - 1)
    <3> HIDE DEF Good
    <3> QED
      BY <1>11, <1>g, <2>1
  <2>5. \A j \in 1 .. n : FieldMerged(old, s, fields[j], IF j <= k - 1 THEN last ELSE last - 1)
    BY <2>4
  <2> HIDE DEF old, new
  <2>6. FieldMerged(old, s, fields[k], last - 1)
    <3>1. ~(k <= k - 1)
      BY <2>1
    <3> QED
      BY <2>5, <3>1
  <2>8. FieldMerged(new, s, fields[k], last)
    BY <1>2, <2>3, <2>6, MergeFieldThis DEF c
  <2>9. ASSUME NEW j \in 1 .. n
        PROVE  FieldMerged(new, s, fields[j], IF j <= k THEN last ELSE last - 1)
    <3>1. CASE j = k
      <4>1. j <= k
        BY <2>1, <3>1
      <4> QED
        BY <2>8, <3>1, <4>1
    <3>2. CASE j # k
      <4>1. fields[j] # fields[k] /\ fields[j] \in Field /\ fields[k] \in Field
        BY <1>2, <1>3, <3>2
      <4> DEFINE to == IF j <= k THEN last ELSE last - 1
      <4>2. to = IF j <= k - 1 THEN last ELSE last - 1
        BY <2>1, <3>2
      <4> HIDE DEF to
      <4>3. FieldMerged(old, s, fields[j], to)
        BY <2>5, <4>2
      <4>4. FieldMerged(new, s, fields[j], to)
        BY <1>c, <2>3, <4>1, <4>3, MergeFieldOthers
      <4> QED
        BY <4>4 DEF to
    <3> QED
      BY <3>1, <3>2
  <2>10. Good(k)
    BY <2>9 DEF new
  <2> HIDE DEF Good
  <2> QED
    BY <1>g, <2>1, <2>10
<1>n. n \in 0 .. n
  BY <1>2
<1>12. Good(n)
  <2>1. n \in Z
    BY <1>2, <1>10, <1>11, <1>n, Upwards
  <2> HIDE DEF Good
  <2> QED
    BY <1>g, <1>n, <2>1
<1>13. \A j \in 1 .. n : FieldMerged(MergeOne(m, c), s, fields[j], last)
  <2>1. \A j \in 1 .. n : j <= n
    BY <1>2
  <2> QED
    BY <1>5, <1>12, <2>1
<1> QED
  BY <1>3, <1>13 DEF c

\* All contributions are merged in their order.
LEMMA MergeAll ==
  ASSUME NEW s \in Seq(Contribution)
  PROVE  /\ MergeMetadata(s) \in MergeState
         /\ \A f \in Field : FieldMerged(MergeMetadata(s), s, f, Len(s))
<1> DEFINE n == Len(s)
           T == MergeState
           start == [metadata |-> Nothing, winner |-> [f \in Field |-> {}], conflicts |-> <<>>]
           f == [p \in T \X (1 .. n) |-> MergeOne(p[1], s[p[2]])]
           Rule(h) == h = [places \in SUBSET (1 .. n) |->
                             IF places = {} THEN start
                             ELSE MergeOne(h[places \ {Max(places)}], s[Max(places)])]
<1>1. n \in Nat /\ DOMAIN s = 1 .. n /\ \A k \in 1 .. n : s[k] \in Contribution
  BY Elements
<1>o. MergeMetadata(s) = FoldLeft(MergeOne, start, s)
  BY DEF MergeMetadata
<1>2. start \in T
  <2>1. Nothing \in Statement
    BY DEF Nothing, Statement
  <2>2. \A field \in Field : Nothing[field] = Unstated
    BY DEF Nothing
  <2>3. start \in [metadata : Statement, winner : [Field -> SUBSET Provider],
                   conflicts : Seq(Conflict)]
    BY <2>1
  <2> QED
    BY <2>2, <2>3 DEF MergeState
<1>3. \A field \in Field : FieldMerged(start, s, field, 0)
  <2> SUFFICES ASSUME NEW field \in Field PROVE FieldMerged(start, s, field, 0)
    OBVIOUS
  <2>1. start.metadata[field] = Unstated
    BY DEF Nothing
  <2>2. Stated(s, field, 0) = {} /\ \A value : Dissent(s, field, 0, value) = {}
    BY DEF Stated, Dissent
  <2>3. Recorded(start, field) = {}
    BY DEF Recorded
  <2> HIDE DEF start
  <2> QED
    BY <2>1, <2>2, <2>3 DEF FieldMerged
<1> HIDE DEF n, T, start
<1>4. \A t \in T, k \in 1 .. n : MergeOne(t, s[k]) \in T
  <2> SUFFICES ASSUME NEW t \in T, NEW k \in 1 .. n PROVE MergeOne(t, s[k]) \in T
    OBVIOUS
  <2>1. t \in MergeState /\ s[k] \in Contribution
    BY <1>1 DEF T
  <2>2. PICK g : MergeRun(g, t, s[k])
    BY <2>1, MergesFieldByField
  <2>3. Len(SetToSeq(Field)) \in 0 .. Len(SetToSeq(Field))
    <3>1. SetToSeq(Field) \in Seq(Field)
      BY SetList, KnowledgeAssumption
    <3>2. Len(SetToSeq(Field)) \in Nat
      BY <3>1, Elements
    <3> QED
      BY <3>2
  <2> QED
    BY <2>2, <2>3 DEF MergeRun, T
<1>5. /\ f \in [T \X (1 .. n) -> T]
      /\ \A t \in T, k \in 1 .. n : f[<<t, k>>] = MergeOne(t, s[k])
  BY <1>4
<1> HIDE DEF f
<1>m. \A places \in SUBSET (1 .. n) : places # {} =>
         Max(places) \in places /\ places \ {Max(places)} \in SUBSET (1 .. n)
  BY <1>1, GreatestIn
<1>7. \E h : Rule(h)
  <2>1. PICK g : Fold(g, n, T, start, f)
    BY <1>1, <1>2, <1>5, Folding
  <2>2. /\ g \in [SUBSET (1 .. n) -> T]
        /\ \A places \in SUBSET (1 .. n) :
             g[places] = IF places = {} THEN start
                         ELSE f[<<g[places \ {Max(places)}], Max(places)>>]
    BY <2>1 DEF Fold
  <2>3. \A places \in SUBSET (1 .. n) : places # {} =>
          f[<<g[places \ {Max(places)}], Max(places)>>]
            = MergeOne(g[places \ {Max(places)}], s[Max(places)])
    BY <1>5, <1>m, <2>2
  <2>4. Rule(g)
    BY <2>2, <2>3
  <2> QED
    BY <2>4
<1> DEFINE made == CHOOSE h : Rule(h)
<1>8. Rule(made)
  BY <1>7
<1>9. MergeMetadata(s) = made[1 .. n]
  BY <1>1, <1>o DEF FoldLeft, MapThenFoldSet
<1> HIDE DEF made
<1> DEFINE Good(k) == /\ made[1 .. k] \in T
                      /\ \A field \in Field : FieldMerged(made[1 .. k], s, field, k)
           Z == {k \in 0 .. n : Good(k)}
<1>g. \A k \in 0 .. n : k \in Z <=> Good(k)
  <2> HIDE DEF Good
  <2> QED
    OBVIOUS
<1> HIDE DEF Z
<1>10. 0 \in Z
  <2>1. 1 .. 0 = {} /\ {} \in SUBSET (1 .. n) /\ 0 \in 0 .. n
    BY <1>1
  <2>2. made[1 .. 0] = start
    BY <1>8, <2>1
  <2>3. Good(0)
    BY <1>2, <1>3, <2>2
  <2> HIDE DEF Good
  <2> QED
    BY <1>g, <2>1, <2>3
<1>11. ASSUME NEW k \in 1 .. n, k - 1 \in Z PROVE k \in Z
  <2>1. k \in Nat \ {0} /\ k \in 0 .. n /\ k - 1 \in 0 .. n
    BY <1>1
  <2>2. k \in 1 .. k /\ \A j \in 1 .. k : j \in 1 .. n
    BY <1>1
  <2>3. Max(1 .. k) = k /\ (1 .. k) \ {Max(1 .. k)} = 1 .. k - 1
    BY <2>1, Greatest
  <2> DEFINE old == made[1 .. k - 1]
             new == made[1 .. k]
  <2>4. new = MergeOne(old, s[k])
    BY <1>8, <2>2, <2>3
  <2>5. Good(k - 1)
    <3> HIDE DEF Good
    <3> QED
      BY <1>11, <1>g, <2>1
  <2>6. old \in T /\ \A field \in Field : FieldMerged(old, s, field, k - 1)
    BY <2>5
  <2> HIDE DEF old, new
  <2>7. new \in T
    BY <1>4, <2>4, <2>6
  <2>8. \A field \in Field : FieldMerged(new, s, field, k)
    <3>1. k \in 1 .. Len(s) /\ old \in MergeState
      BY <2>6 DEF n, T
    <3> QED
      BY <2>4, <2>6, <3>1, MergeOneStep
  <2>9. Good(k)
    BY <2>7, <2>8 DEF new
  <2> HIDE DEF Good
  <2> QED
    BY <1>g, <2>1, <2>9
<1>n. n \in 0 .. n
  BY <1>1
<1>12. Good(n)
  <2>1. n \in Z
    BY <1>1, <1>10, <1>11, <1>n, Upwards
  <2> HIDE DEF Good
  <2> QED
    BY <1>g, <1>n, <2>1
<1> QED
  BY <1>9, <1>12 DEF T, n

\* Only one contribution of a provider states metadata, and the items of each are its own.
KnowledgeInv ==
    /\ available \subseteq Provider /\ states \in [Provider -> Statement] /\ parsed \in BOOLEAN
    /\ phase \in {"intent", "resolved", "gathered", "understood", "complete", "failed"}
    /\ plan \in Seq(Provider)
    /\ \A i, j \in DOMAIN plan : plan[i] = plan[j] => i = j
    /\ contributions \in Seq(Contribution)
    /\ \A i \in DOMAIN contributions : \A j \in DOMAIN contributions[i].items :
         contributions[i].items[j] = contributions[i].provider
    /\ \A i, j \in DOMAIN contributions :
         contributions[i].provider = contributions[j].provider =>
            \/ i = j
            \/ contributions[i].metadata = Nothing \/ contributions[j].metadata = Nothing
    /\ phase \in {"intent", "resolved", "gathered"} =>
         /\ \A i, j \in DOMAIN contributions :
              contributions[i].provider = contributions[j].provider => i = j
         /\ \A i \in DOMAIN contributions :
              contributions[i].provider = "template" => contributions[i].metadata = Nothing
    /\ cko \subseteq {Aggregate(contributions)}
    /\ cko # {} => phase = "complete"

\* What is merged is what the property asks for.
LEMMA AggregateFields ==
  ASSUME KnowledgeInv, NEW f \in Field
  PROVE  LET known == Aggregate(contributions)
             said(i) == contributions[i].metadata[f]
             rank(i) == PrecedenceOf(contributions[i].provider)
             dissenting == {i \in StatingField(f) : said(i) # known.metadata[f]}
             recorded == {k \in DOMAIN known.conflicts : known.conflicts[k].field = f}
         IN  /\ StatingField(f) = {} => known.metadata[f] = Unstated
             /\ \A i \in dissenting : \E j \in StatingField(f) \ dissenting :
                  /\ rank(j) < rank(i)
                  /\ \A k \in recorded : known.conflicts[k].winner = contributions[j].provider
             /\ Cardinality(recorded) = Cardinality(dissenting)
             /\ {<<known.conflicts[k].loser, known.conflicts[k].losing>> : k \in recorded} =
                  {<<contributions[i].provider, said(i)>> : i \in dissenting}
<1> DEFINE known == Aggregate(contributions)
           s == contributions
           n == Len(s)
           said(i) == s[i].metadata[f]
           rank(i) == PrecedenceOf(s[i].provider)
           stating == StatingField(f)
           dissenting == {i \in stating : said(i) # known.metadata[f]}
           recorded == {k \in DOMAIN known.conflicts : known.conflicts[k].field = f}
           ordered == ByAuthority(s)
           m == MergeMetadata(ordered)
<1>1. s \in Seq(Contribution)
  BY DEF KnowledgeInv
<1>2. n \in Nat /\ DOMAIN s = 1 .. n /\ \A i \in 1 .. n : s[i] \in Contribution
  BY <1>1, Elements
<1>3. PICK turns \in Bijection(1 .. n, 1 .. n) :
        /\ ordered = Taken(s, turns)
        /\ \A j, k \in 1 .. n : j < k => rank(turns[j]) <= rank(turns[k])
  BY <1>1, AuthorityReorders
<1>4. /\ ordered \in Seq(Contribution) /\ Len(ordered) = n
      /\ \A k \in 1 .. n : turns[k] \in 1 .. n /\ ordered[k] = s[turns[k]]
  BY <1>1, <1>3, TakenList
<1>5. FieldMerged(m, ordered, f, n)
  BY <1>4, MergeAll
<1>6. known.metadata = m.metadata /\ known.conflicts = m.conflicts
  BY DEF Aggregate
<1>7. recorded = Recorded(m, f)
  BY <1>6 DEF Recorded
<1>8. stating = {i \in 1 .. n : said(i) # Unstated}
  BY <1>2 DEF StatingField
<1>9. /\ \A i \in 1 .. n : \E k \in 1 .. n : turns[k] = i
      /\ \A j, k \in 1 .. n : turns[j] = turns[k] => j = k
  BY DEF Bijection, Surjection, Injection, IsInjective
<1>v. known.metadata[f] = m.metadata[f]
  BY <1>6
<1> DEFINE value == m.metadata[f]
<1>d. dissenting = {i \in stating : said(i) # value}
  BY <1>v
<1>10. Stated(ordered, f, n) = {k \in 1 .. n : turns[k] \in stating}
  BY <1>4, <1>8 DEF Stated
<1>11. Dissent(ordered, f, n, value) = {k \in 1 .. n : turns[k] \in dissenting}
  BY <1>4, <1>10, <1>d DEF Dissent
<1>k. \A i \in 1 .. n : s[i].provider \in Provider
  BY <1>2 DEF Contribution
<1>r. /\ \A i \in 1 .. n : rank(i) \in Nat
      /\ \A i, j \in 1 .. n : rank(i) = rank(j) => s[i].provider = s[j].provider
  BY <1>k, ProviderRanks
<1>u. \A i, j \in stating : s[i].provider = s[j].provider => i = j
  <2> SUFFICES ASSUME NEW i \in stating, NEW j \in stating, s[i].provider = s[j].provider
               PROVE  i = j
    OBVIOUS
  <2>1. s[i].metadata # Nothing /\ s[j].metadata # Nothing
    BY <1>8 DEF Nothing
  <2>2. i \in DOMAIN s /\ j \in DOMAIN s
    BY <1>2, <1>8
  <2> QED
    BY <2>1, <2>2 DEF KnowledgeInv
<1> HIDE DEF stating, dissenting, value, recorded, m, ordered, known, n, s
<1> DEFINE A == Stated(ordered, f, n)
           B == Dissent(ordered, f, n, value)
<1>f. /\ A = {} => value = Unstated
      /\ A # {} => \E first \in A :
           /\ \A i \in A : first <= i
           /\ value = ordered[first].metadata[f]
           /\ \A k \in recorded : m.conflicts[k].winner = ordered[first].provider
      /\ Cardinality(recorded) = Cardinality(B)
      /\ {<<m.conflicts[k].loser, m.conflicts[k].losing>> : k \in recorded}
           = {<<ordered[i].provider, ordered[i].metadata[f]>> : i \in B}
  BY <1>5, <1>7 DEF FieldMerged, value
<1>12. A = {k \in 1 .. n : turns[k] \in stating} /\ B = {k \in 1 .. n : turns[k] \in dissenting}
  BY <1>10, <1>11
<1>s. stating \subseteq 1 .. n /\ dissenting \subseteq stating
  BY <1>8, <1>d
<1> HIDE DEF A, B, said, rank
<1>13. stating = {} => value = Unstated
  BY <1>12, <1>f
<1>14. ASSUME NEW i \in dissenting
       PROVE  \E j \in stating \ dissenting :
                /\ rank(j) < rank(i)
                /\ \A k \in recorded : m.conflicts[k].winner = s[j].provider
  <2>1. PICK q \in 1 .. n : turns[q] = i
    BY <1>9, <1>s
  <2>2. q \in A
    BY <1>12, <1>s, <2>1
  <2>3. PICK first \in A :
           /\ \A k \in A : first <= k
           /\ value = ordered[first].metadata[f]
           /\ \A k \in recorded : m.conflicts[k].winner = ordered[first].provider
    BY <1>f, <2>2
  <2> DEFINE j == turns[first]
  <2>4. first \in 1 .. n /\ j \in stating /\ j \in 1 .. n /\ ordered[first] = s[j]
    BY <1>4, <1>12, <2>3
  <2>5. j \notin dissenting
    BY <1>d, <2>3, <2>4 DEF said
  <2>6. j # i /\ first # q /\ first <= q
    BY <2>1, <2>2, <2>3, <2>5
  <2>7. rank(j) <= rank(i)
    BY <1>2, <1>3, <2>1, <2>4, <2>6 DEF n
  <2>8. rank(j) # rank(i)
    BY <1>r, <1>s, <1>u, <2>4, <2>6
  <2>9. rank(j) < rank(i)
    BY <1>r, <1>s, <2>4, <2>7, <2>8
  <2> QED
    BY <2>3, <2>4, <2>5, <2>9
<1>15. Cardinality(recorded) = Cardinality(dissenting)
  <2>1. dissenting \in SUBSET (1 .. n)
    BY <1>s
  <2>2. Cardinality(TurnsAt(turns, n, dissenting)) = Cardinality(dissenting)
    <3> DEFINE D == 1 .. n
    <3>1. n \in Nat /\ turns \in Bijection(1 .. n, D) /\ dissenting \in SUBSET D
      BY <1>2, <2>1
    <3> HIDE DEF D
    <3> QED
      BY <3>1, TakenOnce
  <2>3. B = TurnsAt(turns, n, dissenting)
    BY <1>12 DEF TurnsAt
  <2> QED
    BY <1>f, <2>2, <2>3
<1>16. {<<ordered[i].provider, ordered[i].metadata[f]>> : i \in B}
         = {<<s[i].provider, said(i)>> : i \in dissenting}
  <2>1. \A k \in B : turns[k] \in dissenting /\ ordered[k] = s[turns[k]]
    BY <1>4, <1>12
  <2>2. \A i \in dissenting : \E k \in B : turns[k] = i
    BY <1>9, <1>12, <1>s
  <2> QED
    BY <2>1, <2>2 DEF said
<1>17. /\ stating = {} => known.metadata[f] = Unstated
       /\ \A i \in dissenting : \E j \in stating \ dissenting :
            /\ rank(j) < rank(i)
            /\ \A k \in recorded : known.conflicts[k].winner = s[j].provider
       /\ Cardinality(recorded) = Cardinality(dissenting)
       /\ {<<known.conflicts[k].loser, known.conflicts[k].losing>> : k \in recorded}
            = {<<s[i].provider, said(i)>> : i \in dissenting}
  BY <1>6, <1>f, <1>13, <1>14, <1>15, <1>16 DEF value
<1> QED
  BY <1>17 DEF known, s, said, rank, stating, dissenting, recorded

\* What the aggregator lists is in the order of authority.
LEMMA AggregateItems ==
  ASSUME KnowledgeInv
  PROVE  LET items == Aggregate(contributions).items
         IN  /\ items \in Seq(Provider)
             /\ \A i, j \in DOMAIN items :
                  i < j => PrecedenceOf(items[i]) <= PrecedenceOf(items[j])
<1> DEFINE s == contributions
           n == Len(s)
           ordered == ByAuthority(s)
           seqs == [i \in DOMAIN ordered |-> ordered[i].items]
           items == FlattenSeq(seqs)
           rank(i) == PrecedenceOf(ordered[i].provider)
<1>1. s \in Seq(Contribution)
  BY DEF KnowledgeInv
<1>2. n \in Nat /\ DOMAIN s = 1 .. n
  BY <1>1, Elements
<1>3. PICK turns \in Bijection(1 .. n, 1 .. n) :
        /\ ordered = Taken(s, turns)
        /\ \A j, k \in 1 .. n : j < k =>
             PrecedenceOf(s[turns[j]].provider) <= PrecedenceOf(s[turns[k]].provider)
  BY <1>1, AuthorityReorders
<1>4. /\ ordered \in Seq(Contribution) /\ Len(ordered) = n
      /\ \A k \in 1 .. n : turns[k] \in 1 .. n /\ ordered[k] = s[turns[k]]
  BY <1>1, <1>3, TakenList
<1>5. DOMAIN ordered = 1 .. n /\ \A k \in 1 .. n : ordered[k] \in Contribution
  BY <1>4, Elements
<1>6. \A k \in 1 .. n : \A j \in DOMAIN ordered[k].items :
        ordered[k].items[j] = ordered[k].provider
  BY <1>2, <1>4 DEF KnowledgeInv
<1>7. \A j, k \in 1 .. n : j < k => rank(j) <= rank(k)
  BY <1>3, <1>4
<1>i. Aggregate(contributions).items = items
  BY DEF Aggregate
<1> HIDE DEF n, ordered, s
<1>8. seqs \in Seq(Seq(Provider)) /\ Len(seqs) = n /\ \A k \in 1 .. n : seqs[k] = ordered[k].items
  <2>1. \A k \in 1 .. n : ordered[k].items \in Seq(Provider)
    BY <1>5 DEF Contribution
  <2> QED
    BY <1>2, <1>5, <2>1
<1> HIDE DEF seqs
<1>9. PICK flat : Flat(flat, seqs, Provider) /\ FlattenSeq(seqs) = flat[Len(seqs)]
  BY <1>8, Flattening
<1>10. PICK origin : Origins(origin, Len(seqs), flat, seqs)
  BY <1>8, <1>9, FlatElements
<1>11. items = flat[n] /\ items \in Seq(Provider)
  <2>1. n \in 0 .. n
    BY <1>2
  <2> QED
    BY <1>8, <1>9, <2>1 DEF Flat
<1> HIDE DEF items
<1>12. /\ origin \in [1 .. Len(items) -> 1 .. n]
       /\ \A p \in 1 .. Len(items) : \E j \in DOMAIN seqs[origin[p]] : items[p] = seqs[origin[p]][j]
       /\ \A p, q \in 1 .. Len(items) : p < q => origin[p] <= origin[q]
  BY <1>8, <1>10, <1>11 DEF Origins
<1>13. \A p \in 1 .. Len(items) : items[p] = ordered[origin[p]].provider
  <2> SUFFICES ASSUME NEW p \in 1 .. Len(items)
               PROVE  items[p] = ordered[origin[p]].provider
    OBVIOUS
  <2>1. PICK j \in DOMAIN seqs[origin[p]] : items[p] = seqs[origin[p]][j]
    BY <1>12
  <2>2. origin[p] \in 1 .. n
    BY <1>12
  <2>3. seqs[origin[p]] = ordered[origin[p]].items
    BY <1>8, <2>2
  <2> QED
    BY <1>6, <2>1, <2>2, <2>3
<1>14. \A k \in 1 .. n : rank(k) \in Nat
  <2>1. \A k \in 1 .. n : ordered[k].provider \in Provider
    BY <1>5 DEF Contribution
  <2> QED
    BY <2>1, ProviderRanks
<1>15. ASSUME NEW p \in 1 .. Len(items), NEW q \in 1 .. Len(items), p < q
       PROVE  PrecedenceOf(items[p]) <= PrecedenceOf(items[q])
  <2>1. /\ origin[p] \in 1 .. n /\ origin[q] \in 1 .. n /\ origin[p] <= origin[q]
        /\ PrecedenceOf(items[p]) = rank(origin[p]) /\ PrecedenceOf(items[q]) = rank(origin[q])
    BY <1>12, <1>13, <1>15
  <2> HIDE DEF rank
  <2>2. CASE origin[p] = origin[q]
    BY <1>14, <2>1, <2>2
  <2>3. CASE origin[p] # origin[q]
    <3>1. origin[p] < origin[q]
      BY <1>2, <2>1, <2>3
    <3> QED
      BY <1>7, <2>1, <3>1
  <2> QED
    BY <2>2, <2>3
<1>16. DOMAIN items = 1 .. Len(items)
  BY <1>11, Elements
<1> QED
  BY <1>11, <1>15, <1>16, <1>i DEF s

\* What has been merged, item by item and field by field, is what the aggregation promises.
LEMMA KnowledgeInvHolds ==
  ASSUME KnowledgeInv PROVE KnowledgeMerged /\ KnowledgeTypeOK
<1> DEFINE result == Aggregate(contributions)
           FieldOK(known, f) ==
             LET said(i) == contributions[i].metadata[f]
                 rank(i) == PrecedenceOf(contributions[i].provider)
                 dissenting == {i \in StatingField(f) : said(i) # known.metadata[f]}
                 recorded == {k \in DOMAIN known.conflicts : known.conflicts[k].field = f}
             IN  /\ StatingField(f) = {} => known.metadata[f] = Unstated
                 /\ \A i \in dissenting : \E j \in StatingField(f) \ dissenting :
                      /\ rank(j) < rank(i)
                      /\ \A k \in recorded : known.conflicts[k].winner = contributions[j].provider
                 /\ Cardinality(recorded) = Cardinality(dissenting)
                 /\ {<<known.conflicts[k].loser, known.conflicts[k].losing>> : k \in recorded} =
                      {<<contributions[i].provider, said(i)>> : i \in dissenting}
           ItemsOK(known) ==
             \A i, j \in DOMAIN known.items :
               i < j => PrecedenceOf(known.items[i]) <= PrecedenceOf(known.items[j])
<1>1. \A f \in Field : FieldOK(result, f)
  BY AggregateFields
<1>2. ItemsOK(result) /\ result.items \in Seq(Provider)
  BY AggregateItems
<1>3. KnowledgeMerged <=> \A known \in cko : (\A f \in Field : FieldOK(known, f)) /\ ItemsOK(known)
  BY DEF KnowledgeMerged
<1>4. result.metadata \in Statement /\ result.conflicts \in Seq(Conflict) /\ result.source \in BOOLEAN
  <2>1. contributions \in Seq(Contribution)
    BY DEF KnowledgeInv
  <2>2. PICK turns \in Bijection(1 .. Len(contributions), 1 .. Len(contributions)) :
          ByAuthority(contributions) = Taken(contributions, turns)
    BY <2>1, AuthorityReorders
  <2>3. ByAuthority(contributions) \in Seq(Contribution)
    BY <2>1, <2>2, TakenList
  <2>4. MergeMetadata(ByAuthority(contributions)) \in MergeState
    BY <2>3, MergeAll
  <2>5. /\ result.metadata = MergeMetadata(ByAuthority(contributions)).metadata
        /\ result.conflicts = MergeMetadata(ByAuthority(contributions)).conflicts
        /\ result.source \in BOOLEAN
    BY DEF Aggregate
  <2> HIDE DEF result
  <2> QED
    BY <2>4, <2>5 DEF MergeState
<1> HIDE DEF result, FieldOK, ItemsOK
<1>5. \A known \in cko : known = result
  BY DEF KnowledgeInv, result
<1>6. KnowledgeMerged
  BY <1>1, <1>2, <1>3, <1>5
<1>7. KnowledgeTypeOK
  BY <1>2, <1>4, <1>5 DEF KnowledgeInv, KnowledgeTypeOK
<1> QED
  BY <1>6, <1>7

\* What each provider contributes, of its own
LEMMA ContributionOf ==
  ASSUME states \in [Provider -> Statement], NEW p \in Provider
  PROVE  /\ Contributes(p) \in Contribution
         /\ Contributes(p).provider = p
         /\ p = "template" => Contributes(p).metadata = Nothing
         /\ \A j \in DOMAIN Contributes(p).items : Contributes(p).items[j] = p
<1>1. Nothing \in Statement
  BY DEF Nothing, Statement
<1> DEFINE metadata == IF p = "template" THEN Nothing ELSE states[p]
           items == IF p \in {"template", "llm"} THEN <<>> ELSE <<p>>
<1>2. metadata \in Statement
  BY <1>1
<1>3. items \in Seq(Provider)
  OBVIOUS
<1>4. \A j \in DOMAIN items : items[j] = p
  OBVIOUS
<1>5. Contributes(p) = [provider |-> p, metadata |-> metadata, items |-> items,
                        source |-> p = "template"]
  BY DEF Contributes
<1>6. p = "template" => metadata = Nothing
  OBVIOUS
<1> HIDE DEF metadata, items
<1> QED
  BY <1>2, <1>3, <1>4, <1>5, <1>6 DEF Contribution

\* Whoever is left out, each provider of the plan contributes once (phase_a/gather.py).
LEMMA GatherKeepsInv ==
  ASSUME KnowledgeInv, Gather PROVE KnowledgeInv'
<1>1. PICK failing \in SUBSET (available \ {"llm"}) :
        /\ contributions' =
             LET answered == Kept(plan, {i \in DOMAIN plan : plan[i] \notin failing})
             IN  ByAuthority([i \in DOMAIN answered |-> Contributes(answered[i])])
        /\ parsed' = (parsed \/ "template" \in available \ failing)
  BY DEF Gather
<1> DEFINE places == {i \in DOMAIN plan : plan[i] \notin failing}
           m == Cardinality(places)
           answered == Kept(plan, places)
           raw == [i \in DOMAIN answered |-> Contributes(answered[i])]
<1>2. /\ plan \in Seq(Provider) /\ states \in [Provider -> Statement]
      /\ \A i, j \in DOMAIN plan : plan[i] = plan[j] => i = j
  BY DEF KnowledgeInv
<1>3. DOMAIN plan = 1 .. Len(plan) /\ Len(plan) \in Nat
      /\ \A i \in DOMAIN plan : plan[i] \in Provider
  BY <1>2, Elements
<1>4. places \in SUBSET Int /\ IsFiniteSet(places) /\ places \subseteq DOMAIN plan
  <2>1. IsFiniteSet(1 .. Len(plan)) /\ places \in SUBSET (1 .. Len(plan))
    BY <1>3, FS_Interval
  <2> QED
    BY <1>3, <2>1, FS_Subset
<1>c. contributions' = ByAuthority(raw)
  BY <1>1
<1> HIDE DEF places
<1>5. m \in Nat
  BY <1>4, FS_CardinalityType
<1> HIDE DEF m
<1>6. PICK turns \in Bijection(1 .. m, places) :
        /\ Kept(plan, places) = Taken(plan, turns)
        /\ \A j, k \in 1 .. m : j < k => turns[j] < turns[k]
  BY <1>4, Keeping DEF m
<1>7. /\ turns \in [1 .. m -> places]
      /\ \A j, k \in 1 .. m : turns[j] = turns[k] => j = k
  BY DEF Bijection, Injection, IsInjective
<1>8. answered = [k \in 1 .. m |-> plan[turns[k]]]
  BY <1>6, <1>7 DEF Taken
<1>9. /\ \A k \in 1 .. m : answered[k] \in Provider
      /\ \A j, k \in 1 .. m : answered[j] = answered[k] => j = k
  BY <1>2, <1>3, <1>4, <1>7, <1>8
<1> HIDE DEF answered
<1>10. raw = [k \in 1 .. m |-> Contributes(answered[k])]
  BY <1>8
<1>11. \A k \in 1 .. m :
         /\ raw[k] \in Contribution
         /\ raw[k].provider = answered[k]
         /\ raw[k].provider = "template" => raw[k].metadata = Nothing
         /\ \A j \in DOMAIN raw[k].items : raw[k].items[j] = raw[k].provider
  BY <1>2, <1>9, <1>10, ContributionOf
<1>12. DOMAIN raw = 1 .. m
  BY <1>10
<1> HIDE DEF raw
<1>13. raw \in Seq(Contribution) /\ Len(raw) = m
  <2>1. raw \in [1 .. m -> Contribution]
    BY <1>10, <1>11
  <2> QED
    BY <1>5, <2>1
<1>14. PICK order \in Bijection(1 .. m, 1 .. m) :
         /\ ByAuthority(raw) = Taken(raw, order)
         /\ \A j, k \in 1 .. m : j < k =>
              PrecedenceOf(raw[order[j]].provider) <= PrecedenceOf(raw[order[k]].provider)
  BY <1>13, AuthorityReorders
<1> DEFINE new == contributions'
<1>15. /\ new \in Seq(Contribution)
       /\ DOMAIN new = 1 .. m
       /\ \A k \in 1 .. m : order[k] \in 1 .. m /\ new[k] = raw[order[k]]
  BY <1>13, <1>14, <1>c, TakenList
<1>16. \A j, k \in 1 .. m : order[j] = order[k] => j = k
  BY DEF Bijection, Injection, IsInjective
<1> HIDE DEF new
<1>17. \A i \in DOMAIN new : \A j \in DOMAIN new[i].items : new[i].items[j] = new[i].provider
  BY <1>11, <1>15
<1>18. \A i, j \in DOMAIN new : new[i].provider = new[j].provider => i = j
  BY <1>9, <1>11, <1>15, <1>16
<1>19. \A i \in DOMAIN new : new[i].provider = "template" => new[i].metadata = Nothing
  BY <1>11, <1>15
<1>20. /\ phase = "resolved" /\ phase' = "gathered"
       /\ UNCHANGED <<available, states, plan, cko>>
  BY DEF Gather
<1>21. cko = {} /\ cko' = {}
  BY <1>20 DEF KnowledgeInv
<1>22. parsed' \in BOOLEAN
  BY <1>1 DEF KnowledgeInv
<1> QED
  BY <1>15, <1>17, <1>18, <1>19, <1>20, <1>21, <1>22 DEF KnowledgeInv, new

\* Each action keeps to it.
LEMMA KnowledgeInvNext ==
  ASSUME KnowledgeInv, KnowledgeNext \/ UNCHANGED knowledgeVars PROVE KnowledgeInv'
<1>1. CASE Resolve
  <2>1. /\ phase = "intent" /\ phase' = "resolved"
        /\ plan' = Sorted(SetToSeq(available), LAMBDA p, q : PrecedenceOf(p) < PrecedenceOf(q))
        /\ UNCHANGED <<available, states, parsed, contributions, cko>>
    BY <1>1 DEF Resolve
  <2> DEFINE s == SetToSeq(available)
             n == Len(s)
  <2>2. available \subseteq Provider /\ IsFiniteSet(available)
    BY ProviderRanks, FS_Subset DEF KnowledgeInv
  <2>3. s \in Seq(available) /\ s \in Bijection(1 .. n, available)
    BY <2>2, SetList
  <2> HIDE DEF s, n
  <2>4. s \in Seq(Provider)
    <3>1. \A A, B : A \subseteq B => Seq(A) \subseteq Seq(B)
      OBVIOUS
    <3> QED
      BY <2>2, <2>3, <3>1
  <2>5. PICK turns \in Bijection(1 .. n, 1 .. n) : plan' = Taken(s, turns)
    BY <2>1, <2>4, PlanReorders DEF s, n
  <2>6. /\ plan' \in Seq(Provider) /\ DOMAIN plan' = 1 .. n
        /\ \A k \in 1 .. n : turns[k] \in 1 .. n /\ plan'[k] = s[turns[k]]
    BY <2>4, <2>5, TakenList DEF n
  <2>7. /\ \A j, k \in 1 .. n : turns[j] = turns[k] => j = k
        /\ \A j, k \in 1 .. n : s[j] = s[k] => j = k
    BY <2>3 DEF Bijection, Injection, IsInjective
  <2>8. \A i, j \in DOMAIN plan' : plan'[i] = plan'[j] => i = j
    BY <2>6, <2>7
  <2>9. cko = {} /\ cko' = {}
    BY <2>1 DEF KnowledgeInv
  <2> QED
    BY <2>1, <2>6, <2>8, <2>9 DEF KnowledgeInv
<1>2. CASE Gather
  BY <1>2, GatherKeepsInv
<1>3. CASE Understand
  <2>1. /\ phase = "gathered" /\ phase' \in {"understood", "failed"}
        /\ UNCHANGED <<available, states, parsed, plan, cko>>
    BY <1>3 DEF Understand
  <2>2. cko = {} /\ cko' = {}
    BY <2>1 DEF KnowledgeInv
  <2>3. CASE contributions' = contributions
    BY <2>1, <2>2, <2>3 DEF KnowledgeInv
  <2>4. CASE contributions' # contributions
    <3> DEFINE last == [provider |-> "template", metadata |-> states["template"],
                        items |-> <<"template">>, source |-> FALSE]
               n == Len(contributions)
    <3>1. contributions' = Append(contributions, last)
      BY <1>3, <2>4 DEF Understand
    <3>2. last \in Contribution
      <4>1. "template" \in Provider
        BY ProviderRanks
      <4>2. states["template"] \in Statement /\ <<"template">> \in Seq(Provider)
        BY <4>1 DEF KnowledgeInv
      <4> QED
        BY <4>1, <4>2 DEF Contribution
    <3>l. last.provider = "template" /\ \A j \in DOMAIN last.items : last.items[j] = "template"
      OBVIOUS
    <3> HIDE DEF last
    <3>3. contributions \in Seq(Contribution)
      BY DEF KnowledgeInv
    <3>4. /\ contributions' \in Seq(Contribution) /\ Len(contributions') = n + 1
          /\ \A k \in 1 .. n : contributions'[k] = contributions[k]
          /\ contributions'[n + 1] = last
      BY <3>1, <3>2, <3>3, AppendProperties
    <3>5. n \in Nat /\ DOMAIN contributions = 1 .. n
      BY <3>3, Elements
    <3>6. DOMAIN contributions' = (1 .. n) \cup {n + 1} /\ n + 1 \notin 1 .. n
      <4>1. DOMAIN contributions' = 1 .. n + 1
        BY <3>4, Elements
      <4> QED
        BY <3>5, <4>1
    <3> DEFINE new == contributions'
    <3>7. \A i \in DOMAIN new : \A j \in DOMAIN new[i].items : new[i].items[j] = new[i].provider
      BY <3>4, <3>5, <3>6, <3>l DEF KnowledgeInv
    <3>8. /\ \A i, j \in 1 .. n : contributions[i].provider = contributions[j].provider => i = j
          /\ \A i \in 1 .. n :
               contributions[i].provider = "template" => contributions[i].metadata = Nothing
      BY <2>1, <3>5 DEF KnowledgeInv
    <3> HIDE DEF new
    <3>9. \A i, j \in DOMAIN new : new[i].provider = new[j].provider =>
            \/ i = j
            \/ new[i].metadata = Nothing \/ new[j].metadata = Nothing
      BY <3>4, <3>6, <3>8, <3>l DEF new
    <3> QED
      BY <2>1, <2>2, <3>4, <3>7, <3>9 DEF KnowledgeInv, new
  <2> QED
    BY <2>3, <2>4
<1>4. CASE BuildCko
  <2>1. /\ phase' = "complete" /\ cko' = {Aggregate(contributions)}
        /\ UNCHANGED <<available, states, parsed, plan, contributions>>
    BY <1>4 DEF BuildCko
  <2>2. Aggregate(contributions)' = Aggregate(contributions)
    <3>1. contributions' = contributions
      BY <2>1
    <3> QED
      BY <3>1
  <2> QED
    BY <2>1, <2>2 DEF KnowledgeInv
<1>5. CASE UNCHANGED knowledgeVars
  <2>1. UNCHANGED <<available, states, parsed, phase, plan, contributions, cko>>
    BY <1>5 DEF knowledgeVars
  <2>2. Aggregate(contributions)' = Aggregate(contributions)
    BY <2>1
  <2> QED
    BY <2>1, <2>2 DEF KnowledgeInv
<1> QED
  BY <1>1, <1>2, <1>3, <1>4, <1>5 DEF KnowledgeNext

\* Every step of the sources keeps it.
LEMMA AlwaysKnowledgeInv == Spec => []KnowledgeInv
<1>1. ASSUME NEW with \in SUBSET Provider, NEW states0 \in [Provider -> Statement],
             NEW parsed0 \in BOOLEAN, KnowledgeStart(with, states0, parsed0)
      PROVE  KnowledgeInv
  BY <1>1 DEF KnowledgeStart, KnowledgeInv
<1>n. Nothing \in Statement
  BY DEF Nothing, Statement
<1>2. Init => KnowledgeInv
  <2> SUFFICES ASSUME Init PROVE KnowledgeInv
    OBVIOUS
  <2>1. CASE step = "knowledge"
    <3>0. PICK with \in SUBSET Provider, parsed0 \in BOOLEAN :
            \E said \in [with \cap Stating -> Statement] :
               KnowledgeStart(with,
                 [p \in Provider |-> IF p \in DOMAIN said THEN said[p] ELSE Nothing], parsed0)
      BY <2>1 DEF Init, KnowledgeInit
    <3>1. PICK said \in [with \cap Stating -> Statement] :
            KnowledgeStart(with,
              [p \in Provider |-> IF p \in DOMAIN said THEN said[p] ELSE Nothing], parsed0)
      BY <3>0
    <3>2. [p \in Provider |-> IF p \in DOMAIN said THEN said[p] ELSE Nothing]
            \in [Provider -> Statement]
      BY <1>n
    <3> QED
      BY <1>1, <3>1, <3>2
  <2>2. CASE step # "knowledge"
    <3>1. KnowledgeStart({"llm"}, [p \in Provider |-> Nothing], FALSE)
      BY <2>2 DEF Init
    <3>2. {"llm"} \in SUBSET Provider /\ [p \in Provider |-> Nothing] \in [Provider -> Statement]
      BY <1>n, ProviderRanks
    <3> QED
      BY <1>1, <3>1, <3>2
  <2> QED
    BY <2>1, <2>2
<1>3. KnowledgeInv /\ [Next]_<<step, knowledgeVars, choiceVars, documentVars, templateVars, leakVars>>
        => KnowledgeInv'
  BY KnowledgeInvNext DEF Next
<1> QED
  BY <1>2, <1>3, PTL DEF Spec

\* Whoever was asked, failed or was understood late, the knowledge object has for each
\* field what the highest authority says, every dissent recorded once against the source
\* that won, and the items of the higher authority first (aggregator.py), for any fields,
\* values and extensions.
THEOREM AuthorityDecides == Spec => []KnowledgeMerged
<1>1. KnowledgeInv => KnowledgeMerged
  BY KnowledgeInvHolds
<1> QED
  BY <1>1, AlwaysKnowledgeInv, PTL

(***************************************************************************)
(* Choosing a clause                                                       *)
(***************************************************************************)

\* A candidate has a score, and an id to compare.
LEMMA ScoreType ==
  ASSUME NEW c \in Candidate
  PROVE  Score(c) \in Nat /\ c.id \in Nat /\ c.category \in Category
<1>1. c.id \in Nat /\ c.category \in Category
  <2>1. Len(LibraryIds) \in Nat
    BY DEF LibraryIds
  <2>2. 0 .. Len(LibraryIds) \subseteq Nat
    BY <2>1
  <2> QED
    BY <2>2 DEF Candidate
<1>2. \A merit \in {"jurisdiction", "industry", "mandatory", "low_risk", "confident"} :
        Gain(c, merit) \in Nat
  BY DEF Gain, Points
<1> QED
  BY <1>1, <1>2 DEF Score

\* A slot's candidates are ranked by score and id, each once.
LEMMA RankingReorders ==
  ASSUME NEW list \in Seq(Candidate)
  PROVE  \E turns \in Bijection(1 .. Len(list), 1 .. Len(list)) :
            /\ RankCandidates(list) = Taken(list, turns)
            /\ \A j, k \in 1 .. Len(list) : j < k => ~Ranks(list[turns[k]], list[turns[j]])
<1> DEFINE n == Len(list)
           W == {pair \in Candidate \X Candidate : Ranks(pair[1], pair[2])}
           ahead == [i \in 1 .. n |->
                       {j \in 1 .. n : <<list[j], list[i]>> \in W
                                       \/ (j < i /\ <<list[i], list[j]>> \notin W)}]
<1>1. n \in Nat /\ DOMAIN list = 1 .. n /\ \A i \in 1 .. n : list[i] \in Candidate
  BY Elements
<1> HIDE DEF n
<1>2. \A c, d \in Candidate : <<c, d>> \in W <=> Ranks(c, d)
  OBVIOUS
<1> HIDE DEF W
<1>3. \A c, d, e \in Candidate :
        /\ ~Ranks(c, c)
        /\ (Ranks(c, d) /\ Ranks(d, e) => Ranks(c, e))
        /\ (Ranks(c, e) => Ranks(c, d) \/ Ranks(d, e))
  BY ScoreType DEF Ranks
<1>4. Ranked(list, W, n)
  <2>1. \A i \in 1 .. n : <<list[i], list[i]>> \notin W
    BY <1>1, <1>2, <1>3
  <2>2. ASSUME NEW i \in 1 .. n, NEW j \in 1 .. n, NEW k \in 1 .. n
        PROVE  /\ (<<list[i], list[j]>> \in W /\ <<list[j], list[k]>> \in W
                     => <<list[i], list[k]>> \in W)
               /\ (<<list[i], list[k]>> \in W
                     => <<list[i], list[j]>> \in W \/ <<list[j], list[k]>> \in W)
    BY <1>1, <1>2, <1>3
  <2> QED
    BY <2>1, <2>2 DEF Ranked
<1>5. RankCandidates(list) = Arranged(list, ahead)
  <2>1. \A i, j \in 1 .. n : <<list[i], list[j]>> \in W <=> Ranks(list[i], list[j])
    BY <1>1, <1>2
  <2>2. [i \in 1 .. n |-> {j \in 1 .. n : Ranks(list[j], list[i])
                                          \/ (j < i /\ ~Ranks(list[i], list[j]))}] = ahead
    BY <2>1
  <2> QED
    BY <1>1, <2>2 DEF RankCandidates, Sorted
<1>6. PICK turns \in Bijection(1 .. n, 1 .. n) :
        /\ Arranged(list, ahead) = Taken(list, turns)
        /\ \A j, k \in 1 .. n : j < k =>
             \/ <<list[turns[j]], list[turns[k]]>> \in W
             \/ (turns[j] < turns[k] /\ <<list[turns[k]], list[turns[j]]>> \notin W)
  BY <1>1, <1>4, Sorting
<1>7. \A k \in 1 .. n : turns[k] \in 1 .. n
  BY DEF Bijection, Injection
<1>8. \A j, k \in 1 .. n : j < k => ~Ranks(list[turns[k]], list[turns[j]])
  <2> SUFFICES ASSUME NEW j \in 1 .. n, NEW k \in 1 .. n, j < k,
                      Ranks(list[turns[k]], list[turns[j]])
               PROVE  FALSE
    OBVIOUS
  <2>1. list[turns[j]] \in Candidate /\ list[turns[k]] \in Candidate
    BY <1>1, <1>7
  <2>2. <<list[turns[k]], list[turns[j]]>> \in W
    BY <1>2, <2>1
  <2>3. Ranks(list[turns[j]], list[turns[k]])
    BY <1>2, <1>6, <2>1, <2>2
  <2> QED
    BY <1>3, <2>1, <2>3
<1> QED
  BY <1>5, <1>6, <1>8 DEF n

\* What a slot's list holds
LEMMA SlotHolds ==
  ASSUME candidates \in Seq(Candidate), NEW c
  PROVE  LET places == {i \in DOMAIN candidates : candidates[i].category = c}
         IN  /\ InSlot(c) \in Seq(Candidate)
             /\ Len(InSlot(c)) = Cardinality(places)
             /\ \E turns \in Bijection(1 .. Len(InSlot(c)), places) :
                    InSlot(c) = Taken(candidates, turns)
<1> DEFINE places == {i \in DOMAIN candidates : candidates[i].category = c}
           n == Cardinality(places)
<1>1. DOMAIN candidates = 1 .. Len(candidates) /\ Len(candidates) \in Nat
      /\ \A i \in DOMAIN candidates : candidates[i] \in Candidate
  BY Elements
<1>2. IsFiniteSet(places) /\ places \in SUBSET Int
  <2>1. places \in SUBSET (1 .. Len(candidates)) /\ IsFiniteSet(1 .. Len(candidates))
    BY <1>1, FS_Interval
  <2> QED
    BY <2>1, FS_Subset
<1>3. n \in Nat
  BY <1>2, FS_CardinalityType
<1>p. places \subseteq DOMAIN candidates
  OBVIOUS
<1>i. InSlot(c) = Kept(candidates, places)
  BY DEF InSlot
<1> HIDE DEF n, places
<1>4. PICK turns \in Bijection(1 .. n, places) : Kept(candidates, places) = Taken(candidates, turns)
  BY <1>2, Keeping DEF n
<1>5. turns \in [1 .. n -> places]
  BY DEF Bijection, Injection
<1>6. \A k \in 1 .. n : candidates[turns[k]] \in Candidate
  BY <1>1, <1>5, <1>p
<1>7. InSlot(c) = [k \in 1 .. n |-> candidates[turns[k]]]
  BY <1>4, <1>5, <1>i DEF Taken
<1>8. InSlot(c) \in Seq(Candidate) /\ Len(InSlot(c)) = n
  <2>1. InSlot(c) \in [1 .. n -> Candidate]
    BY <1>6, <1>7
  <2> QED
    BY <1>3, <2>1
<1> QED
  BY <1>4, <1>8, <1>i DEF n, places

\* The recommendation the candidates lead to
Recommendation ==
    [c \in {candidates[i].category : i \in DOMAIN candidates} |-> RecommendSlot(InSlot(c))]

\* A slot that some candidate is in has a ranked list, its head and its tail.
LEMMA SlotRanked ==
  ASSUME candidates \in Seq(Candidate), NEW c \in DOMAIN Recommendation
  PROVE  LET ranked == RankCandidates(InSlot(c))
         IN  /\ ranked \in Seq(Candidate) /\ ranked # <<>>
             /\ <<Recommendation[c].chosen>> \o Recommendation[c].alternatives = ranked
             /\ Recommendation[c].chosen = ranked[1]
             /\ Recommendation[c].alternatives \in Seq(Candidate)
<1> DEFINE slot == InSlot(c)
           n == Len(slot)
           ranked == RankCandidates(slot)
           places == {i \in DOMAIN candidates : candidates[i].category = c}
<1>1. slot \in Seq(Candidate) /\ n = Cardinality(places)
  BY SlotHolds
<1>2. n \in Nat /\ \A i \in 1 .. n : slot[i] \in Candidate
  BY <1>1, Elements
<1>3. places # {}
  BY DEF Recommendation
<1>4. n > 0
  <2>1. IsFiniteSet(places)
    <3>1. DOMAIN candidates = 1 .. Len(candidates) /\ Len(candidates) \in Nat
      BY Elements
    <3>2. places \in SUBSET (1 .. Len(candidates)) /\ IsFiniteSet(1 .. Len(candidates))
      BY <3>1, FS_Interval
    <3> QED
      BY <3>2, FS_Subset
  <2>2. Cardinality(places) # 0
    BY <1>3, <2>1, FS_EmptySet
  <2> QED
    BY <1>1, <1>2, <2>2
<1> HIDE DEF places
<1>5. PICK turns \in Bijection(1 .. n, 1 .. n) : ranked = Taken(slot, turns)
  BY <1>1, RankingReorders
<1>6. turns \in [1 .. n -> 1 .. n]
  BY DEF Bijection, Injection
<1>7. ranked = [k \in 1 .. n |-> slot[turns[k]]]
  BY <1>5, <1>6 DEF Taken
<1>r. Recommendation[c] = [chosen |-> Head(ranked), alternatives |-> Tail(ranked)]
  BY DEF Recommendation, RecommendSlot
<1> HIDE DEF ranked, slot, n
<1>8. ranked \in [1 .. n -> Candidate]
  BY <1>2, <1>6, <1>7
<1>9. ranked \in Seq(Candidate) /\ Len(ranked) = n /\ ranked # <<>>
  BY <1>2, <1>4, <1>8
<1>10. Head(ranked) = ranked[1] /\ Tail(ranked) \in Seq(Candidate)
       /\ <<Head(ranked)>> \o Tail(ranked) = ranked
  BY <1>9, HeadThenTail
<1> QED
  BY <1>9, <1>10, <1>r DEF ranked, slot

ChoiceInv ==
    /\ candidates \in Seq(Candidate)
    /\ recommended \subseteq {Recommendation}

\* Every candidate of the slot is ranked as often as it is a candidate.
LEMMA SlotCounts ==
  ASSUME candidates \in Seq(Candidate), NEW c, NEW d
  PROVE  LET ranked == RankCandidates(InSlot(c))
         IN  Among(ranked, DOMAIN ranked, d) =
               IF d.category = c THEN Among(candidates, DOMAIN candidates, d) ELSE 0
<1> DEFINE slot == InSlot(c)
           n == Len(slot)
           ranked == RankCandidates(slot)
           places == {i \in DOMAIN candidates : candidates[i].category = c}
<1>1. slot \in Seq(Candidate)
  BY SlotHolds
<1>2. n \in Nat /\ DOMAIN slot = 1 .. n
  BY <1>1, Elements
<1>3. Among(ranked, DOMAIN ranked, d) = Among(slot, DOMAIN slot, d)
  <2>1. PICK turns \in Bijection(1 .. n, 1 .. n) : ranked = Taken(slot, turns)
    BY <1>1, RankingReorders
  <2> HIDE DEF ranked, slot, n
  <2> QED
    BY <1>2, <2>1, TakenCounts
<1>4. Among(slot, DOMAIN slot, d) = Among(candidates, places, d)
  <2>1. PICK turns \in Bijection(1 .. n, places) : slot = Taken(candidates, turns)
    BY SlotHolds
  <2> HIDE DEF slot, n, places
  <2> QED
    BY <1>2, <2>1, TakenCounts
<1>5. CASE d.category = c
  <2>1. {i \in places : candidates[i] = d} = {i \in DOMAIN candidates : candidates[i] = d}
    BY <1>5
  <2>2. Among(candidates, places, d) = Among(candidates, DOMAIN candidates, d)
    BY <2>1 DEF Among
  <2> QED
    BY <1>3, <1>4, <1>5, <2>2
<1>6. CASE d.category # c
  <2>1. {i \in places : candidates[i] = d} = {}
    BY <1>6
  <2>2. Among(candidates, places, d) = 0
    BY <2>1, FS_EmptySet DEF Among
  <2> QED
    BY <1>3, <1>4, <1>6, <2>2
<1> QED
  BY <1>5, <1>6

\* The first has the best score, and of equal scores the smaller id comes first.
LEMMA SlotInOrder ==
  ASSUME candidates \in Seq(Candidate), NEW c \in DOMAIN Recommendation
  PROVE  LET ranked == RankCandidates(InSlot(c))
         IN  /\ \A i \in DOMAIN ranked : Score(ranked[i]) <= Score(ranked[1])
             /\ \A i, j \in DOMAIN ranked :
                  i < j /\ Score(ranked[i]) = Score(ranked[j]) => ranked[i].id <= ranked[j].id
<1> DEFINE slot == InSlot(c)
           n == Len(slot)
           ranked == RankCandidates(slot)
<1>1. slot \in Seq(Candidate)
  BY SlotHolds
<1>2. n \in Nat
  BY <1>1, Elements
<1>3. PICK turns \in Bijection(1 .. n, 1 .. n) :
        /\ ranked = Taken(slot, turns)
        /\ \A j, k \in 1 .. n : j < k => ~Ranks(slot[turns[k]], slot[turns[j]])
  BY <1>1, RankingReorders
<1>4. turns \in [1 .. n -> 1 .. n]
  BY DEF Bijection, Injection
<1>5. ranked = [k \in 1 .. n |-> slot[turns[k]]]
  BY <1>3, <1>4 DEF Taken
<1>6. ranked \in Seq(Candidate) /\ ranked # <<>>
  BY SlotRanked
<1> HIDE DEF ranked, slot, n
<1>7. DOMAIN ranked = 1 .. n /\ \A i \in 1 .. n : ranked[i] \in Candidate
  <2>1. \A i \in DOMAIN ranked : ranked[i] \in Candidate
    BY <1>6, Elements
  <2>2. DOMAIN ranked = 1 .. n
    BY <1>5
  <2> QED
    BY <2>1, <2>2
<1>8. 1 \in 1 .. n
  <2>1. Len(ranked) = n /\ Len(ranked) # 0
    BY <1>2, <1>6, <1>7
  <2> QED
    BY <1>2, <2>1
<1>9. \A j, k \in 1 .. n : j < k => ~Ranks(ranked[k], ranked[j])
  BY <1>3, <1>5
<1>10. ASSUME NEW i \in 1 .. n
       PROVE  Score(ranked[i]) <= Score(ranked[1])
  <2>1. Score(ranked[i]) \in Nat /\ Score(ranked[1]) \in Nat
    BY <1>7, <1>8, ScoreType
  <2>2. CASE i = 1
    BY <2>1, <2>2
  <2>3. CASE i # 1
    <3>1. 1 < i
      BY <2>3
    <3>2. ~(Score(ranked[i]) > Score(ranked[1]))
      BY <1>8, <1>9, <3>1 DEF Ranks
    <3> QED
      BY <2>1, <3>2
  <2> QED
    BY <2>2, <2>3
<1>11. ASSUME NEW i \in 1 .. n, NEW j \in 1 .. n, i < j,
              Score(ranked[i]) = Score(ranked[j])
       PROVE  ranked[i].id <= ranked[j].id
  <2>1. ranked[i].id \in Nat /\ ranked[j].id \in Nat
    BY <1>7, ScoreType
  <2>2. ~(ranked[j].id < ranked[i].id)
    BY <1>9, <1>11 DEF Ranks
  <2> QED
    BY <2>1, <2>2
<1> QED
  BY <1>7, <1>10, <1>11 DEF ranked, slot

\* The choice is what the candidates lead to.
LEMMA ChoiceInvHolds ==
  ASSUME ChoiceInv PROVE ChoiceIsBest /\ ChoiceTypeOK
<1>1. candidates \in Seq(Candidate)
  BY DEF ChoiceInv
<1>d. DOMAIN Recommendation = {candidates[i].category : i \in DOMAIN candidates}
  BY DEF Recommendation
<1>2. ASSUME NEW c \in DOMAIN Recommendation
      PROVE  /\ c \in Category
             /\ Recommendation[c].chosen \in Candidate
             /\ Recommendation[c].alternatives \in Seq(Candidate)
  <2>1. c \in Category
    BY <1>1, <1>d, Elements, ScoreType
  <2>2. /\ RankCandidates(InSlot(c)) \in Seq(Candidate)
        /\ RankCandidates(InSlot(c)) # <<>>
        /\ Recommendation[c].chosen = RankCandidates(InSlot(c))[1]
        /\ Recommendation[c].alternatives \in Seq(Candidate)
    BY <1>1, SlotRanked
  <2>3. RankCandidates(InSlot(c))[1] \in Candidate
    <3> SUFFICES ASSUME NEW s \in Seq(Candidate), s # <<>> PROVE s[1] \in Candidate
      BY <2>2
    <3> QED
      OBVIOUS
  <2> QED
    BY <2>1, <2>2, <2>3
<1>3. ChoiceTypeOK
  BY <1>1, <1>2 DEF ChoiceTypeOK, ChoiceInv
<1>4. DOMAIN Recommendation = {c.category : c \in ToSet(candidates)}
  BY <1>d DEF ToSet
<1> DEFINE All(set, c) == <<set[c].chosen>> \o set[c].alternatives
           Counted(set, c) ==
             \A d \in ToSet(candidates) \cup ToSet(All(set, c)) :
                Among(All(set, c), DOMAIN All(set, c), d) =
                  IF d.category = c THEN Among(candidates, DOMAIN candidates, d) ELSE 0
           InOrder(set, c) ==
             /\ \A i \in DOMAIN All(set, c) : Score(All(set, c)[i]) <= Score(set[c].chosen)
             /\ \A i, j \in DOMAIN All(set, c) :
                  i < j /\ Score(All(set, c)[i]) = Score(All(set, c)[j])
                    => All(set, c)[i].id <= All(set, c)[j].id
           R == Recommendation
<1>5. ASSUME NEW c \in DOMAIN Recommendation
      PROVE  Counted(R, c) /\ InOrder(R, c)
  <2>1. /\ All(R, c) = RankCandidates(InSlot(c))
        /\ Recommendation[c].chosen = RankCandidates(InSlot(c))[1]
    BY <1>1, SlotRanked
  <2> HIDE DEF All
  <2>r. R = Recommendation
    OBVIOUS
  <2> HIDE DEF R
  <2>2. \A d : Among(All(R, c), DOMAIN All(R, c), d) =
               IF d.category = c THEN Among(candidates, DOMAIN candidates, d) ELSE 0
    <3> SUFFICES ASSUME NEW d
                 PROVE  Among(All(R, c), DOMAIN All(R, c), d) =
                          IF d.category = c THEN Among(candidates, DOMAIN candidates, d) ELSE 0
      OBVIOUS
    <3>1. LET ranked == RankCandidates(InSlot(c))
          IN  Among(ranked, DOMAIN ranked, d) =
                IF d.category = c THEN Among(candidates, DOMAIN candidates, d) ELSE 0
      BY <1>1, SlotCounts
    <3> QED
      BY <2>1, <3>1
  <2>3. InOrder(R, c)
    BY <1>1, <2>1, <2>r, SlotInOrder
  <2> QED
    BY <2>2, <2>3
<1>6. ChoiceIsBest
  <2>1. ChoiceIsBest <=>
          \A set \in recommended :
             /\ DOMAIN set = {c.category : c \in ToSet(candidates)}
             /\ \A c \in DOMAIN set : Counted(set, c) /\ InOrder(set, c)
    BY DEF ChoiceIsBest, Among
  <2> HIDE DEF Counted, InOrder
  <2>2. \A set \in recommended : set = R
    BY DEF ChoiceInv
  <2> QED
    BY <1>4, <1>5, <2>1, <2>2
<1> QED
  BY <1>3, <1>6

\* The library's clauses and the classified ones are candidates.
LEMMA AlwaysChoiceInv == Spec => []ChoiceInv
<1>1. ASSUME NEW ids \in SUBSET DOMAIN LibraryIds, NEW required, NEW n \in Nat,
             NEW order \in SetToSeqs(ids), NEW classified \in [1 .. n -> Classified]
      PROVE  [i \in DOMAIN order |-> ClauseToCandidate(order[i], order[i] \in required)]
               \o classified \in Seq(Candidate)
  <2>1. ASSUME NEW id \in DOMAIN LibraryIds, NEW flag
        PROVE  ClauseToCandidate(id, flag) \in Candidate
    <3>1. CategoryOf(LibraryIds[id]) \in Category
      BY DEF CategoryOf, Category
    <3>2. id \in 0 .. Len(LibraryIds)
      BY DEF LibraryIds
    <3> DEFINE merits == {"jurisdiction", "low_risk", "confident"}
                           \cup (IF flag THEN {"mandatory"} ELSE {})
    <3>3. merits \subseteq Merit
      BY DEF Merit, Points
    <3> HIDE DEF merits
    <3>4. ClauseToCandidate(id, flag) =
            [category |-> CategoryOf(LibraryIds[id]), id |-> id, merits |-> merits]
      BY DEF ClauseToCandidate, merits
    <3> QED
      BY <3>1, <3>2, <3>3, <3>4 DEF Candidate
  <2>2. IsFiniteSet(ids)
    <3>1. DOMAIN LibraryIds = 1 .. 4
      BY DEF LibraryIds
    <3>2. \A size \in Int : IsFiniteSet(1 .. size)
      BY FS_Interval
    <3>3. IsFiniteSet(DOMAIN LibraryIds)
      <4>1. \E size \in Int : DOMAIN LibraryIds = 1 .. size
        BY <3>1
      <4> QED
        BY <3>2, <4>1
    <3> QED
      BY <3>3, FS_Subset
  <2>3. Cardinality(ids) \in Nat
    BY <2>2, FS_CardinalityType
  <2>4. order \in [1 .. Cardinality(ids) -> ids]
    BY DEF SetToSeqs
  <2> DEFINE drawn == [i \in DOMAIN order |-> ClauseToCandidate(order[i], order[i] \in required)]
             m == Cardinality(ids)
  <2>5. \A i \in 1 .. m : order[i] \in DOMAIN LibraryIds
    BY <2>4
  <2>6. drawn \in [1 .. m -> Candidate]
    BY <2>1, <2>4, <2>5
  <2> HIDE DEF drawn, m
  <2>7. drawn \in Seq(Candidate)
    BY <2>3, <2>6 DEF m
  <2>8. classified \in Seq(Candidate)
    <3>1. Classified \subseteq Candidate
      BY DEF Classified
    <3> QED
      BY <3>1
  <2> QED
    BY <2>7, <2>8, ConcatProperties DEF drawn
<1>2. Init => ChoiceInv
  <2> SUFFICES ASSUME Init PROVE ChoiceInv
    OBVIOUS
  <2>1. recommended = {}
    BY DEF Init, ChoiceInit
  <2>2. CASE step = "choice"
    <3>1. ChoiceInit
      BY <2>2 DEF Init
    <3>2. PICK ids \in SUBSET DOMAIN LibraryIds, required \in SUBSET DOMAIN LibraryIds,
               n \in 0 .. MaxClassified :
            \E order \in SetToSeqs(ids), classified \in [1 .. n -> Classified] :
               candidates = [i \in DOMAIN order |->
                                ClauseToCandidate(order[i], order[i] \in required)]
                              \o classified
      BY <3>1 DEF ChoiceInit
    <3>3. n \in Nat
      BY MaxClassifiedAssumption
    <3>4. candidates \in Seq(Candidate)
      BY <1>1, <3>2, <3>3
    <3> QED
      BY <2>1, <3>4 DEF ChoiceInv
  <2>3. CASE step # "choice"
    <3>1. candidates = <<>>
      BY <2>3 DEF Init
    <3> QED
      BY <2>1, <3>1 DEF ChoiceInv
  <2> QED
    BY <2>2, <2>3
<1>3. ChoiceInv /\ [Next]_<<step, knowledgeVars, choiceVars, documentVars, templateVars, leakVars>>
        => ChoiceInv'
  <2> SUFFICES ASSUME ChoiceInv, ChoiceNext \/ UNCHANGED choiceVars PROVE ChoiceInv'
    BY DEF Next
  <2>1. candidates' = candidates
    BY DEF ChoiceNext, RecommendClauses, choiceVars
  <2>2. recommended' = {Recommendation} \/ recommended' = recommended
    BY DEF ChoiceNext, RecommendClauses, Recommendation, choiceVars
  <2>3. Recommendation' = Recommendation
    BY <2>1 DEF Recommendation, InSlot
  <2> QED
    BY <2>1, <2>2, <2>3 DEF ChoiceInv
<1> QED
  BY <1>2, <1>3, PTL DEF Spec

\* In each slot that some candidate is in, all of its candidates are ranked, each as
\* often as it is one, the best score is chosen, and equal scores are in the order
\* of the ids (ranking.rank_candidates, recommendation.py), for any list.
THEOREM TheBestIsChosen == Spec => []ChoiceIsBest
<1>1. ChoiceInv => ChoiceIsBest
  BY ChoiceInvHolds
<1> QED
  BY <1>1, AlwaysChoiceInv, PTL

(***************************************************************************)
(* Words copied from reference documents: noticing them shard by shard      *)
(* misses no run of them, and reports none that is not shared.              *)
(***************************************************************************)

\* Places that lie together are all within one maximal run (leakage._runs).
LEMMA RunAround ==
  ASSUME NEW limit \in Nat, NEW places, places \subseteq 1 .. limit,
         NEW a \in 1 .. limit, NEW b \in 1 .. limit, a <= b, a .. b \subseteq places
  PROVE  \E run \in Runs(places) : run[1] <= a /\ b <= run[2]
<1> DEFINE starts == {x \in 1 .. a : x .. b \subseteq places}
<1>1. PICK x \in starts : \A other \in starts : x <= other
  <2>1. a \in starts /\ starts \subseteq Nat
    OBVIOUS
  <2> QED
    BY <2>1, LeastOf
<1>2. x \in 1 .. a /\ x .. b \subseteq places
  BY <1>1
<1>3. x - 1 \notin places
  <2>1. SUFFICES ASSUME x - 1 \in places PROVE FALSE
    OBVIOUS
  <2>2. x - 1 \in 1 .. a /\ (x - 1) .. b \subseteq places
    BY <1>2, <2>1
  <2>3. x <= x - 1
    BY <1>1, <2>2
  <2> QED
    BY <1>2, <2>3
<1> HIDE DEF starts
<1> DEFINE ends == {y \in b .. limit : x .. y \subseteq places}
           distances == {limit - y : y \in ends}
<1>4. PICK distance \in distances : \A other \in distances : distance <= other
  <2>1. b \in ends
    BY <1>2
  <2>2. \A y \in b .. limit : limit - y \in Nat
    OBVIOUS
  <2>3. distances \subseteq Nat /\ distances # {}
    BY <2>1, <2>2
  <2> HIDE DEF ends, distances
  <2> QED
    BY <2>3, LeastOf
<1>5. PICK y \in ends : distance = limit - y
  BY <1>4
<1>6. y \in b .. limit /\ x .. y \subseteq places
  BY <1>5
<1>7. y + 1 \notin places
  <2>1. SUFFICES ASSUME y + 1 \in places PROVE FALSE
    OBVIOUS
  <2>2. y + 1 \in b .. limit /\ x .. (y + 1) \subseteq places
    BY <1>2, <1>6, <2>1
  <2>3. limit - (y + 1) \in distances
    BY <2>2
  <2>4. limit - y <= limit - (y + 1)
    BY <1>4, <1>5, <2>3
  <2> QED
    BY <1>6, <2>4
<1> HIDE DEF ends, distances
<1>8. <<x, y>> \in Runs(places)
  <2>1. x \in x .. y /\ y \in x .. y
    BY <1>2, <1>6
  <2>2. x \in places /\ y \in places /\ x .. y # {}
    BY <1>6, <2>1
  <2> QED
    BY <1>3, <1>6, <1>7, <2>2 DEF Runs
<1> QED
  BY <1>2, <1>6, <1>8

\* A stretch of places that meets a maximal run is within it.
LEMMA RunHolds ==
  ASSUME NEW limit \in Nat, NEW places, places \subseteq 1 .. limit,
         NEW run \in Runs(places), NEW k \in run[1] .. run[2],
         NEW a \in Int, NEW b \in Int, a .. b \subseteq places, k \in a .. b
  PROVE  run[1] <= a /\ b <= run[2]
<1>1. /\ run[1] \in places /\ run[2] \in places
      /\ run[1] - 1 \notin places /\ run[2] + 1 \notin places
  BY DEF Runs
<1>2. run[1] \in Nat /\ run[2] \in Nat
  <2>1. run[1] \in 1 .. limit /\ run[2] \in 1 .. limit
    BY <1>1
  <2> QED
    BY <2>1
<1>3. a < run[1] => run[1] - 1 \in a .. b
  BY <1>2
<1>4. run[2] < b => run[2] + 1 \in a .. b
  BY <1>2
<1> QED
  BY <1>1, <1>2, <1>3, <1>4

(***************************************************************************)
(* Shards                                                                  *)
(***************************************************************************)

\* Two shards are the same when their words are.
LEMMA SameShard ==
  ASSUME NEW s \in Seq(Word), NEW t \in Seq(Word),
         NEW i \in 1 .. Len(s) + 1 - NgramWords, NEW j \in 1 .. Len(t) + 1 - NgramWords
  PROVE  SubSeq(s, i, i + NgramWords - 1) = SubSeq(t, j, j + NgramWords - 1)
           <=> \A m \in 0 .. NgramWords - 1 : s[i + m] = t[j + m]
<1> DEFINE n == NgramWords
           ss == SubSeq(s, i, i + n - 1)
           ts == SubSeq(t, j, j + n - 1)
<1>t. n \in Nat \ {0} /\ Len(s) \in Nat /\ Len(t) \in Nat /\ i \in Nat \ {0} /\ j \in Nat \ {0}
      /\ i + n - 1 <= Len(s) /\ j + n - 1 <= Len(t)
  BY ShardAssumption, LenProperties
<1> HIDE DEF n
<1>1. /\ ss \in Seq(Word) /\ Len(ss) = n
      /\ \A m \in 1 .. n : ss[m] = s[i + m - 1]
  <2>1. \A k \in i .. (i + n - 1) : s[k] \in Word
    BY <1>t, ElementOfSeq
  <2> QED
    BY <1>t, <2>1, SubSeqProperties
<1>2. /\ ts \in Seq(Word) /\ Len(ts) = n
      /\ \A m \in 1 .. n : ts[m] = t[j + m - 1]
  <2>1. \A k \in j .. (j + n - 1) : t[k] \in Word
    BY <1>t, ElementOfSeq
  <2> QED
    BY <1>t, <2>1, SubSeqProperties
<1> HIDE DEF ss, ts
<1>3. ss = ts => \A m \in 0 .. n - 1 : s[i + m] = t[j + m]
  <2> SUFFICES ASSUME ss = ts, NEW m \in 0 .. n - 1 PROVE s[i + m] = t[j + m]
    OBVIOUS
  <2>1. m + 1 \in 1 .. n /\ i + (m + 1) - 1 = i + m /\ j + (m + 1) - 1 = j + m
    BY <1>t
  <2> QED
    BY <1>1, <1>2, <2>1
<1>4. (\A m \in 0 .. n - 1 : s[i + m] = t[j + m]) => ss = ts
  <2> SUFFICES ASSUME \A m \in 0 .. n - 1 : s[i + m] = t[j + m] PROVE ss = ts
    OBVIOUS
  <2>1. ASSUME NEW m \in 1 .. n PROVE ss[m] = ts[m]
    <3>1. m - 1 \in 0 .. n - 1 /\ i + (m - 1) = i + m - 1 /\ j + (m - 1) = j + m - 1
      BY <1>t
    <3> QED
      BY <1>1, <1>2, <3>1
  <2> QED
    BY <1>1, <1>2, <2>1, SeqEqual
<1> QED
  BY <1>3, <1>4 DEF ss, ts, n

\* What is compared: a draft and the texts of the references
TextsInv ==
    draft \in Text(MaxDraft) /\ references \in [Ref -> Text(MaxReference)]

\* What the texts are.
LEMMA TextsTyped ==
  ASSUME TextsInv, NEW r \in Ref
  PROVE  /\ draft \in Seq(Word) /\ Len(draft) \in Nat /\ Len(draft) <= MaxDraft
         /\ references[r] \in Seq(Word) /\ Len(references[r]) \in Nat
<1>1. \A limit \in Nat : \A text \in Text(limit) : text \in Seq(Word) /\ Len(text) <= limit
  <2> SUFFICES ASSUME NEW limit \in Nat, NEW text \in Text(limit)
               PROVE  text \in Seq(Word) /\ Len(text) <= limit
    OBVIOUS
  <2>1. PICK k \in 0 .. limit : text \in [1 .. k -> Word]
    BY DEF Text
  <2>2. text \in Seq(Word)
    BY <2>1, SeqDef
  <2>3. Len(text) = k
    BY <2>1, <2>2, LenProperties
  <2> QED
    BY <2>1, <2>2, <2>3
<1>2. draft \in Text(MaxDraft) /\ references[r] \in Text(MaxReference)
  BY DEF TextsInv
<1> QED
  BY <1>1, <1>2, ShardAssumption, LenProperties

\* A place is covered when it lies in a shard of the draft that is copied from
\* somewhere in the text.
LEMMA CoveredMeans ==
  ASSUME TextsInv, NEW r \in Ref, NEW k
  PROVE  k \in Covered(references[r]) <=>
            \E i \in 1 .. Len(draft) + 1 - NgramWords,
               j \in 1 .. Len(references[r]) + 1 - NgramWords :
                k \in i .. i + NgramWords - 1 /\ Copies(references[r], i, j, NgramWords)
<1> DEFINE text == references[r]
<1>1. draft \in Seq(Word) /\ text \in Seq(Word)
  BY TextsTyped
<1>2. \A i \in 1 .. Len(draft) + 1 - NgramWords, j \in 1 .. Len(text) + 1 - NgramWords :
        SubSeq(draft, i, i + NgramWords - 1) = SubSeq(text, j, j + NgramWords - 1)
          <=> Copies(text, i, j, NgramWords)
  BY <1>1, SameShard DEF Copies
<1> HIDE DEF text
<1>3. \A i \in 1 .. Len(draft) + 1 - NgramWords :
        SubSeq(draft, i, i + NgramWords - 1) \in Ngrams(text)
          <=> \E j \in 1 .. Len(text) + 1 - NgramWords : Copies(text, i, j, NgramWords)
  BY <1>2 DEF Ngrams
<1>4. k \in Covered(text) <=>
        \E i \in 1 .. Len(draft) + 1 - NgramWords :
            k \in i .. i + NgramWords - 1
            /\ SubSeq(draft, i, i + NgramWords - 1) \in Ngrams(text)
  BY DEF Covered
<1> QED
  BY <1>3, <1>4 DEF text

\* The places covered are places of the draft.
LEMMA CoveredInDraft ==
  ASSUME TextsInv, NEW r \in Ref
  PROVE  Covered(references[r]) \subseteq 1 .. Len(draft)
<1> SUFFICES ASSUME NEW k \in Covered(references[r]) PROVE k \in 1 .. Len(draft)
  OBVIOUS
<1>1. PICK i \in 1 .. Len(draft) + 1 - NgramWords : k \in i .. i + NgramWords - 1
  BY CoveredMeans
<1>2. Len(draft) \in Nat /\ NgramWords \in Nat \ {0}
  BY TextsTyped, ShardAssumption
<1> QED
  BY <1>1, <1>2

\* What the draft copies, shard after shard, is covered.
LEMMA CopiesAreCovered ==
  ASSUME TextsInv, NEW r \in Ref,
         NEW i \in 1 .. Len(draft), NEW j \in 1 .. Len(references[r]),
         NEW n \in Nat, n >= NgramWords,
         i + n - 1 <= Len(draft), j + n - 1 <= Len(references[r]),
         Copies(references[r], i, j, n)
  PROVE  i .. i + n - 1 \subseteq Covered(references[r])
<1> DEFINE text == references[r]
<1>t. /\ Len(draft) \in Nat /\ Len(text) \in Nat /\ NgramWords \in Nat \ {0}
  BY TextsTyped, ShardAssumption
<1> HIDE DEF text
<1> SUFFICES ASSUME NEW k \in i .. i + n - 1 PROVE k \in Covered(text)
  BY DEF text
\* The shard that begins at k, or the last one of the run
<1> DEFINE m == IF k - i + NgramWords <= n THEN k - i ELSE n - NgramWords
<1>1. /\ m \in Nat /\ m + NgramWords <= n
      /\ i + m <= k /\ k <= i + m + NgramWords - 1
  BY <1>t
<1> HIDE DEF m
<1>2. /\ i + m \in 1 .. Len(draft) + 1 - NgramWords
      /\ j + m \in 1 .. Len(text) + 1 - NgramWords
      /\ k \in i + m .. i + m + NgramWords - 1
  BY <1>1, <1>t DEF text
<1>3. Copies(text, i + m, j + m, NgramWords)
  <2> SUFFICES ASSUME NEW l \in 0 .. NgramWords - 1
               PROVE  draft[i + m + l] = text[j + m + l]
    BY DEF Copies
  <2>1. m + l \in 0 .. n - 1 /\ i + (m + l) = i + m + l /\ j + (m + l) = j + m + l
    BY <1>1, <1>t
  <2>2. draft[i + (m + l)] = text[j + (m + l)]
    BY <2>1 DEF Copies, text
  <2> QED
    BY <2>1, <2>2
<1> QED
  BY <1>2, <1>3, CoveredMeans DEF text

(***************************************************************************)
(* Passages                                                                *)
(***************************************************************************)

\* A passage that is reported is a maximal run of covered places, and one that
\* is long enough is reported.
LEMMA FindsRuns ==
  ASSUME NEW r \in Ref
  PROVE  /\ \A hit \in FindLeaks : hit.document = r =>
              <<hit.first, hit.last>> \in Runs(Covered(references[r]))
         /\ \A run \in Runs(Covered(references[r])) :
              run[2] + 1 - run[1] >= MinRunWords =>
                [document |-> r, first |-> run[1], last |-> run[2]] \in FindLeaks
<1>1. \A run \in Runs(Covered(references[r])) : run = <<run[1], run[2]>>
  BY DEF Runs
<1>2. ASSUME NEW hit \in FindLeaks, hit.document = r
      PROVE  <<hit.first, hit.last>> \in Runs(Covered(references[r]))
  <2>1. \E run \in Runs(Covered(references[r])) :
          hit = [document |-> r, first |-> run[1], last |-> run[2]]
    BY <1>2 DEF FindLeaks
  <2>2. PICK run \in Runs(Covered(references[r])) :
          hit = [document |-> r, first |-> run[1], last |-> run[2]]
    BY <2>1
  <2>3. hit.first = run[1] /\ hit.last = run[2]
    BY <2>2
  <2> QED
    BY <1>1, <2>3
<1>3. ASSUME NEW run \in Runs(Covered(references[r])), run[2] + 1 - run[1] >= MinRunWords
      PROVE  [document |-> r, first |-> run[1], last |-> run[2]] \in FindLeaks
  BY <1>3 DEF FindLeaks
<1> QED
  BY <1>2, <1>3

\* A run of copied words that is long enough lies within one passage.
LEMMA NothingSlipsThrough ==
  ASSUME TextsInv, NEW r \in Ref,
         NEW i \in 1 .. Len(draft), NEW j \in 1 .. Len(references[r]),
         NEW n \in Nat, n >= MinRunWords,
         i + n - 1 <= Len(draft), j + n - 1 <= Len(references[r]),
         Copies(references[r], i, j, n)
  PROVE  \E hit \in FindLeaks : hit.document = r /\ hit.first <= i /\ i + n - 1 <= hit.last
<1>t. /\ Len(draft) \in Nat /\ n >= NgramWords /\ NgramWords \in Nat \ {0} /\ MinRunWords \in Nat
  BY TextsTyped, ShardAssumption
<1>1. i .. i + n - 1 \subseteq Covered(references[r])
  BY <1>t, CopiesAreCovered
<1>2. Covered(references[r]) \subseteq 1 .. Len(draft)
  BY CoveredInDraft
<1> DEFINE last == i + n - 1
<1>3. last \in 1 .. Len(draft) /\ i <= last
  BY <1>t
<1>4. PICK run \in Runs(Covered(references[r])) : run[1] <= i /\ last <= run[2]
  <2>1. i .. last \subseteq Covered(references[r])
    BY <1>1
  <2> HIDE DEF last
  <2> QED
    BY <1>t, <1>2, <1>3, <2>1, RunAround
<1>5. run[1] \in 1 .. Len(draft) /\ run[2] \in 1 .. Len(draft)
  <2>1. run[1] \in Covered(references[r]) /\ run[2] \in Covered(references[r])
    BY DEF Runs
  <2> QED
    BY <1>2, <2>1
<1>6. run[2] + 1 - run[1] >= MinRunWords
  BY <1>t, <1>4, <1>5
<1>7. [document |-> r, first |-> run[1], last |-> run[2]] \in FindLeaks
  BY <1>6, FindsRuns
<1> QED
  BY <1>4, <1>7

\* Each word of a passage is part of a shard, within the passage, that the draft
\* shares with the document.
LEMMA NothingSharedNothingHeld ==
  ASSUME TextsInv, NEW hit \in FindLeaks, NEW r \in Ref, hit.document = r,
         NEW k \in hit.first .. hit.last
  PROVE  \E i \in hit.first .. k, j \in 1 .. Len(references[r]) :
            /\ k < i + NgramWords /\ i + NgramWords - 1 <= hit.last
            /\ j + NgramWords - 1 <= Len(references[r])
            /\ Copies(references[r], i, j, NgramWords)
<1> DEFINE run == <<hit.first, hit.last>>
           places == Covered(references[r])
<1>t. /\ Len(draft) \in Nat /\ Len(references[r]) \in Nat /\ NgramWords \in Nat \ {0}
  BY TextsTyped, ShardAssumption
<1>1. run \in Runs(places) /\ run[1] = hit.first /\ run[2] = hit.last
  BY FindsRuns
<1>2. k \in places /\ places \subseteq 1 .. Len(draft)
  BY <1>1, CoveredInDraft DEF Runs
<1>3. PICK i \in 1 .. Len(draft) + 1 - NgramWords, j \in 1 .. Len(references[r]) + 1 - NgramWords :
        k \in i .. i + NgramWords - 1 /\ Copies(references[r], i, j, NgramWords)
  BY <1>2, CoveredMeans
<1>4. i .. i + NgramWords - 1 \subseteq places
  BY <1>3, CoveredMeans
<1>5. hit.first \in Nat /\ hit.last \in Nat
  <2>1. run[1] \in places /\ run[2] \in places
    BY <1>1 DEF Runs
  <2>2. run[1] \in 1 .. Len(draft) /\ run[2] \in 1 .. Len(draft)
    BY <1>2, <2>1
  <2> QED
    BY <1>1, <2>2
<1> DEFINE end == i + NgramWords - 1
<1>6. i \in Int /\ end \in Int /\ k \in i .. end /\ i .. end \subseteq places
  BY <1>3, <1>4, <1>t
<1> HIDE DEF run, places, end
<1>7. run[1] <= i /\ end <= run[2]
  BY <1>1, <1>2, <1>6, <1>t, RunHolds
<1>8. hit.first <= i /\ i + NgramWords - 1 <= hit.last
  BY <1>1, <1>7 DEF end
<1>9. i \in hit.first .. k /\ k < i + NgramWords
  BY <1>3, <1>5, <1>8, <1>t
<1>10. j \in 1 .. Len(references[r]) /\ j + NgramWords - 1 <= Len(references[r])
  BY <1>3, <1>t
<1> QED
  BY <1>3, <1>8, <1>9, <1>10

(***************************************************************************)
(* What the gate promises                                                  *)
(***************************************************************************)

LeakInv ==
    /\ TextsInv
    /\ findings \subseteq {FindLeaks}

\* The texts are what they were, and what is found is what there is to find.
LEMMA AlwaysLeakInv == Spec => []LeakInv
<1>1. Init => LeakInv
  <2> SUFFICES ASSUME Init PROVE LeakInv
    OBVIOUS
  <2>1. <<>> \in Text(MaxDraft) /\ <<>> \in Text(MaxReference)
    <3>1. \A limit \in Nat : 0 \in 0 .. limit /\ <<>> \in [1 .. 0 -> Word]
      OBVIOUS
    <3> QED
      BY <3>1, ShardAssumption DEF Text
  <2>2. CASE step = "leaks"
    BY <2>2 DEF Init, LeakInit, LeakInv, TextsInv
  <2>3. CASE step # "leaks"
    BY <2>1, <2>3 DEF Init, LeakInv, TextsInv
  <2> QED
    BY <2>2, <2>3
<1>2. LeakInv /\ [Next]_<<step, knowledgeVars, choiceVars, documentVars, templateVars, leakVars>>
        => LeakInv'
  <2> SUFFICES ASSUME LeakInv, LeakNext \/ UNCHANGED leakVars PROVE LeakInv'
    BY DEF Next
  <2>1. UNCHANGED <<draft, references>>
    BY DEF LeakNext, ReferenceLeakage, leakVars
  <2>2. findings' = {FindLeaks} \/ findings' = findings
    BY DEF LeakNext, ReferenceLeakage, leakVars
  <2>3. FindLeaks' = FindLeaks
    BY <2>1 DEF FindLeaks, Runs, Covered, Ngrams
  <2> QED
    BY <2>1, <2>2, <2>3 DEF LeakInv, TextsInv
<1> QED
  BY <1>1, <1>2, PTL DEF Spec

\* Passages are of the reference documents and within the draft.
THEOREM PassagesAreInTheDraft == Spec => []LeakTypeOK
<1>1. LeakInv => LeakTypeOK
  <2> SUFFICES ASSUME LeakInv, NEW hit \in FindLeaks PROVE hit \in Passage
    BY DEF LeakInv, TextsInv, LeakTypeOK
  <2>0. TextsInv
    BY DEF LeakInv
  <2>1. PICK r \in Ref :
          \E run \in Runs(Covered(references[r])) :
              hit = [document |-> r, first |-> run[1], last |-> run[2]]
    BY DEF FindLeaks
  <2>2. PICK run \in Runs(Covered(references[r])) :
          hit = [document |-> r, first |-> run[1], last |-> run[2]]
    BY <2>1
  <2>3. run[1] \in Covered(references[r]) /\ run[2] \in Covered(references[r])
    BY DEF Runs
  <2>4. run[1] \in 1 .. Len(draft) /\ run[2] \in 1 .. Len(draft)
    BY <2>0, <2>3, CoveredInDraft
  <2>5. 1 .. Len(draft) \subseteq 1 .. MaxDraft
    <3>1. Len(draft) \in Nat /\ Len(draft) <= MaxDraft
      BY <2>0, TextsTyped
    <3> QED
      BY <3>1, ShardAssumption
  <2> QED
    BY <2>2, <2>4, <2>5 DEF Passage
<1> QED
  BY <1>1, AlwaysLeakInv, PTL

\* Whatever the draft copies of a reference and is as long as the limit is
\* within one passage reported for that document, and each word reported is
\* part of a shard the two share (leakage.find_leaks), for texts, shards and
\* limits of every length.
THEOREM CopiesAreReported == Spec => []CopiedRunsReported
<1>1. LeakInv => CopiedRunsReported
  <2> DEFINE Reported(hits, r) ==
               \A i \in 1 .. Len(draft), j \in 1 .. Len(references[r]),
                  n \in MinRunWords .. MaxReference :
                     /\ i + n - 1 <= Len(draft) /\ j + n - 1 <= Len(references[r])
                     /\ Copies(references[r], i, j, n)
                     => \E hit \in hits :
                            hit.document = r /\ hit.first <= i /\ i + n - 1 <= hit.last
             Shared(hits, r) ==
               \A hit \in hits : hit.document = r =>
                  \A k \in hit.first .. hit.last :
                      \E i \in hit.first .. k, j \in 1 .. Len(references[r]) :
                          /\ k < i + NgramWords /\ i + NgramWords - 1 <= hit.last
                          /\ j + NgramWords - 1 <= Len(references[r])
                          /\ Copies(references[r], i, j, NgramWords)
  <2> SUFFICES ASSUME LeakInv, NEW r \in Ref
               PROVE  Reported(FindLeaks, r) /\ Shared(FindLeaks, r)
    BY DEF CopiedRunsReported, LeakInv
  <2>1. TextsInv
    BY DEF LeakInv
  <2>2. \A n \in MinRunWords .. MaxReference : n \in Nat /\ n >= MinRunWords
    BY ShardAssumption
  <2>3. Reported(FindLeaks, r)
    BY <2>1, <2>2, NothingSlipsThrough
  <2>4. Shared(FindLeaks, r)
    BY <2>1, NothingSharedNothingHeld
  <2> QED
    BY <2>3, <2>4
<1> QED
  BY <1>1, AlwaysLeakInv, PTL

(***************************************************************************)
(* Types                                                                   *)
(***************************************************************************)

\* The variables of every step keep their types, whatever sources contribute and
\* whatever the agents decide: recommendations are candidates, the paragraphs printed
\* are numbered by clauses there are, and passages are within the draft.
THEOREM DraftingTyped == Spec => []TypeOK
<1>1. KnowledgeInv => KnowledgeTypeOK
  BY KnowledgeInvHolds
<1>2. ChoiceInv => ChoiceTypeOK
  BY ChoiceInvHolds
<1>3. DocumentInv => DocumentTypeOK
  BY DocumentInvHolds
<1>4. TemplateInv => TemplateTypeOK
  BY TemplateInvHolds
<1>5. KnowledgeTypeOK /\ ChoiceTypeOK /\ DocumentTypeOK /\ TemplateTypeOK /\ LeakTypeOK => TypeOK
  BY DEF TypeOK
<1> QED
  BY <1>1, <1>2, <1>3, <1>4, <1>5, AlwaysKnowledgeInv, AlwaysChoiceInv, AlwaysDocumentInv,
     AlwaysTemplateInv, PassagesAreInTheDraft, PTL
=============================================================================
