---------------------------- MODULE ListsProofs ----------------------------
(* What sorting, keeping, folding and inserting do to lists of every length.       *)
EXTENDS Lists, TLAPS, FiniteSetTheorems, FunctionTheorems, SequenceTheorems,
        WellFoundedInduction

\* Among natural numbers there is a least one.
LEMMA LeastOf ==
  ASSUME NEW T, T \subseteq Nat, T # {}
  PROVE  \E x \in T : \A y \in T : x <= y
<1>1. PICK x \in T : \A y \in T : <<y, x>> \notin OpToRel(<, Nat)
  BY NatLessThanWellFounded, WFMin
<1>2. ASSUME NEW y \in T PROVE x <= y
  <2>1. ~(y < x)
    BY <1>1 DEF OpToRel
  <2> QED
    BY <2>1
<1> QED
  BY <1>2

\* The elements of a sequence, by their places
LEMMA Elements ==
  ASSUME NEW S, NEW s \in Seq(S)
  PROVE  /\ Len(s) \in Nat
         /\ DOMAIN s = 1 .. Len(s)
         /\ \A i \in 1 .. Len(s) : s[i] \in S
OBVIOUS

\* A list is its first element and then the others.
LEMMA HeadThenTail ==
  ASSUME NEW S, NEW s \in Seq(S), s # <<>>
  PROVE  Head(s) = s[1] /\ Tail(s) \in Seq(S) /\ <<Head(s)>> \o Tail(s) = s
OBVIOUS

(***************************************************************************)
(* Sorting                                                                 *)
(***************************************************************************)

\* A strict total order of places
Orders(R, D) ==
    /\ \A i \in D : <<i, i>> \notin R
    /\ \A i, j, k \in D : <<i, j>> \in R /\ <<j, k>> \in R => <<i, k>> \in R
    /\ \A i, j \in D : i = j \/ <<i, j>> \in R \/ <<j, i>> \in R

Ahead(R, D, i) == {j \in D : <<j, i>> \in R}
AllAhead(R, D) == [i \in D |-> Ahead(R, D, i)]

\* The places in the order of how many are ahead
Turns(R, D, n) == [k \in 1 .. n |-> CHOOSE i \in D : Cardinality(Ahead(R, D, i)) = k - 1]

\* The elements of a list taken from these places, one after the other
Taken(list, turns) == [k \in DOMAIN turns |-> list[turns[k]]]

\* If an element's place is one more than the number of those ahead of it, each
\* place is taken once, in order.
LEMMA PlacesTaken ==
  ASSUME NEW D, IsFiniteSet(D), NEW R, Orders(R, D)
  PROVE  /\ [i \in D |-> Cardinality(Ahead(R, D, i)) + 1] \in Bijection(D, 1 .. Cardinality(D))
         /\ \A i \in D : Cardinality(Ahead(R, D, i)) \in Nat
         /\ \A i, j \in D :
              <<i, j>> \in R => Cardinality(Ahead(R, D, i)) < Cardinality(Ahead(R, D, j))
<1> DEFINE n == Cardinality(D)
           place == [i \in D |-> Cardinality(Ahead(R, D, i)) + 1]
<1>f. n \in Nat /\ IsFiniteSet(1 .. n) /\ Cardinality(1 .. n) = n
  BY FS_Interval, FS_CardinalityType
<1>1. ASSUME NEW i \in D
      PROVE  /\ IsFiniteSet(Ahead(R, D, i))
             /\ Cardinality(Ahead(R, D, i)) \in Nat
             /\ Cardinality(Ahead(R, D, i)) < n
  <2>1. Ahead(R, D, i) \in SUBSET (D \ {i})
    BY DEF Ahead, Orders
  <2>2. IsFiniteSet(D \ {i}) /\ Cardinality(D \ {i}) = n - 1
    BY FS_RemoveElement
  <2>3. /\ IsFiniteSet(Ahead(R, D, i))
        /\ Cardinality(Ahead(R, D, i)) <= n - 1
    BY <2>1, <2>2, FS_Subset
  <2>4. Cardinality(Ahead(R, D, i)) \in Nat
    BY <2>3, FS_CardinalityType
  <2> HIDE DEF n
  <2> QED
    BY <1>f, <2>3, <2>4
<1>2. ASSUME NEW i \in D, NEW j \in D, <<i, j>> \in R
      PROVE  Cardinality(Ahead(R, D, i)) < Cardinality(Ahead(R, D, j))
  <2>1. Ahead(R, D, i) \in SUBSET Ahead(R, D, j)
    BY <1>2 DEF Ahead, Orders
  <2>2. i \in Ahead(R, D, j) /\ i \notin Ahead(R, D, i)
    BY <1>2 DEF Ahead, Orders
  <2>3. /\ Cardinality(Ahead(R, D, i)) <= Cardinality(Ahead(R, D, j))
        /\ Cardinality(Ahead(R, D, j)) # Cardinality(Ahead(R, D, i))
    BY <1>1, <2>1, <2>2, FS_Subset
  <2> QED
    BY <1>1, <2>3
<1> HIDE DEF n
<1>3. place \in [D -> 1 .. n]
  BY <1>1, <1>f
<1>4. ASSUME NEW i \in D, NEW j \in D, place[i] = place[j]
      PROVE  i = j
  <2>1. Cardinality(Ahead(R, D, i)) = Cardinality(Ahead(R, D, j))
    BY <1>1, <1>4
  <2>2. <<i, j>> \notin R /\ <<j, i>> \notin R
    BY <1>1, <1>2, <2>1
  <2> QED
    BY <2>2 DEF Orders
<1> HIDE DEF place
<1>5. place \in Injection(D, 1 .. n)
  BY <1>3, <1>4, Fun_IsInj
<1>6. place \in Surjection(D, 1 .. n)
  BY <1>f, <1>5, FS_Injection DEF n
<1>7. place \in Bijection(D, 1 .. n)
  BY <1>5, <1>6 DEF Bijection
<1> QED
  BY <1>1, <1>2, <1>7 DEF place, n

\* Whoever has so many ahead is found, so taking them in turn takes each once.
LEMMA TakesEach ==
  ASSUME NEW D, IsFiniteSet(D), NEW n, n = Cardinality(D), NEW R, Orders(R, D)
  PROVE  /\ Turns(R, D, n) \in Bijection(1 .. n, D)
         /\ \A j, k \in 1 .. n : j < k => <<Turns(R, D, n)[j], Turns(R, D, n)[k]>> \in R
<1> DEFINE place == [i \in D |-> Cardinality(Ahead(R, D, i)) + 1]
           taking == Turns(R, D, n)
<1>n. n \in Nat
  BY FS_CardinalityType
<1>1. place \in Bijection(D, 1 .. n)
  BY PlacesTaken
<1> HIDE DEF place
<1>2. /\ place \in [D -> 1 .. n]
      /\ \A i, j \in D : place[i] = place[j] => i = j
      /\ \A k \in 1 .. n : \E i \in D : place[i] = k
  <2> DEFINE T == 1 .. n
  <2>1. place \in Bijection(D, T)
    BY <1>1
  <2> HIDE DEF T
  <2>2. /\ place \in [D -> T]
        /\ \A i, j \in D : place[i] = place[j] => i = j
        /\ \A k \in T : \E i \in D : place[i] = k
    BY <2>1, Fun_BijectionProperties
  <2> QED
    BY <2>2 DEF T
<1>3. \A i \in D : Cardinality(Ahead(R, D, i)) \in Nat
  BY PlacesTaken
<1>4. \A i \in D, k \in 1 .. n : Cardinality(Ahead(R, D, i)) = k - 1 <=> place[i] = k
  BY <1>3, <1>n DEF place
<1>5. ASSUME NEW k \in 1 .. n
      PROVE  taking[k] \in D /\ place[taking[k]] = k
  <2>1. \E i \in D : Cardinality(Ahead(R, D, i)) = k - 1
    BY <1>2, <1>4
  <2>2. taking[k] \in D /\ Cardinality(Ahead(R, D, taking[k])) = k - 1
    BY <2>1 DEF Turns
  <2> QED
    BY <1>4, <2>2
<1>6. \A i, j \in D : <<i, j>> \in R => place[i] < place[j]
  <2>1. \A i, j \in D :
          <<i, j>> \in R => Cardinality(Ahead(R, D, i)) < Cardinality(Ahead(R, D, j))
    BY PlacesTaken
  <2> QED
    BY <1>3, <2>1 DEF place
<1>7. taking \in [1 .. n -> D]
  <2>1. taking = [k \in 1 .. n |-> taking[k]]
    BY DEF Turns
  <2> HIDE DEF taking
  <2> QED
    BY <1>5, <2>1
<1> HIDE DEF taking
<1>8. taking \in Injection(1 .. n, D)
  BY <1>5, <1>7, Fun_IsInj
<1>9. taking \in Surjection(1 .. n, D)
  <2>1. \A i \in D : taking[place[i]] = i
    BY <1>2, <1>5
  <2> QED
    BY <1>2, <1>7, <2>1, Fun_IsSurj
<1>10. ASSUME NEW j \in 1 .. n, NEW k \in 1 .. n, j < k
       PROVE  <<taking[j], taking[k]>> \in R
  <2>1. taking[j] # taking[k] /\ taking[j] \in D /\ taking[k] \in D
    BY <1>5, <1>10
  <2>2. CASE <<taking[k], taking[j]>> \in R
    <3>1. k < j
      BY <1>5, <1>6, <2>1, <2>2
    <3> QED
      BY <1>n, <1>10, <3>1
  <2> QED
    BY <2>1, <2>2 DEF Orders
<1> QED
  BY <1>8, <1>9, <1>10 DEF Bijection, taking

\* An arrangement takes each element once, in order.
LEMMA Arranging ==
  ASSUME NEW D, IsFiniteSet(D), NEW n, n = Cardinality(D), NEW R, Orders(R, D), NEW list
  PROVE  \E turns \in Bijection(1 .. n, D) :
            /\ Arranged(list, AllAhead(R, D)) = Taken(list, turns)
            /\ \A j, k \in 1 .. n : j < k => <<turns[j], turns[k]>> \in R
<1> DEFINE ahead == AllAhead(R, D)
           turns == Turns(R, D, n)
<1>1. /\ turns \in Bijection(1 .. n, D)
      /\ \A j, k \in 1 .. n : j < k => <<turns[j], turns[k]>> \in R
  BY TakesEach
<1>2. \A k \in 1 .. n : (CHOOSE i \in D : Cardinality(ahead[i]) = k - 1) = turns[k]
  <2> SUFFICES ASSUME NEW k \in 1 .. n
               PROVE  (CHOOSE i \in D : Cardinality(ahead[i]) = k - 1)
                        = (CHOOSE i \in D : Cardinality(Ahead(R, D, i)) = k - 1)
    BY DEF Turns
  <2>1. \A i : (i \in D /\ Cardinality(ahead[i]) = k - 1)
                  <=> (i \in D /\ Cardinality(Ahead(R, D, i)) = k - 1)
    BY DEF AllAhead
  <2>2. (CHOOSE i : i \in D /\ Cardinality(ahead[i]) = k - 1)
          = (CHOOSE i : i \in D /\ Cardinality(Ahead(R, D, i)) = k - 1)
    BY <2>1
  <2> QED
    BY <2>2
<1>3. DOMAIN ahead = D /\ DOMAIN turns = 1 .. n
  BY DEF AllAhead, Turns
<1>4. Arranged(list, ahead) =
        [k \in 1 .. n |-> list[CHOOSE i \in D : Cardinality(ahead[i]) = k - 1]]
  BY <1>3 DEF Arranged
<1> HIDE DEF turns, ahead
<1>5. Arranged(list, ahead) = [k \in 1 .. n |-> list[turns[k]]]
  BY <1>2, <1>4
<1> QED
  BY <1>1, <1>3, <1>5 DEF Taken, turns, ahead

\* The elements kept are those at the places, in the order of the list.
LEMMA Keeping ==
  ASSUME NEW list, NEW places \in SUBSET Int, IsFiniteSet(places),
         NEW n, n = Cardinality(places)
  PROVE  \E turns \in Bijection(1 .. n, places) :
            /\ Kept(list, places) = Taken(list, turns)
            /\ \A j, k \in 1 .. n : j < k => turns[j] < turns[k]
<1> DEFINE R == {pair \in places \X places : pair[1] < pair[2]}
<1>1. \A i, j \in places : <<i, j>> \in R <=> i < j
  OBVIOUS
<1> HIDE DEF R
<1>2. Orders(R, places)
  BY <1>1 DEF Orders
<1>3. [i \in places |-> {j \in places : j < i}] = AllAhead(R, places)
  BY <1>1 DEF Ahead, AllAhead
<1>4. Kept(list, places) = Arranged(list, AllAhead(R, places))
  BY <1>3 DEF Kept
<1>5. PICK turns \in Bijection(1 .. n, places) :
        /\ Arranged(list, AllAhead(R, places)) = Taken(list, turns)
        /\ \A j, k \in 1 .. n : j < k => <<turns[j], turns[k]>> \in R
  BY <1>2, Arranging
<1>6. \A k \in 1 .. n : turns[k] \in places
  BY DEF Bijection, Injection
<1>7. \A j, k \in 1 .. n : j < k => turns[j] < turns[k]
  BY <1>1, <1>5, <1>6
<1> QED
  BY <1>4, <1>5, <1>7

\* W puts the elements of a list in order, up to ties.
Ranked(list, W, n) ==
    /\ \A i \in 1 .. n : <<list[i], list[i]>> \notin W
    /\ \A i, j, k \in 1 .. n :
         /\ (<<list[i], list[j]>> \in W /\ <<list[j], list[k]>> \in W
               => <<list[i], list[k]>> \in W)
         /\ (<<list[i], list[k]>> \in W
               => <<list[i], list[j]>> \in W \/ <<list[j], list[k]>> \in W)

\* What sorted() returns: the same elements, each once, by rank and, among equals,
\* in the order they came in.
LEMMA Sorting ==
  ASSUME NEW n \in Nat, NEW s, DOMAIN s = 1 .. n, NEW W, Ranked(s, W, n),
         NEW ahead,
         ahead = [i \in 1 .. n |->
                    {j \in 1 .. n : <<s[j], s[i]>> \in W \/ (j < i /\ <<s[i], s[j]>> \notin W)}]
  PROVE  \E turns \in Bijection(1 .. n, 1 .. n) :
            /\ Arranged(s, ahead) = Taken(s, turns)
            /\ \A j, k \in 1 .. n : j < k =>
                 \/ <<s[turns[j]], s[turns[k]]>> \in W
                 \/ (turns[j] < turns[k] /\ <<s[turns[k]], s[turns[j]]>> \notin W)
<1> DEFINE D == 1 .. n
           First(i, j) == <<s[i], s[j]>> \in W \/ (i < j /\ <<s[j], s[i]>> \notin W)
           R == {pair \in D \X D : First(pair[1], pair[2])}
<1>n. D \subseteq Nat
  OBVIOUS
<1>d. D = 1 .. n
  OBVIOUS
<1>e. IsFiniteSet(D) /\ Cardinality(D) = n
  BY FS_Interval
<1> HIDE DEF D
<1>1. \A i, j \in D : <<i, j>> \in R <=> First(i, j)
  <2> HIDE DEF First
  <2> QED
    OBVIOUS
<1> HIDE DEF R
<1>2. Orders(R, D)
  <2>1. \A i \in D : <<i, i>> \notin R
    <3> SUFFICES ASSUME NEW i \in D PROVE ~First(i, i)
      BY <1>1
    <3>1. <<s[i], s[i]>> \notin W
      BY <1>d DEF Ranked
    <3>2. ~(i < i)
      BY <1>n
    <3> QED
      BY <3>1, <3>2
  <2>2. ASSUME NEW i \in D, NEW j \in D, NEW k \in D, <<i, j>> \in R, <<j, k>> \in R
        PROVE  <<i, k>> \in R
    <3>1. First(i, j) /\ First(j, k)
      BY <1>1, <2>2
    <3>2. /\ <<s[i], s[j]>> \in W /\ <<s[j], s[k]>> \in W => <<s[i], s[k]>> \in W
          /\ <<s[k], s[i]>> \in W => <<s[k], s[j]>> \in W \/ <<s[j], s[i]>> \in W
          /\ <<s[i], s[j]>> \in W => <<s[i], s[k]>> \in W \/ <<s[k], s[j]>> \in W
          /\ <<s[j], s[k]>> \in W => <<s[j], s[i]>> \in W \/ <<s[i], s[k]>> \in W
      BY <1>d DEF Ranked
    <3>3. i < j /\ j < k => i < k
      BY <1>n
    <3>4. ~(<<s[j], s[i]>> \in W /\ <<s[i], s[j]>> \in W)
      BY <1>d DEF Ranked
    <3>5. ~(<<s[j], s[k]>> \in W /\ <<s[k], s[j]>> \in W)
      BY <1>d DEF Ranked
    <3>6. First(i, k)
      BY <3>1, <3>2, <3>3, <3>4, <3>5
    <3> QED
      BY <1>1, <3>6
  <2>3. ASSUME NEW i \in D, NEW j \in D, i # j
        PROVE  <<i, j>> \in R \/ <<j, i>> \in R
    <3>1. i < j \/ j < i
      BY <1>n, <2>3
    <3>2. First(i, j) \/ First(j, i)
      <4>1. CASE i < j
        BY <4>1
      <4>2. CASE j < i
        BY <4>2
      <4> QED
        BY <3>1, <4>1, <4>2
    <3> QED
      BY <1>1, <3>2
  <2> QED
    BY <1>d, <2>1, <2>2, <2>3 DEF Orders
<1>3. ahead = AllAhead(R, D)
  BY <1>1, <1>d DEF Ahead, AllAhead
<1>4. PICK turns \in Bijection(1 .. n, D) :
        /\ Arranged(s, AllAhead(R, D)) = Taken(s, turns)
        /\ \A j, k \in 1 .. n : j < k => <<turns[j], turns[k]>> \in R
  BY <1>2, <1>e, Arranging
<1>5. \A k \in D : turns[k] \in D
  BY <1>d DEF Bijection, Injection
<1>6. ASSUME NEW j \in D, NEW k \in D, j < k
      PROVE  First(turns[j], turns[k])
  <2>1. turns[j] \in D /\ turns[k] \in D
    BY <1>5
  <2>2. <<turns[j], turns[k]>> \in R
    BY <1>4, <1>6, <1>d
  <2> QED
    BY <1>1, <2>1, <2>2
<1> QED
  BY <1>3, <1>4, <1>6, <1>d

\* A finite set as a list: each element once
LEMMA SetList ==
  ASSUME NEW S, IsFiniteSet(S)
  PROVE  /\ SetToSeq(S) \in Seq(S)
         /\ Len(SetToSeq(S)) = Cardinality(S)
         /\ SetToSeq(S) \in Bijection(1 .. Cardinality(S), S)
<1> DEFINE n == Cardinality(S)
<1>1. n \in Nat /\ ExistsBijection(1 .. n, S)
  BY FS_CardinalityType
<1>2. IsFiniteSet(1 .. n) /\ Cardinality(1 .. n) = n
  BY <1>1, FS_Interval
<1> HIDE DEF n
<1>3. \E f \in [1 .. n -> S] : IsInjective(f)
  BY <1>1 DEF ExistsBijection, Bijection, Injection
<1>4. SetToSeq(S) \in [1 .. n -> S] /\ IsInjective(SetToSeq(S))
  BY <1>3 DEF SetToSeq, n
<1> DEFINE list == SetToSeq(S)
<1> HIDE DEF list
<1>5. list \in Injection(1 .. n, S)
  BY <1>4 DEF list, Injection
<1>6. list \in Surjection(1 .. n, S)
  BY <1>2, <1>5, FS_Injection DEF n
<1>7. list \in Bijection(1 .. n, S)
  BY <1>5, <1>6 DEF Bijection
<1>8. list \in Seq(S) /\ Len(list) = n
  <2>1. list \in [1 .. n -> S]
    BY <1>4 DEF list
  <2> QED
    BY <1>1, <2>1
<1> QED
  BY <1>7, <1>8 DEF list, n

(***************************************************************************)
(* Counting                                                                *)
(***************************************************************************)

\* Which turns come to some of the places
TurnsAt(turns, n, places) == {k \in 1 .. n : turns[k] \in places}

\* There are as many of them as of these places.
LEMMA TakenOnce ==
  ASSUME NEW n \in Nat, NEW D, NEW turns \in Bijection(1 .. n, D), NEW A \in SUBSET D
  PROVE  /\ IsFiniteSet(TurnsAt(turns, n, A)) /\ IsFiniteSet(A)
         /\ Cardinality(TurnsAt(turns, n, A)) = Cardinality(A)
<1> DEFINE N == 1 .. n
           taken == {k \in N : turns[k] \in A}
           f == [k \in taken |-> turns[k]]
<1>n. turns \in Bijection(N, D) /\ IsFiniteSet(N)
  BY FS_Interval
<1> HIDE DEF N
<1>1. /\ turns \in [N -> D]
      /\ \A j, k \in N : turns[j] = turns[k] => j = k
      /\ \A i \in D : \E k \in N : turns[k] = i
  BY <1>n, Fun_BijectionProperties
<1>2. f \in [taken -> A] /\ \A j, k \in taken : f[j] = f[k] => j = k
  BY <1>1
<1>3. \A i \in A : \E k \in taken : f[k] = i
  BY <1>1
<1> HIDE DEF f, taken
<1>4. f \in Bijection(taken, A)
  BY <1>2, <1>3, Fun_IsBij
<1>5. IsFiniteSet(taken)
  BY <1>n, FS_Subset DEF taken
<1>6. ExistsBijection(taken, A)
  BY <1>4 DEF ExistsBijection
<1>7. IsFiniteSet(A) /\ Cardinality(A) = Cardinality(taken)
  BY <1>5, <1>6, FS_Bijection
<1> QED
  BY <1>5, <1>7 DEF taken, N, TurnsAt

\* How often a list has an element at some of its places
Among(list, places, e) == Cardinality({i \in places : list[i] = e})

\* What is taken has each element as often as the places have.
LEMMA TakenCounts ==
  ASSUME NEW n \in Nat, NEW D, NEW turns \in Bijection(1 .. n, D), NEW list, NEW e
  PROVE  Among(Taken(list, turns), DOMAIN Taken(list, turns), e) = Among(list, D, e)
<1> DEFINE A == {i \in D : list[i] = e}
<1>1. turns \in [1 .. n -> D]
  BY DEF Bijection, Injection
<1>2. {k \in DOMAIN Taken(list, turns) : Taken(list, turns)[k] = e}
        = TurnsAt(turns, n, A)
  BY <1>1 DEF Taken, TurnsAt
<1>3. A \in SUBSET D
  OBVIOUS
<1> HIDE DEF A
<1>4. Cardinality(TurnsAt(turns, n, A)) = Cardinality(A)
  BY <1>3, TakenOnce
<1> QED
  BY <1>2, <1>4 DEF A, Among

(***************************************************************************)
(* Repeating                                                               *)
(***************************************************************************)

\* What holds at first, and after each step if it did before, always holds.
LEMMA Upwards ==
  ASSUME NEW n \in Nat, NEW S, 0 \in S, \A k \in 1 .. n : k - 1 \in S => k \in S
  PROVE  \A k \in 0 .. n : k \in S
<1> SUFFICES ASSUME NEW m \in 0 .. n, m \notin S PROVE FALSE
  OBVIOUS
<1> DEFINE T == {k \in 0 .. n : k \notin S}
<1>1. T \subseteq Nat /\ m \in T
  OBVIOUS
<1>2. PICK k \in T : \A j \in T : k <= j
  BY <1>1, LeastOf
<1>3. k \in 1 .. n /\ k - 1 \in 0 .. n
  OBVIOUS
<1>4. k - 1 \notin T
  BY <1>2, <1>3
<1> QED
  BY <1>3, <1>4

\* A list's elements, reordered, are elements of the same set.
LEMMA TakenList ==
  ASSUME NEW S, NEW s \in Seq(S), NEW turns \in Bijection(1 .. Len(s), 1 .. Len(s))
  PROVE  /\ Taken(s, turns) \in Seq(S)
         /\ Len(Taken(s, turns)) = Len(s)
         /\ DOMAIN Taken(s, turns) = 1 .. Len(s)
         /\ \A k \in 1 .. Len(s) : turns[k] \in 1 .. Len(s) /\ Taken(s, turns)[k] = s[turns[k]]
<1> DEFINE n == Len(s)
<1>1. n \in Nat /\ \A i \in 1 .. n : s[i] \in S
  BY Elements
<1>2. turns \in [1 .. n -> 1 .. n]
  BY DEF Bijection, Injection
<1> HIDE DEF n
<1>3. Taken(s, turns) = [k \in 1 .. n |-> s[turns[k]]]
  BY <1>2 DEF Taken
<1>4. Taken(s, turns) \in [1 .. n -> S]
  BY <1>1, <1>2, <1>3
<1>5. Taken(s, turns) \in Seq(S) /\ Len(Taken(s, turns)) = n
  BY <1>1, <1>4
<1> QED
  BY <1>2, <1>3, <1>5 DEF n

\* What there is after each step of a loop over 1 .. n
Loop(g, n, T, base, f) ==
    /\ g \in [0 .. n -> T]
    /\ g[0] = base
    /\ \A k \in 1 .. n : g[k] = f[<<g[k - 1], k>>]

\* A loop has a result after each of its steps.
LEMMA Looping ==
  ASSUME NEW n \in Nat, NEW T, NEW base \in T, NEW f \in [T \X (1 .. n) -> T]
  PROVE  \E g : Loop(g, n, T, base, f)
<1> DEFINE Good(m) == \E g \in [0 .. m -> T] :
                          g[0] = base /\ \A k \in 1 .. m : g[k] = f[<<g[k - 1], k>>]
           S == {m \in 0 .. n : Good(m)}
<1>g. \A m \in 0 .. n : m \in S <=> Good(m)
  <2> HIDE DEF Good
  <2> QED
    OBVIOUS
<1> HIDE DEF S
<1>1. 0 \in S
  <2> DEFINE g == [k \in 0 .. 0 |-> base]
  <2>1. g \in [0 .. 0 -> T] /\ g[0] = base /\ 1 .. 0 = {}
    OBVIOUS
  <2> HIDE DEF g
  <2>2. Good(0)
    BY <2>1
  <2> HIDE DEF Good
  <2> QED
    BY <1>g, <2>2
<1>2. ASSUME NEW m \in 1 .. n, m - 1 \in S
      PROVE  m \in S
  <2>1. PICK g \in [0 .. m - 1 -> T] :
          g[0] = base /\ \A k \in 1 .. m - 1 : g[k] = f[<<g[k - 1], k>>]
    <3>1. Good(m - 1)
      <4>1. m - 1 \in 0 .. n
        OBVIOUS
      <4> HIDE DEF Good
      <4> QED
        BY <1>g, <1>2, <4>1
    <3> QED
      BY <3>1
  <2> DEFINE h == [k \in 0 .. m |-> IF k = m THEN f[<<g[m - 1], m>>] ELSE g[k]]
  <2>2. g[m - 1] \in T
    BY <2>1
  <2>3. h \in [0 .. m -> T]
    BY <2>1, <2>2
  <2>4. h[0] = base
    BY <2>1
  <2>5. \A k \in 1 .. m : h[k] = f[<<h[k - 1], k>>]
    BY <2>1
  <2>6. Good(m)
    BY <2>3, <2>4, <2>5
  <2> HIDE DEF Good
  <2> QED
    BY <1>g, <2>6
<1>3. n \in S
  BY <1>1, <1>2, Upwards
<1>4. n \in 0 .. n
  OBVIOUS
<1>5. Good(n)
  <2> HIDE DEF Good
  <2> QED
    BY <1>g, <1>3, <1>4
<1> QED
  BY <1>5 DEF Loop

\* The greatest of the first numbers, and those without it
LEMMA Greatest ==
  \A k \in Nat \ {0} : Max(1 .. k) = k /\ (1 .. k) \ {k} = 1 .. k - 1
<1> SUFFICES ASSUME NEW k \in Nat \ {0}
             PROVE  Max(1 .. k) = k /\ (1 .. k) \ {k} = 1 .. k - 1
  OBVIOUS
<1>1. k \in 1 .. k /\ \A y \in 1 .. k : k >= y
  OBVIOUS
<1>2. \A x \in 1 .. k : (\A y \in 1 .. k : x >= y) => x = k
  OBVIOUS
<1>3. Max(1 .. k) = k
  BY <1>1, <1>2 DEF Max
<1> QED
  BY <1>3

\* Lists of one and of two, and lists joined
LEMMA SmallLists ==
  ASSUME NEW S, NEW e \in S, NEW f \in S
  PROVE  <<>> \in Seq(S) /\ <<e>> \in Seq(S) /\ <<e, f>> \in Seq(S) /\ Len(<<e>>) = 1
OBVIOUS

\* Joining keeps the type and adds the lengths.
LEMMA Joined ==
  ASSUME NEW S, NEW s \in Seq(S), NEW t \in Seq(S)
  PROVE  s \o t \in Seq(S) /\ Len(s \o t) = Len(s) + Len(t)
BY ConcatProperties

\* The elements of both lists are where they were, the second's after the first's.
LEMMA JoinedElements ==
  ASSUME NEW S, NEW s \in Seq(S), NEW t \in Seq(S)
  PROVE  /\ \A k \in 1 .. Len(s) : (s \o t)[k] = s[k]
         /\ \A k \in 1 .. Len(t) : (s \o t)[Len(s) + k] = t[k]
BY ConcatProperties

\* Joining, as one operator
Joint(s, t) == s \o t

\* In what order lists are joined makes no difference.
LEMMA JoinedThree ==
  ASSUME NEW S
  PROVE  /\ \A a, b, c \in Seq(S) : Joint(Joint(a, b), c) = Joint(a, Joint(b, c))
         /\ \A a, b \in Seq(S) : Joint(a, b) \in Seq(S)
<1>1. \A a, b, c \in Seq(S) : (a \o b) \o c = a \o (b \o c)
  BY ConcatAssociative
<1>2. \A a, b \in Seq(S) : a \o b \in Seq(S)
  BY Joined
<1> QED
  BY <1>1, <1>2 DEF Joint

\* Nor does it with four of them.
LEMMA JoinedFour ==
  ASSUME NEW S, NEW a \in Seq(S), NEW b \in Seq(S), NEW c \in Seq(S), NEW d \in Seq(S)
  PROVE  Joint(a, Joint(b, Joint(c, d))) = Joint(Joint(Joint(a, b), c), d)
<1>1. Joint(a, b) \in Seq(S) /\ Joint(c, d) \in Seq(S)
  BY JoinedThree
<1>2. Joint(a, Joint(b, Joint(c, d))) = Joint(Joint(a, b), Joint(c, d))
  BY <1>1, JoinedThree
<1>3. Joint(Joint(a, b), Joint(c, d)) = Joint(Joint(Joint(a, b), c), d)
  BY <1>1, JoinedThree
<1> QED
  BY <1>2, <1>3

\* The greatest of some of the first numbers is one of them.
LEMMA GreatestIn ==
  ASSUME NEW n \in Nat, NEW T \in SUBSET (1 .. n), T # {}
  PROVE  Max(T) \in T /\ \A y \in T : y <= Max(T)
<1> DEFINE distances == {n - y : y \in T}
<1>1. distances \subseteq Nat /\ distances # {}
  <2>1. \A y \in T : n - y \in Nat
    OBVIOUS
  <2> QED
    BY <2>1
<1>2. PICK d \in distances : \A other \in distances : d <= other
  BY <1>1, LeastOf
<1>3. PICK x \in T : d = n - x
  BY <1>2
<1>4. ASSUME NEW y \in T PROVE x >= y
  <2>1. n - x <= n - y
    BY <1>2, <1>3
  <2>2. x \in 1 .. n /\ y \in 1 .. n
    OBVIOUS
  <2> QED
    BY <2>1, <2>2
<1>5. Max(T) \in T /\ \A y \in T : Max(T) >= y
  BY <1>4 DEF Max
<1>6. \A y \in T : y \in Nat
  OBVIOUS
<1> QED
  BY <1>5, <1>6

\* FoldLeft's recursion over sets of places
Fold(g, n, T, base, f) ==
    /\ g \in [SUBSET (1 .. n) -> T]
    /\ \A s \in SUBSET (1 .. n) :
         g[s] = IF s = {} THEN base ELSE f[<<g[s \ {Max(s)}], Max(s)>>]

\* It is defined.
LEMMA Folding ==
  ASSUME NEW n \in Nat, NEW T, NEW base \in T, NEW f \in [T \X (1 .. n) -> T]
  PROVE  \E g : Fold(g, n, T, base, f)
<1> DEFINE Good(m) == \E g \in [SUBSET (1 .. m) -> T] : \A s \in SUBSET (1 .. m) :
                          g[s] = IF s = {} THEN base ELSE f[<<g[s \ {Max(s)}], Max(s)>>]
           S == {m \in 0 .. n : Good(m)}
<1>g. \A m \in 0 .. n : m \in S <=> Good(m)
  <2> HIDE DEF Good
  <2> QED
    OBVIOUS
<1> HIDE DEF S
<1>1. 0 \in S
  <2> DEFINE g == [s \in SUBSET (1 .. 0) |-> base]
  <2>1. SUBSET (1 .. 0) = {{}}
    OBVIOUS
  <2>2. g \in [SUBSET (1 .. 0) -> T] /\ \A s \in SUBSET (1 .. 0) : s = {} /\ g[s] = base
    BY <2>1
  <2> HIDE DEF g
  <2>3. Good(0)
    BY <2>2
  <2> HIDE DEF Good
  <2> QED
    BY <1>g, <2>3
<1>2. ASSUME NEW m \in 1 .. n, m - 1 \in S
      PROVE  m \in S
  <2>1. PICK g \in [SUBSET (1 .. m - 1) -> T] : \A s \in SUBSET (1 .. m - 1) :
          g[s] = IF s = {} THEN base ELSE f[<<g[s \ {Max(s)}], Max(s)>>]
    <3>1. Good(m - 1)
      <4>1. m - 1 \in 0 .. n
        OBVIOUS
      <4> HIDE DEF Good
      <4> QED
        BY <1>g, <1>2, <4>1
    <3> QED
      BY <3>1
  <2> DEFINE h == [s \in SUBSET (1 .. m) |->
                      IF m \in s THEN f[<<g[s \ {m}], m>>] ELSE g[s]]
  <2>2. \A s \in SUBSET (1 .. m) :
          /\ m \in s => s \ {m} \in SUBSET (1 .. m - 1)
          /\ m \notin s => s \in SUBSET (1 .. m - 1)
    OBVIOUS
  <2>3. h \in [SUBSET (1 .. m) -> T]
    BY <2>1, <2>2
  <2>4. ASSUME NEW s \in SUBSET (1 .. m)
        PROVE  h[s] = IF s = {} THEN base ELSE f[<<h[s \ {Max(s)}], Max(s)>>]
    <3>1. CASE m \in s
      <4>1. Max(s) = m
        <5>1. \A y \in s : y \in Nat /\ m >= y
          OBVIOUS
        <5>2. \A x \in s : (\A y \in s : x >= y) => x = m
          BY <3>1, <5>1
        <5> QED
          BY <3>1, <5>1, <5>2 DEF Max
      <4>2. h[s \ {m}] = g[s \ {m}]
        BY <2>2
      <4> QED
        BY <3>1, <4>1, <4>2
    <3>2. CASE m \notin s
      <4>1. h[s] = g[s] /\ h[s \ {Max(s)}] = g[s \ {Max(s)}]
        BY <3>2
      <4> QED
        BY <2>1, <2>2, <3>2, <4>1
    <3> QED
      BY <3>1, <3>2
  <2> HIDE DEF h
  <2>5. Good(m)
    BY <2>3, <2>4
  <2> HIDE DEF Good
  <2> QED
    BY <1>g, <2>5
<1>3. n \in S
  BY <1>1, <1>2, Upwards
<1>4. n \in 0 .. n
  OBVIOUS
<1>5. Good(n)
  <2> HIDE DEF Good
  <2> QED
    BY <1>g, <1>3, <1>4
<1> QED
  BY <1>5 DEF Fold

\* The first lists, one after the other
Flat(flat, seqs, S) ==
    /\ flat \in [0 .. Len(seqs) -> Seq(S)]
    /\ flat[0] = <<>>
    /\ \A k \in 1 .. Len(seqs) : flat[k] = flat[k - 1] \o seqs[k]

\* FlattenSeq puts the lists one after the other.
LEMMA Flattening ==
  ASSUME NEW S, NEW seqs \in Seq(Seq(S))
  PROVE  \E flat : Flat(flat, seqs, S) /\ FlattenSeq(seqs) = flat[Len(seqs)]
<1> DEFINE n == Len(seqs)
           T == Seq(S)
<1>n. n \in Nat /\ \A k \in 1 .. n : seqs[k] \in T
  OBVIOUS
<1>t. <<>> \in T /\ \A s, t \in T : s \o t \in T
  OBVIOUS
<1>e. n = 0 => seqs = <<>>
  OBVIOUS
<1>i. \A t \in T : <<>> \o t = t
  BY ConcatEmptySeq
<1> DEFINE step == [p \in T \X (1 .. n) |-> p[1] \o seqs[p[2]]]
           flatten == CHOOSE g : g = [i \in 1 .. n |->
                                        IF i = 1 THEN seqs[i] ELSE g[i - 1] \o seqs[i]]
<1>1. FlattenSeq(seqs) = IF n = 0 THEN seqs ELSE flatten[n]
  BY DEF FlattenSeq
<1> HIDE DEF n, T
<1>2. step \in [T \X (1 .. n) -> T]
  BY <1>n, <1>t
<1>3. \A t \in T, k \in 1 .. n : step[<<t, k>>] = t \o seqs[k]
  OBVIOUS
<1> HIDE DEF step
<1>4. PICK flat \in [0 .. n -> T] :
        flat[0] = <<>> /\ \A k \in 1 .. n : flat[k] = step[<<flat[k - 1], k>>]
  <2>1. \E g : Loop(g, n, T, <<>>, step)
    <3>1. n \in Nat /\ <<>> \in T
      BY <1>n, <1>t
    <3> QED
      BY <1>2, <3>1, Looping
  <2> QED
    BY <2>1 DEF Loop
<1>5. \A k \in 1 .. n : k - 1 \in 0 .. n /\ flat[k] = flat[k - 1] \o seqs[k]
  <2> SUFFICES ASSUME NEW k \in 1 .. n
               PROVE  k - 1 \in 0 .. n /\ flat[k] = flat[k - 1] \o seqs[k]
    OBVIOUS
  <2>1. k - 1 \in 0 .. n
    BY <1>n
  <2>2. flat[k - 1] \in T
    BY <2>1
  <2>3. step[<<flat[k - 1], k>>] = flat[k - 1] \o seqs[k]
    BY <1>3, <2>2
  <2> QED
    BY <1>4, <2>1, <2>3
<1>6. flatten = [i \in 1 .. n |-> IF i = 1 THEN seqs[i] ELSE flatten[i - 1] \o seqs[i]]
  <2> DEFINE g == [i \in 1 .. n |-> flat[i]]
  <2>1. \A i \in 1 .. n : g[i] = IF i = 1 THEN seqs[i] ELSE g[i - 1] \o seqs[i]
    <3> SUFFICES ASSUME NEW i \in 1 .. n
                 PROVE  g[i] = IF i = 1 THEN seqs[i] ELSE g[i - 1] \o seqs[i]
      OBVIOUS
    <3>1. CASE i = 1
      BY <1>i, <1>n, <1>4, <1>5, <3>1
    <3>2. CASE i # 1
      <4>1. i - 1 \in 1 .. n
        BY <1>n, <3>2
      <4> QED
        BY <1>5, <3>2, <4>1
    <3> QED
      BY <3>1, <3>2
  <2>2. g = [i \in 1 .. n |-> g[i]]
    OBVIOUS
  <2> HIDE DEF g
  <2>3. g = [i \in 1 .. n |-> IF i = 1 THEN seqs[i] ELSE g[i - 1] \o seqs[i]]
    BY <2>1, <2>2
  <2> QED
    BY <2>3
<1> HIDE DEF flatten
<1>7. \A k \in 0 .. n : k = 0 \/ flatten[k] = flat[k]
  <2> DEFINE Q == {k \in 0 .. n : k = 0 \/ flatten[k] = flat[k]}
  <2>1. 0 \in Q
    BY <1>n
  <2>2. ASSUME NEW k \in 1 .. n, k - 1 \in Q
        PROVE  k \in Q
    <3>1. flatten[k] = IF k = 1 THEN seqs[k] ELSE flatten[k - 1] \o seqs[k]
      BY <1>6
    <3>2. flatten[k] = flat[k - 1] \o seqs[k]
      <4>1. CASE k = 1
        <5>1. flatten[k] = seqs[k] /\ seqs[k] \in T /\ k - 1 = 0
          BY <1>n, <3>1, <4>1
        <5>2. <<>> \o seqs[k] = seqs[k]
          BY <1>i, <5>1
        <5> QED
          BY <1>4, <5>1, <5>2
      <4>2. CASE k # 1
        <5>1. k - 1 # 0 /\ flatten[k - 1] = flat[k - 1]
          BY <2>2, <4>2
        <5> QED
          BY <3>1, <4>2, <5>1
      <4> QED
        BY <4>1, <4>2
    <3>3. flat[k] = flat[k - 1] \o seqs[k]
      BY <1>5
    <3>4. k \in 0 .. n
      BY <1>n
    <3> QED
      BY <3>2, <3>3, <3>4
  <2> HIDE DEF Q
  <2>3. \A k \in 0 .. n : k \in Q
    BY <1>n, <2>1, <2>2, Upwards
  <2> QED
    BY <2>3 DEF Q
<1>8. FlattenSeq(seqs) = flat[n]
  BY <1>1, <1>4, <1>7, <1>e, <1>n
<1> QED
  BY <1>4, <1>5, <1>8 DEF n, T, Flat

\* Where each element of the first m lists is from, and that it is in their order
Origins(origin, m, flat, seqs) ==
    /\ origin \in [1 .. Len(flat[m]) -> 1 .. m]
    /\ \A p \in 1 .. Len(flat[m]) :
         \E j \in DOMAIN seqs[origin[p]] : flat[m][p] = seqs[origin[p]][j]
    /\ \A p, q \in 1 .. Len(flat[m]) : p < q => origin[p] <= origin[q]

\* What the first m lists have, is there.
Holds(m, flat, seqs) ==
    \A i \in 1 .. m : \A j \in DOMAIN seqs[i] : \E p \in 1 .. Len(flat[m]) :
        flat[m][p] = seqs[i][j]

\* Putting lists one after the other loses nothing, adds nothing, and keeps the order.
LEMMA FlatElements ==
  ASSUME NEW S, NEW seqs \in Seq(Seq(S)), NEW flat, Flat(flat, seqs, S)
  PROVE  /\ \E origin : Origins(origin, Len(seqs), flat, seqs)
         /\ Holds(Len(seqs), flat, seqs)
<1> DEFINE n == Len(seqs)
           Good(m) == (\E origin : Origins(origin, m, flat, seqs)) /\ Holds(m, flat, seqs)
           Z == {m \in 0 .. n : Good(m)}
<1>n. n \in Nat /\ \A k \in 1 .. n : seqs[k] \in Seq(S)
  OBVIOUS
<1>f. /\ flat \in [0 .. n -> Seq(S)] /\ flat[0] = <<>>
      /\ \A k \in 1 .. n : flat[k] = flat[k - 1] \o seqs[k]
  BY DEF Flat
<1>g. \A m \in 0 .. n : m \in Z <=> Good(m)
  <2> HIDE DEF Good
  <2> QED
    OBVIOUS
<1> HIDE DEF Z, n
<1>1. 0 \in Z
  <2>1. Len(flat[0]) = 0 /\ 0 \in 0 .. n
    BY <1>f, <1>n
  <2>2. [p \in 1 .. 0 |-> 0] \in [1 .. 0 -> 1 .. 0]
    OBVIOUS
  <2>3. Origins([p \in 1 .. 0 |-> 0], 0, flat, seqs)
    BY <2>1, <2>2 DEF Origins
  <2>4. Holds(0, flat, seqs)
    BY DEF Holds
  <2>5. Good(0)
    BY <2>3, <2>4
  <2> HIDE DEF Good
  <2> QED
    BY <1>g, <2>1, <2>5
<1>2. ASSUME NEW m \in 1 .. n, m - 1 \in Z
      PROVE  m \in Z
  <2>m. m \in Nat /\ m - 1 \in 0 .. n /\ m \in 0 .. n
    BY <1>n
  <2>1. Good(m - 1)
    <3> HIDE DEF Good
    <3> QED
      BY <1>2, <1>g, <2>m
  <2>2. PICK origin : Origins(origin, m - 1, flat, seqs)
    BY <2>1
  <2> DEFINE old == flat[m - 1]
             new == seqs[m]
             L == Len(old)
             M == Len(new)
  <2>3. old \in Seq(S) /\ new \in Seq(S) /\ flat[m] = old \o new
    BY <1>f, <1>n, <2>m
  <2>o. /\ origin \in [1 .. L -> 1 .. m - 1]
        /\ \A p \in 1 .. L : \E j \in DOMAIN seqs[origin[p]] : old[p] = seqs[origin[p]][j]
        /\ \A p, q \in 1 .. L : p < q => origin[p] <= origin[q]
    BY <2>2 DEF Origins
  <2>h. \A i \in 1 .. m - 1 : \A j \in DOMAIN seqs[i] : \E p \in 1 .. L : old[p] = seqs[i][j]
    BY <2>1 DEF Holds
  <2> HIDE DEF old, new, L, M
  <2>4. /\ L \in Nat /\ M \in Nat /\ Len(flat[m]) = L + M
        /\ \A p \in 1 .. L : flat[m][p] = old[p]
        /\ \A j \in 1 .. M : flat[m][L + j] = new[j]
        /\ DOMAIN new = 1 .. M
    BY <2>3, ConcatProperties DEF L, M
  <2> DEFINE from == [p \in 1 .. L + M |-> IF p <= L THEN origin[p] ELSE m]
  <2>5. from \in [1 .. L + M -> 1 .. m]
    BY <2>m, <2>o, <2>4
  <2>6. \A p \in 1 .. L : from[p] = origin[p] /\ from[p] \in 1 .. m - 1
    BY <2>o, <2>4
  <2>7. \A p \in 1 .. L + M : p > L => from[p] = m /\ p - L \in 1 .. M /\ p = L + (p - L)
    BY <2>4
  <2> HIDE DEF from
  <2>8. Origins(from, m, flat, seqs)
    <3>1. ASSUME NEW p \in 1 .. L + M
          PROVE  \E j \in DOMAIN seqs[from[p]] : flat[m][p] = seqs[from[p]][j]
      <4>1. CASE p <= L
        <5>1. p \in 1 .. L
          BY <2>4, <4>1
        <5>2. PICK j \in DOMAIN seqs[origin[p]] : old[p] = seqs[origin[p]][j]
          BY <2>o, <5>1
        <5>3. from[p] = origin[p] /\ flat[m][p] = old[p]
          BY <2>4, <2>6, <5>1
        <5> QED
          BY <5>2, <5>3
      <4>2. CASE p > L
        <5>1. from[p] = m /\ p - L \in DOMAIN new /\ flat[m][p] = new[p - L]
          BY <2>4, <2>7, <4>2
        <5> QED
          BY <5>1 DEF new
      <4> QED
        BY <2>4, <4>1, <4>2
    <3>2. ASSUME NEW p \in 1 .. L + M, NEW q \in 1 .. L + M, p < q
          PROVE  from[p] <= from[q]
      <4>1. CASE q <= L
        <5>1. p \in 1 .. L /\ q \in 1 .. L
          BY <2>4, <3>2, <4>1
        <5>2. origin[p] <= origin[q]
          BY <2>o, <3>2, <5>1
        <5> QED
          BY <2>6, <5>1, <5>2
      <4>2. CASE q > L
        BY <2>m, <2>5, <2>7, <4>2
      <4> QED
        BY <2>4, <4>1, <4>2
    <3> QED
      BY <2>4, <2>5, <3>1, <3>2 DEF Origins
  <2>9. Holds(m, flat, seqs)
    <3>1. ASSUME NEW i \in 1 .. m, NEW j \in DOMAIN seqs[i]
          PROVE  \E p \in 1 .. L + M : flat[m][p] = seqs[i][j]
      <4>1. CASE i = m
        <5>1. j \in 1 .. M /\ flat[m][L + j] = seqs[i][j]
          BY <2>4, <4>1 DEF new
        <5> QED
          BY <2>4, <5>1
      <4>2. CASE i # m
        <5>1. i \in 1 .. m - 1
          BY <2>m, <4>2
        <5>2. PICK p \in 1 .. L : old[p] = seqs[i][j]
          BY <2>h, <5>1
        <5> QED
          BY <2>4, <5>2
      <4> QED
        BY <4>1, <4>2
    <3> QED
      BY <2>4, <3>1 DEF Holds
  <2>10. Good(m)
    BY <2>8, <2>9
  <2> HIDE DEF Good
  <2> QED
    BY <1>g, <2>m, <2>10
<1>3. n \in Z
  <2>1. n \in 0 .. n
    BY <1>n
  <2> QED
    BY <1>n, <1>1, <1>2, <2>1, Upwards
<1>4. Good(n)
  <2> HIDE DEF Good
  <2> QED
    BY <1>g, <1>n, <1>3
<1> QED
  BY <1>4 DEF n

(***************************************************************************)
(* Inserting                                                               *)
(***************************************************************************)

\* A list with one more element after one of its places.
Widened(t, s, p, e) ==
    /\ Len(t) = Len(s) + 1 /\ p \in 0 .. Len(s)
    /\ \A k \in 1 .. p : t[k] = s[k]
    /\ t[p + 1] = e
    /\ \A k \in p + 1 .. Len(s) : t[k + 1] = s[k]

\* InsertAt takes a list apart and joins it again around the new element.
LEMMA InsertSplits ==
  ASSUME NEW s, NEW i, NEW e
  PROVE  InsertAt(s, i, e) = (SubSeq(s, 1, i - 1) \o <<e>>) \o SubSeq(s, i, Len(s))
BY DEF InsertAt

\* What InsertAt and Append make.
LEMMA InsertWidens ==
  ASSUME NEW S, NEW s \in Seq(S), NEW p \in 1 .. Len(s), NEW e \in S
  PROVE  InsertAt(s, p + 1, e) \in Seq(S) /\ Widened(InsertAt(s, p + 1, e), s, p, e)
<1> DEFINE n == Len(s)
           a == SubSeq(s, 1, (p + 1) - 1)
           c == SubSeq(s, p + 1, n)
<1>1. n \in Nat /\ p \in 1 .. n /\ \A i \in 1 .. n : s[i] \in S
  BY Elements
<1>2. a \in Seq(S) /\ Len(a) = p /\ \A i \in 1 .. p : a[i] = s[i]
  <2>1. (p + 1) - 1 = p
    BY <1>1
  <2>2. \A i \in 1 .. p : s[i] \in S
    BY <1>1
  <2> QED
    BY <1>1, <2>1, <2>2, SubSeqProperties
<1>3. c \in Seq(S) /\ Len(c) = n - p /\ \A i \in 1 .. n - p : c[i] = s[p + i]
  <2>1. p + 1 \in Int /\ n \in Int /\ \A i \in p + 1 .. n : s[i] \in S
    BY <1>1
  <2> HIDE DEF n
  <2>2. /\ c \in Seq(S) /\ Len(c) = IF p + 1 <= n THEN n - (p + 1) + 1 ELSE 0
        /\ \A i \in 1 .. n - (p + 1) + 1 : c[i] = s[p + 1 + i - 1]
    BY <2>1, SubSeqProperties
  <2> HIDE DEF c
  <2>3. n - (p + 1) + 1 = n - p
    BY <1>1
  <2>4. Len(c) = n - p
    BY <1>1, <2>2, <2>3
  <2>5. \A i \in 1 .. n - p : p + 1 + i - 1 = p + i
    BY <1>1
  <2> QED
    BY <2>2, <2>3, <2>4, <2>5
<1>4. <<e>> \in Seq(S) /\ Len(<<e>>) = 1 /\ <<e>>[1] = e
  OBVIOUS
<1>5. InsertAt(s, p + 1, e) = (a \o <<e>>) \o c
  BY InsertSplits
<1> HIDE DEF a, c, n
<1> DEFINE b == a \o <<e>>
<1>6. /\ b \in Seq(S) /\ Len(b) = p + 1
      /\ \A k \in 1 .. p : b[k] = s[k]
      /\ b[p + 1] = e
  <2>1. \A k \in 1 .. Len(a) + Len(<<e>>) :
           b[k] = IF k <= Len(a) THEN a[k] ELSE <<e>>[k - Len(a)]
    BY <1>2, <1>4, ConcatProperties
  <2>2. b \in Seq(S) /\ Len(b) = Len(a) + Len(<<e>>)
    BY <1>2, <1>4, Joined
  <2> HIDE DEF b
  <2>3. \A k \in 1 .. p : b[k] = s[k]
    BY <1>1, <1>2, <1>4, <2>1
  <2>4. b[p + 1] = <<e>>[p + 1 - p]
    BY <1>1, <1>2, <1>4, <2>1
  <2> QED
    BY <1>1, <1>2, <1>4, <2>2, <2>3, <2>4
<1> HIDE DEF b
<1> DEFINE t == b \o c
<1>7. /\ t \in Seq(S) /\ Len(t) = n + 1
      /\ \A k \in 1 .. p + 1 : t[k] = b[k]
      /\ \A k \in p + 1 .. n : t[k + 1] = s[k]
  <2>1. \A k \in 1 .. Len(b) + Len(c) :
           t[k] = IF k <= Len(b) THEN b[k] ELSE c[k - Len(b)]
    BY <1>3, <1>6, ConcatProperties
  <2>2. t \in Seq(S) /\ Len(t) = Len(b) + Len(c)
    BY <1>3, <1>6, Joined
  <2> HIDE DEF t
  <2>3. \A k \in 1 .. p + 1 : t[k] = b[k]
    BY <1>1, <1>3, <1>6, <2>1
  <2>4. ASSUME NEW k \in p + 1 .. n
        PROVE  t[k + 1] = s[k]
    <3>1. k + 1 \in 1 .. Len(b) + Len(c) /\ ~(k + 1 <= Len(b)) /\ k + 1 - Len(b) = k - p
      BY <1>1, <1>3, <1>6
    <3>2. t[k + 1] = c[k - p]
      BY <2>1, <3>1
    <3>3. k - p \in 1 .. n - p /\ p + (k - p) = k
      BY <1>1
    <3> QED
      BY <1>3, <3>2, <3>3
  <2> QED
    BY <1>1, <1>3, <1>6, <2>2, <2>3, <2>4
<1>8. InsertAt(s, p + 1, e) = t
  BY <1>5 DEF b
<1> HIDE DEF t
<1>9. t[p + 1] = e /\ \A k \in 1 .. p : t[k] = s[k]
  BY <1>1, <1>6, <1>7
<1>10. Widened(t, s, p, e)
  BY <1>1, <1>7, <1>9 DEF Widened, n
<1> QED
  BY <1>7, <1>8, <1>10

\* Append puts it after the last place.
LEMMA AppendWidens ==
  ASSUME NEW S, NEW s \in Seq(S), NEW e \in S
  PROVE  Append(s, e) \in Seq(S) /\ Widened(Append(s, e), s, Len(s), e)
<1>1. Len(s) \in Nat
  BY Elements
<1>2. /\ Append(s, e) \in Seq(S) /\ Len(Append(s, e)) = Len(s) + 1
      /\ \A k \in 1 .. Len(s) : Append(s, e)[k] = s[k]
      /\ Append(s, e)[Len(s) + 1] = e
  BY <1>1, AppendProperties
<1> QED
  BY <1>1, <1>2 DEF Widened
=============================================================================
