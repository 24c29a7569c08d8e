--------------------------- MODULE DocumentProofs ---------------------------
(* Proofs about documents: the one assembled from the clauses of a plan, and *)
(* the uploaded one that is edited in place.                                 *)
EXTENDS DraftingSteps, ListsProofs

(***************************************************************************)
(* Assembling a document                                                   *)
(***************************************************************************)

\* The sections of a plan are added each once (planning.py:_transformation_for_generation).
LEMMA AddedOnce ==
  ASSUME NEW list \in Seq(Section)
  PROVE  /\ TransformationForGeneration(list) \in Seq(Name)
         /\ Len(TransformationForGeneration(list)) = Len(list)
         /\ \E turns \in Bijection(1 .. Len(list), 1 .. Len(list)) :
              TransformationForGeneration(list) = Taken(Names(list), turns)
<1> DEFINE n == Len(list)
           W == {pair \in Section \X Section : Precedes(pair[1], pair[2])}
           ahead == [i \in 1 .. n |->
                       {j \in 1 .. n : <<list[j], list[i]>> \in W
                                       \/ (j < i /\ <<list[i], list[j]>> \notin W)}]
<1>1. n \in Nat /\ DOMAIN list = 1 .. n /\ \A i \in 1 .. n : list[i] \in Section
  BY Elements
<1> HIDE DEF n
<1>2. \A s, t \in Section : <<s, t>> \in W <=> Precedes(s, t)
  OBVIOUS
<1> HIDE DEF W
<1>3. \A s, t, u \in Section :
        /\ ~Precedes(s, s)
        /\ (Precedes(s, t) /\ Precedes(t, u) => Precedes(s, u))
        /\ (Precedes(s, u) => Precedes(s, t) \/ Precedes(t, u))
  <2>1. \A name \in DOMAIN LibraryOrder : LibraryOrder[name] \in Nat
    BY LibraryOrderAssumption
  <2>2. \A s \in Section : s.order \in Nat
    BY MaxSectionsAssumption DEF Section
  <2> QED
    BY <2>1, <2>2 DEF Precedes
<1>4. Ranked(list, W, n)
  <2>1. \A i \in 1 .. n : <<list[i], list[i]>> \notin W
    BY <1>1, <1>2, <1>3
  <2>2. ASSUME NEW i \in 1 .. n, NEW j \in 1 .. n, NEW k \in 1 .. n
        PROVE  /\ (<<list[i], list[j]>> \in W /\ <<list[j], list[k]>> \in W
                     => <<list[i], list[k]>> \in W)
               /\ (<<list[i], list[k]>> \in W
                     => <<list[i], list[j]>> \in W \/ <<list[j], list[k]>> \in W)
    BY <1>1, <1>2, <1>3
  <2> QED
    BY <2>1, <2>2 DEF Ranked
<1>5. Sorted(list, Precedes) = Arranged(list, ahead)
  <2>1. \A i, j \in 1 .. n : <<list[i], list[j]>> \in W <=> Precedes(list[i], list[j])
    BY <1>1, <1>2
  <2>2. [i \in 1 .. n |-> {j \in 1 .. n : Precedes(list[j], list[i])
                                          \/ (j < i /\ ~Precedes(list[i], list[j]))}] = ahead
    BY <2>1
  <2> QED
    BY <1>1, <2>2 DEF Sorted
<1>6. PICK turns \in Bijection(1 .. n, 1 .. n) :
        /\ Arranged(list, ahead) = Taken(list, turns)
        /\ \A j, k \in 1 .. n : j < k =>
             \/ <<list[turns[j]], list[turns[k]]>> \in W
             \/ (turns[j] < turns[k] /\ <<list[turns[k]], list[turns[j]]>> \notin W)
  BY <1>1, <1>4, Sorting
<1>7. turns \in [1 .. n -> 1 .. n]
  BY DEF Bijection, Injection
<1>8. Names(list) = [i \in 1 .. n |-> list[i].name]
  BY <1>1 DEF Names
<1>9. TransformationForGeneration(list) = [k \in 1 .. n |-> list[turns[k]].name]
  <2>1. Taken(list, turns) = [k \in 1 .. n |-> list[turns[k]]]
    BY <1>7 DEF Taken
  <2> QED
    BY <1>5, <1>6, <2>1 DEF TransformationForGeneration, Names
<1>10. Taken(Names(list), turns) = [k \in 1 .. n |-> list[turns[k]].name]
  BY <1>7, <1>8 DEF Taken
<1>11. TransformationForGeneration(list) \in [1 .. n -> Name]
  BY <1>1, <1>7, <1>9 DEF Section
<1>12. TransformationForGeneration(list) \in Seq(Name)
       /\ Len(TransformationForGeneration(list)) = n
  BY <1>1, <1>11
<1> QED
  BY <1>9, <1>10, <1>12 DEF n

\* Each of the names becomes one clause (document.py:_clauses).
LEMMA ClauseForEach ==
  ASSUME NEW names \in Seq(Name), NEW drafted, NEW library \in SUBSET DOMAIN LibraryOrder
  PROVE  LET clauses == Clauses(names, drafted, library)
         IN  /\ clauses \in Seq(Clause)
             /\ Len(clauses) = Len(names)
             /\ \E turns \in Bijection(1 .. Len(names), 1 .. Len(names)) :
                  [i \in DOMAIN clauses |-> clauses[i].heading] = Taken(names, turns)
<1> DEFINE n == Len(names)
           Keyed == [name : Name, order : Nat]
           keyed == [i \in DOMAIN names |->
                       [name |-> names[i], order |-> ClauseOrder(names[i], i, library)]]
           W == {pair \in Keyed \X Keyed : pair[1].order < pair[2].order}
           ahead == [i \in 1 .. n |->
                       {j \in 1 .. n : <<keyed[j], keyed[i]>> \in W
                                       \/ (j < i /\ <<keyed[i], keyed[j]>> \notin W)}]
           clauses == Clauses(names, drafted, library)
<1>1. n \in Nat /\ DOMAIN names = 1 .. n /\ \A i \in 1 .. n : names[i] \in Name
  BY Elements
<1> HIDE DEF n
<1>2. \A i \in 1 .. n : keyed[i] \in Keyed /\ keyed[i].name = names[i]
  <2>1. \A i \in 1 .. n : ClauseOrder(names[i], i, library) \in Nat
    BY <1>1, LibraryOrderAssumption DEF ClauseOrder
  <2> QED
    BY <1>1, <2>1
<1>3. DOMAIN keyed = 1 .. n
  BY <1>1
<1>4. \A s, t \in Keyed : <<s, t>> \in W <=> s.order < t.order
  OBVIOUS
<1>c. clauses = LET ordered == Sorted(keyed, LAMBDA s, t : s.order < t.order)
                IN  [i \in DOMAIN ordered |->
                        [heading |-> ordered[i].name, drafted |-> ordered[i].name \in drafted]]
  BY DEF Clauses
<1> HIDE DEF keyed, clauses, W
<1>5. Ranked(keyed, W, n)
  <2>1. \A i \in 1 .. n : keyed[i].order \in Nat
    BY <1>2
  <2>2. \A i \in 1 .. n : <<keyed[i], keyed[i]>> \notin W
    BY <1>2, <1>4, <2>1
  <2>3. ASSUME NEW i \in 1 .. n, NEW j \in 1 .. n, NEW k \in 1 .. n
        PROVE  /\ (<<keyed[i], keyed[j]>> \in W /\ <<keyed[j], keyed[k]>> \in W
                     => <<keyed[i], keyed[k]>> \in W)
               /\ (<<keyed[i], keyed[k]>> \in W
                     => <<keyed[i], keyed[j]>> \in W \/ <<keyed[j], keyed[k]>> \in W)
    <3>1. /\ <<keyed[i], keyed[j]>> \in W <=> keyed[i].order < keyed[j].order
          /\ <<keyed[j], keyed[k]>> \in W <=> keyed[j].order < keyed[k].order
          /\ <<keyed[i], keyed[k]>> \in W <=> keyed[i].order < keyed[k].order
      BY <1>2, <1>4
    <3> QED
      BY <2>1, <3>1
  <2> QED
    BY <2>2, <2>3 DEF Ranked
<1>6. Sorted(keyed, LAMBDA s, t : s.order < t.order) = Arranged(keyed, ahead)
  <2>1. \A i, j \in 1 .. n : <<keyed[i], keyed[j]>> \in W <=> keyed[i].order < keyed[j].order
    BY <1>2, <1>4
  <2>2. [i \in 1 .. n |-> {j \in 1 .. n : keyed[j].order < keyed[i].order
                                          \/ (j < i /\ ~(keyed[i].order < keyed[j].order))}] = ahead
    BY <2>1
  <2> QED
    BY <1>3, <2>2 DEF Sorted
<1>7. PICK turns \in Bijection(1 .. n, 1 .. n) :
        /\ Arranged(keyed, ahead) = Taken(keyed, turns)
        /\ \A j, k \in 1 .. n : j < k =>
             \/ <<keyed[turns[j]], keyed[turns[k]]>> \in W
             \/ (turns[j] < turns[k] /\ <<keyed[turns[k]], keyed[turns[j]]>> \notin W)
  BY <1>1, <1>3, <1>5, Sorting
<1>8. turns \in [1 .. n -> 1 .. n]
  BY DEF Bijection, Injection
<1>9. clauses = [k \in 1 .. n |-> [heading |-> names[turns[k]],
                                    drafted |-> names[turns[k]] \in drafted]]
  <2>1. Taken(keyed, turns) = [k \in 1 .. n |-> keyed[turns[k]]]
    BY <1>8 DEF Taken
  <2>2. \A k \in 1 .. n : keyed[turns[k]].name = names[turns[k]]
    BY <1>2, <1>8
  <2> DEFINE ordered == Taken(keyed, turns)
  <2>3. DOMAIN ordered = 1 .. n /\ \A k \in 1 .. n : ordered[k].name = names[turns[k]]
    BY <2>1, <2>2
  <2>4. clauses = [i \in DOMAIN ordered |->
                     [heading |-> ordered[i].name, drafted |-> ordered[i].name \in drafted]]
    BY <1>6, <1>7, <1>c
  <2> HIDE DEF ordered
  <2> QED
    BY <2>3, <2>4
<1>10. clauses \in [1 .. n -> Clause]
  BY <1>1, <1>8, <1>9 DEF Clause
<1>11. clauses \in Seq(Clause) /\ Len(clauses) = n
  BY <1>1, <1>10
<1>12. [i \in DOMAIN clauses |-> clauses[i].heading] = Taken(names, turns)
  BY <1>8, <1>9 DEF Taken
<1> QED
  BY <1>11, <1>12 DEF n, clauses

\* What is printed for the i-th clause: the heading with its number, and the text
Printed(doc, i) == <<Piece("heading", doc.clauses[i].heading, i)>> \o Body(doc.clauses[i])

\* What may be printed, with these numbers
Pieces(numbers) == [part : Part, what : Name \cup {""}, number : numbers]

\* The clauses, one after the other
LEMMA PrintedPieces ==
  ASSUME NEW doc, doc.clauses \in Seq(Clause),
         NEW numbers, 0 .. Len(doc.clauses) \subseteq numbers
  PROVE  /\ [i \in DOMAIN doc.clauses |-> Printed(doc, i)] \in Seq(Seq(Pieces(numbers)))
         /\ Opening(doc) \in Seq(Pieces(numbers))
         /\ Closing(doc) \in Seq(Pieces(numbers))
         /\ Opening(doc) # <<>>
<1> DEFINE n == Len(doc.clauses)
           P == Pieces(numbers)
<1>1. /\ n \in Nat /\ DOMAIN doc.clauses = 1 .. n
      /\ \A i \in 1 .. n : doc.clauses[i] \in Clause
  BY Elements
<1>m. 0 .. n \subseteq numbers
  OBVIOUS
<1> HIDE DEF n
<1>2. \A part \in Part, number \in 0 .. n : Piece(part, "", number) \in P
  BY <1>m DEF Pieces, Piece
<1>3. \A part \in Part, name \in Name, number \in 0 .. n : Piece(part, name, number) \in P
  BY <1>m DEF Pieces, Piece
<1>0. 0 \in 0 .. n
  BY <1>1
<1> HIDE DEF P
<1>4. \A condition \in BOOLEAN, pieces \in Seq(P) : When(condition, pieces) \in Seq(P)
  BY DEF When
<1>5. ASSUME NEW i \in 1 .. n PROVE Printed(doc, i) \in Seq(P)
  <2>1. i \in 0 .. n /\ doc.clauses[i].heading \in Name /\ doc.clauses[i].drafted \in BOOLEAN
    BY <1>1 DEF Clause
  <2>2. Piece("heading", doc.clauses[i].heading, i) \in P
        /\ Piece("body", doc.clauses[i].heading, 0) \in P
    BY <1>0, <1>3, <2>1 DEF Part
  <2>3. <<Piece("heading", doc.clauses[i].heading, i)>> \in Seq(P)
        /\ <<Piece("body", doc.clauses[i].heading, 0)>> \in Seq(P)
    BY <2>2
  <2>4. Body(doc.clauses[i]) \in Seq(P)
    BY <2>3 DEF Body, When
  <2> QED
    BY <2>3, <2>4, ConcatProperties DEF Printed
<1>6. [i \in 1 .. n |-> Printed(doc, i)] \in Seq(Seq(P))
  BY <1>1, <1>5
<1>7. /\ <<Piece("title", "", 0)>> \in Seq(P)
      /\ <<Piece("preamble", "", 0)>> \in Seq(P)
      /\ <<Piece("recital", "", 0)>> \in Seq(P)
      /\ <<Piece("execution", "", 0), Piece("signatory", "", 0)>> \in Seq(P)
      /\ <<>> \in Seq(P)
  <2>1. /\ Piece("title", "", 0) \in P /\ Piece("preamble", "", 0) \in P
        /\ Piece("recital", "", 0) \in P /\ Piece("execution", "", 0) \in P
        /\ Piece("signatory", "", 0) \in P
    BY <1>0, <1>2 DEF Part
  <2> QED
    BY <2>1, SmallLists
<1>8. /\ When(doc.parties, <<Piece("preamble", "", 0)>>) \in Seq(P)
      /\ When(doc.recitals, <<Piece("recital", "", 0)>>) \in Seq(P)
      /\ Closing(doc) \in Seq(P)
  BY <1>7 DEF When, Closing
<1>9. Opening(doc) \in Seq(P) /\ Opening(doc) # <<>>
  <2> DEFINE a == <<Piece("title", "", 0)>>
             b == When(doc.parties, <<Piece("preamble", "", 0)>>)
             c == When(doc.recitals, <<Piece("recital", "", 0)>>)
  <2>1. Opening(doc) = (a \o b) \o c
    BY DEF Opening
  <2>2. a \in Seq(P) /\ b \in Seq(P) /\ c \in Seq(P) /\ Len(a) = 1
    BY <1>7, <1>8
  <2> HIDE DEF a, b, c
  <2>3. a \o b \in Seq(P) /\ Len(a \o b) = 1 + Len(b)
    BY <2>2, Joined
  <2>4. (a \o b) \o c \in Seq(P) /\ Len((a \o b) \o c) = (1 + Len(b)) + Len(c)
    BY <2>2, <2>3, Joined
  <2>5. Len(b) \in Nat /\ Len(c) \in Nat
    BY <2>2, Elements
  <2> QED
    BY <2>1, <2>4, <2>5
<1> QED
  BY <1>1, <1>6, <1>8, <1>9 DEF n, P

\* The text has every paragraph of the DOCX, and nothing else, with the numbers Word
\* counts (docx_build.py: render_contract, document_to_text).
LEMMA TextIsDocx ==
  ASSUME NEW doc, doc.clauses \in Seq(Clause)
  PROVE  DocumentToText(doc) = RenderContract(doc)
<1> DEFINE n == Len(doc.clauses)
           P == Pieces(Nat)
           seqs == [i \in DOMAIN doc.clauses |-> Printed(doc, i)]
<1>1. /\ n \in Nat /\ DOMAIN doc.clauses = 1 .. n
      /\ \A i \in 1 .. n : doc.clauses[i] \in Clause
  BY Elements
<1>2. seqs \in Seq(Seq(P)) /\ Opening(doc) \in Seq(P) /\ Closing(doc) \in Seq(P)
  <2>1. 0 .. n \subseteq Nat
    BY <1>1
  <2> QED
    BY <2>1, PrintedPieces
<1>3. Len(seqs) = n /\ \A i \in 1 .. n : seqs[i] = Printed(doc, i)
  BY <1>1
<1>r. RenderContract(doc) = Opening(doc) \o FlattenSeq(seqs) \o Closing(doc)
  BY DEF RenderContract, Printed
<1> HIDE DEF seqs
<1>4. PICK flat : Flat(flat, seqs, P) /\ FlattenSeq(seqs) = flat[Len(seqs)]
  BY <1>2, Flattening
<1>5. /\ flat \in [0 .. n -> Seq(P)] /\ flat[0] = <<>>
      /\ \A k \in 1 .. n : flat[k] = flat[k - 1] \o Printed(doc, k)
  BY <1>3, <1>4 DEF Flat
<1> DEFINE T == [counter : Nat, out : Seq(P)]
           Write(state, c) ==
             [counter |-> state.counter + 1,
              out |-> state.out \o <<Piece("heading", c.heading, state.counter + 1)>> \o Body(c)]
           start == [counter |-> 0, out |-> Opening(doc)]
           Rule(h) == h = [s \in SUBSET (1 .. n) |->
                             IF s = {} THEN start ELSE Write(h[s \ {Max(s)}], doc.clauses[Max(s)])]
           state(k) == [counter |-> k, out |-> Opening(doc) \o flat[k]]
<1> HIDE DEF n, P
<1>6. ASSUME NEW k \in 1 .. n
      PROVE  /\ k - 1 \in 0 .. n /\ state(k - 1) \in T /\ state(k) \in T
             /\ Write(state(k - 1), doc.clauses[k]) = state(k)
  <2>1. k \in Nat /\ k - 1 \in Nat /\ k - 1 \in 0 .. n /\ k \in 0 .. n /\ (k - 1) + 1 = k
    BY <1>1
  <2>2. flat[k - 1] \in Seq(P) /\ flat[k] \in Seq(P)
    BY <1>5, <2>1
  <2>3. /\ Opening(doc) \o flat[k - 1] \in Seq(P)
        /\ Opening(doc) \o flat[k] \in Seq(P)
    BY <1>2, <2>2, ConcatProperties
  <2>4. <<Piece("heading", doc.clauses[k].heading, k)>> \in Seq(P)
        /\ Body(doc.clauses[k]) \in Seq(P)
    <3>1. doc.clauses[k].heading \in Name /\ 0 \in Nat
      BY <1>1, <2>1 DEF Clause
    <3>2. Piece("heading", doc.clauses[k].heading, k) \in P
          /\ Piece("body", doc.clauses[k].heading, 0) \in P
      BY <2>1, <3>1 DEF P, Pieces, Piece, Part
    <3>3. /\ <<>> \in Seq(P)
          /\ <<Piece("heading", doc.clauses[k].heading, k)>> \in Seq(P)
          /\ <<Piece("body", doc.clauses[k].heading, 0)>> \in Seq(P)
      BY <3>2, SmallLists
    <3> QED
      BY <3>3 DEF Body, When
  <2>5. Printed(doc, k) \in Seq(P)
    BY <2>4, ConcatProperties DEF Printed
  <2>6. Opening(doc) \o flat[k] =
          (Opening(doc) \o flat[k - 1]) \o <<Piece("heading", doc.clauses[k].heading, k)>>
            \o Body(doc.clauses[k])
    <3> DEFINE a == Opening(doc)
               b == flat[k - 1]
               c == <<Piece("heading", doc.clauses[k].heading, k)>>
               d == Body(doc.clauses[k])
    <3>1. a \in Seq(P) /\ b \in Seq(P) /\ c \in Seq(P) /\ d \in Seq(P)
      BY <1>2, <2>2, <2>4
    <3>2. flat[k] = b \o (c \o d)
      BY <1>5 DEF Printed
    <3> HIDE DEF a, b, c, d
    <3>3. Joint(a, Joint(b, Joint(c, d))) = Joint(Joint(Joint(a, b), c), d)
      BY <3>1, JoinedFour
    <3> QED
      BY <3>2, <3>3 DEF a, b, c, d, Joint
  <2> QED
    BY <2>1, <2>3, <2>6
<1>7. start \in T /\ start = state(0)
  <2>1. Opening(doc) \o <<>> = Opening(doc)
    BY <1>2, ConcatEmptySeq
  <2> QED
    BY <1>2, <1>5, <2>1
<1>8. ASSUME NEW t \in T, NEW k \in 1 .. n
      PROVE  Write(t, doc.clauses[k]) \in T
  <2>1. t.counter + 1 \in Nat /\ t.out \in Seq(P) /\ doc.clauses[k] \in Clause
    BY <1>1
  <2> DEFINE a == <<Piece("heading", doc.clauses[k].heading, t.counter + 1)>>
             b == Body(doc.clauses[k])
  <2>2. a \in Seq(P) /\ b \in Seq(P)
    <3>1. Piece("heading", doc.clauses[k].heading, t.counter + 1) \in P
          /\ Piece("body", doc.clauses[k].heading, 0) \in P
      BY <2>1 DEF P, Pieces, Piece, Part, Clause
    <3>2. /\ <<>> \in Seq(P) /\ a \in Seq(P)
          /\ <<Piece("body", doc.clauses[k].heading, 0)>> \in Seq(P)
      BY <3>1, SmallLists
    <3> QED
      BY <3>2 DEF Body, When
  <2> HIDE DEF a, b
  <2>3. (t.out \o a) \o b \in Seq(P)
    BY <2>1, <2>2, Joined
  <2> QED
    BY <2>1, <2>3 DEF a, b
<1> DEFINE f == [p \in T \X (1 .. n) |-> Write(p[1], doc.clauses[p[2]])]
<1>9. /\ f \in [T \X (1 .. n) -> T]
      /\ \A t \in T, k \in 1 .. n : f[<<t, k>>] = Write(t, doc.clauses[k])
  <2> HIDE DEF T, Write
  <2> QED
    BY <1>8
<1> HIDE DEF f, T, Write, start
<1>m. \A s \in SUBSET (1 .. n) : s # {} => Max(s) \in s /\ s \ {Max(s)} \in SUBSET (1 .. n)
  BY <1>1, GreatestIn
<1>10. \E h : Rule(h)
  <2>1. PICK g : Fold(g, n, T, start, f)
    BY <1>1, <1>7, <1>9, Folding
  <2>2. /\ g \in [SUBSET (1 .. n) -> T]
        /\ \A s \in SUBSET (1 .. n) :
             g[s] = IF s = {} THEN start ELSE f[<<g[s \ {Max(s)}], Max(s)>>]
    BY <2>1 DEF Fold
  <2>3. \A s \in SUBSET (1 .. n) : s # {} =>
          f[<<g[s \ {Max(s)}], Max(s)>>] = Write(g[s \ {Max(s)}], doc.clauses[Max(s)])
    BY <1>9, <1>m, <2>2
  <2>4. Rule(g)
    BY <2>2, <2>3
  <2> QED
    BY <2>4
<1> DEFINE made == CHOOSE h : Rule(h)
<1>11. Rule(made)
  BY <1>10
<1>12. FoldLeft(Write, start, doc.clauses) = made[1 .. n]
  BY <1>1 DEF FoldLeft, MapThenFoldSet
<1>13. \A k \in 0 .. n : made[1 .. k] = state(k)
  <2> DEFINE Z == {k \in 0 .. n : made[1 .. k] = state(k)}
  <2>1. 0 \in Z
    <3>1. 1 .. 0 = {} /\ {} \in SUBSET (1 .. n) /\ 0 \in 0 .. n
      BY <1>1
    <3>2. made[{}] = start
      BY <1>11, <3>1
    <3> QED
      BY <1>7, <3>1, <3>2
  <2>2. ASSUME NEW k \in 1 .. n, k - 1 \in Z PROVE k \in Z
    <3>1. k \in Nat \ {0} /\ k \in 0 .. n /\ 1 .. k \in SUBSET (1 .. n) /\ 1 .. k # {}
      BY <1>1
    <3>2. Max(1 .. k) = k /\ (1 .. k) \ {Max(1 .. k)} = 1 .. k - 1
      BY <3>1, Greatest
    <3>3. made[1 .. k] = Write(made[1 .. k - 1], doc.clauses[k])
      BY <1>11, <3>1, <3>2
    <3>4. made[1 .. k - 1] = state(k - 1)
      BY <2>2
    <3> QED
      BY <1>6, <3>1, <3>3, <3>4
  <2> HIDE DEF Z
  <2>3. \A k \in 0 .. n : k \in Z
    BY <1>1, <2>1, <2>2, Upwards
  <2> QED
    BY <2>3 DEF Z
<1>14. FoldLeft(Write, start, doc.clauses).out = Opening(doc) \o flat[n]
  <2>1. n \in 0 .. n
    BY <1>1
  <2>2. FoldLeft(Write, start, doc.clauses) = state(n)
    BY <1>12, <1>13, <2>1
  <2> QED
    BY <2>2
<1>15. DocumentToText(doc) = FoldLeft(Write, start, doc.clauses).out \o Closing(doc)
  BY DEF DocumentToText, Write, start
<1>16. FlattenSeq(seqs) = flat[n]
  BY <1>3, <1>4
<1> QED
  BY <1>14, <1>15, <1>16, <1>r

\* Every clause's heading is among what is printed, and the numbers are places of clauses.
LEMMA RenderedDocument ==
  ASSUME NEW doc, doc.clauses \in Seq(Clause)
  PROVE  /\ RenderContract(doc) \in Seq(Pieces(0 .. Len(doc.clauses)))
         /\ RenderContract(doc) # <<>>
         /\ \A i \in DOMAIN doc.clauses : \E k \in DOMAIN RenderContract(doc) :
              RenderContract(doc)[k].what = doc.clauses[i].heading
<1> DEFINE n == Len(doc.clauses)
           P == Pieces(0 .. n)
           seqs == [i \in DOMAIN doc.clauses |-> Printed(doc, i)]
           a == Opening(doc)
           b == FlattenSeq(seqs)
           c == Closing(doc)
<1>1. /\ n \in Nat /\ DOMAIN doc.clauses = 1 .. n
      /\ \A i \in 1 .. n : doc.clauses[i] \in Clause
  BY Elements
<1>2. seqs \in Seq(Seq(P)) /\ a \in Seq(P) /\ c \in Seq(P) /\ a # <<>>
  BY PrintedPieces
<1>3. Len(seqs) = n /\ \A i \in 1 .. n : seqs[i] = Printed(doc, i)
  BY <1>1
<1>r. RenderContract(doc) = (a \o b) \o c
  BY DEF RenderContract, Printed
<1> HIDE DEF seqs, n, P, a, c
<1>4. PICK flat : Flat(flat, seqs, P) /\ FlattenSeq(seqs) = flat[Len(seqs)]
  BY <1>2, Flattening
<1>5. b \in Seq(P)
  <2>1. n \in 0 .. n
    BY <1>1
  <2> QED
    BY <1>3, <1>4, <2>1 DEF Flat
<1>6. Holds(n, flat, seqs)
  BY <1>2, <1>3, <1>4, FlatElements
<1>7. b = flat[n]
  BY <1>3, <1>4
<1> HIDE DEF b
<1>8. /\ Len(a) \in Nat /\ Len(b) \in Nat /\ Len(c) \in Nat
      /\ a \o b \in Seq(P) /\ Len(a \o b) = Len(a) + Len(b)
      /\ \A k \in 1 .. Len(b) : (a \o b)[Len(a) + k] = b[k]
  BY <1>2, <1>5, ConcatProperties
<1> DEFINE ab == a \o b
           all == ab \o c
<1> HIDE DEF ab
<1>9. /\ all \in Seq(P) /\ Len(all) = Len(ab) + Len(c)
      /\ \A k \in 1 .. Len(ab) : all[k] = ab[k]
  <2>1. ab \in Seq(P)
    BY <1>8 DEF ab
  <2> QED
    BY <1>2, <2>1, ConcatProperties
<1>10. RenderContract(doc) = all
  BY <1>r DEF ab
<1>11. Len(ab) = Len(a) + Len(b) /\ \A k \in 1 .. Len(b) : ab[Len(a) + k] = b[k]
  BY <1>8 DEF ab
<1> HIDE DEF all
<1>12. all # <<>>
  <2>1. Len(a) # 0
    BY <1>2
  <2>2. Len(all) # 0
    BY <1>8, <1>9, <1>11, <2>1
  <2> QED
    BY <2>2
<1>13. DOMAIN all = 1 .. Len(all)
  BY <1>9
<1>14. ASSUME NEW i \in 1 .. n
       PROVE  \E k \in DOMAIN all : all[k].what = doc.clauses[i].heading
  <2>1. 1 \in DOMAIN seqs[i] /\ seqs[i][1] = Piece("heading", doc.clauses[i].heading, i)
    <3> DEFINE h == <<Piece("heading", doc.clauses[i].heading, i)>>
               body == Body(doc.clauses[i])
    <3>1. h \in Seq(P) /\ body \in Seq(P) /\ Len(h) = 1 /\ h[1] = Piece("heading", doc.clauses[i].heading, i)
      <4>1. doc.clauses[i].heading \in Name /\ 0 \in 0 .. n /\ i \in 0 .. n
        BY <1>1 DEF Clause
      <4>2. Piece("heading", doc.clauses[i].heading, i) \in P
            /\ Piece("body", doc.clauses[i].heading, 0) \in P
        BY <4>1 DEF P, Pieces, Piece, Part
      <4>3. /\ <<>> \in Seq(P) /\ h \in Seq(P) /\ Len(h) = 1
            /\ <<Piece("body", doc.clauses[i].heading, 0)>> \in Seq(P)
        BY <4>2, SmallLists
      <4> QED
        BY <4>3 DEF Body, When
    <3>2. seqs[i] = h \o body
      BY <1>3 DEF Printed
    <3> HIDE DEF h, body
    <3>3. /\ h \o body \in Seq(P) /\ Len(h \o body) = 1 + Len(body)
          /\ \A k \in 1 .. Len(h) : (h \o body)[k] = h[k]
      <4>1. h \o body \in Seq(P) /\ Len(h \o body) = Len(h) + Len(body)
        BY <3>1, Joined
      <4>2. \A k \in 1 .. Len(h) : (h \o body)[k] = h[k]
        BY <3>1, JoinedElements
      <4> QED
        BY <3>1, <4>1, <4>2
    <3>4. Len(body) \in Nat
      BY <3>1, Elements
    <3>5. seqs[i][1] = h[1]
      BY <3>1, <3>2, <3>3
    <3>6. 1 \in DOMAIN seqs[i]
      <4>1. DOMAIN (h \o body) = 1 .. Len(h \o body)
        BY <3>3, Elements
      <4>2. 1 \in DOMAIN (h \o body)
        BY <3>3, <3>4, <4>1
      <4> QED
        BY <3>2, <4>2
    <3> QED
      BY <3>1, <3>5, <3>6
  <2>2. PICK p \in 1 .. Len(flat[n]) : flat[n][p] = seqs[i][1]
    BY <1>6, <2>1 DEF Holds
  <2>3. p \in 1 .. Len(b) /\ b[p] = seqs[i][1]
    BY <1>7, <2>2
  <2>4. /\ Len(a) + p \in 1 .. Len(ab) /\ Len(a) + p \in 1 .. Len(all)
        /\ all[Len(a) + p] = b[p]
    BY <1>8, <1>9, <1>11, <2>3
  <2> QED
    BY <1>13, <2>1, <2>3, <2>4 DEF Piece
<1> QED
  BY <1>1, <1>9, <1>10, <1>12, <1>14 DEF P, n

\* A document has the clauses of the plan.
DocumentHolds(doc) ==
    /\ doc.clauses \in Seq(Clause)
    /\ Len(doc.clauses) = Len(draftPlan)
    /\ doc.recitals \in BOOLEAN /\ doc.parties \in BOOLEAN
    /\ \A name : Times(Headings(doc), name) = Times(Names(draftPlan), name)

DocumentInv ==
    /\ draftPlan \in Seq(Section) /\ Len(draftPlan) \in 0 .. MaxSections
    /\ add \subseteq {TransformationForGeneration(draftPlan)}
    /\ \A doc \in document : DocumentHolds(doc)
    /\ \/ rendered = NotRendered
       \/ \E doc \in document :
            rendered = [docx |-> RenderContract(doc), text |-> DocumentToText(doc)]

\* The plans that are drafted from are lists of sections, of any length up to the bound.
LEMMA SectionLists ==
  SectionList = {list \in Seq(Section) : Len(list) \in 0 .. MaxSections}
<1>1. ASSUME NEW list \in SectionList
      PROVE  list \in Seq(Section) /\ Len(list) \in 0 .. MaxSections
  <2>1. PICK n \in 0 .. MaxSections : list \in [1 .. n -> Section]
    BY DEF SectionList
  <2>2. n \in Nat
    BY MaxSectionsAssumption
  <2> QED
    BY <2>1, <2>2
<1>2. ASSUME NEW list \in Seq(Section), Len(list) \in 0 .. MaxSections
      PROVE  list \in SectionList
  <2>1. list \in [1 .. Len(list) -> Section]
    OBVIOUS
  <2> QED
    BY <1>2, <2>1 DEF SectionList
<1> QED
  BY <1>1, <1>2

\* A reordered list has each element as often.
LEMMA SameTimes ==
  ASSUME NEW S, NEW s \in Seq(S), NEW turns \in Bijection(1 .. Len(s), 1 .. Len(s)), NEW e
  PROVE  Times(Taken(s, turns), e) = Times(s, e)
<1>1. Len(s) \in Nat /\ DOMAIN s = 1 .. Len(s)
  BY Elements
<1> DEFINE n == Len(s)
<1> HIDE DEF n
<1>2. Among(Taken(s, turns), DOMAIN Taken(s, turns), e) = Among(s, 1 .. Len(s), e)
  BY <1>1, TakenCounts
<1> QED
  BY <1>1, <1>2 DEF Times, Among

\* What is built has the clauses of the plan.
LEMMA BuiltFromPlan ==
  ASSUME DocumentInv, NEW names \in add, NEW library \in SUBSET DOMAIN LibraryOrder,
         NEW recitals \in BOOLEAN, NEW parties \in BOOLEAN, NEW drafted
  PROVE  DocumentHolds([clauses |-> Clauses(names, drafted, library),
                        recitals |-> recitals, parties |-> parties])
<1> DEFINE clauses == Clauses(names, drafted, library)
           doc == [clauses |-> clauses, recitals |-> recitals, parties |-> parties]
           planned == Names(draftPlan)
           n == Len(draftPlan)
<1>1. draftPlan \in Seq(Section) /\ names = TransformationForGeneration(draftPlan)
  BY DEF DocumentInv
<1>2. names \in Seq(Name) /\ Len(names) = n
  BY <1>1, AddedOnce
<1>3. planned \in Seq(Name) /\ Len(planned) = n
  <2>1. n \in Nat /\ DOMAIN draftPlan = 1 .. n /\ \A i \in 1 .. n : draftPlan[i] \in Section
    BY <1>1, Elements
  <2>2. planned \in [1 .. n -> Name]
    BY <2>1 DEF Names, Section
  <2> HIDE DEF planned, n
  <2> QED
    BY <2>1, <2>2
<1>4. /\ clauses \in Seq(Clause) /\ Len(clauses) = n
      /\ \E turns \in Bijection(1 .. n, 1 .. n) :
           [i \in DOMAIN clauses |-> clauses[i].heading] = Taken(names, turns)
  BY <1>2, ClauseForEach
<1>5. ASSUME NEW name
      PROVE  Times(Headings(doc), name) = Times(planned, name)
  <2>1. PICK turns \in Bijection(1 .. n, 1 .. n) :
          [i \in DOMAIN clauses |-> clauses[i].heading] = Taken(names, turns)
    BY <1>4
  <2>2. Times(Taken(names, turns), name) = Times(names, name)
    BY <1>2, SameTimes
  <2>3. PICK places \in Bijection(1 .. n, 1 .. n) : names = Taken(planned, places)
    BY <1>1, AddedOnce
  <2>4. Times(Taken(planned, places), name) = Times(planned, name)
    BY <1>3, SameTimes
  <2>5. Headings(doc) = Taken(names, turns)
    BY <2>1 DEF Headings
  <2> QED
    BY <2>2, <2>3, <2>4, <2>5
<1>6. doc.clauses = clauses /\ doc.recitals = recitals /\ doc.parties = parties
  OBVIOUS
<1> HIDE DEF doc, clauses
<1>7. DocumentHolds(doc)
  BY <1>4, <1>5, <1>6 DEF DocumentHolds
<1> QED
  BY <1>7 DEF doc, clauses

\* The assembled document and its renderings have every planned section.
LEMMA DocumentInvHolds ==
  ASSUME DocumentInv PROVE NothingDropped /\ DocumentTypeOK
<1>1. draftPlan \in Seq(Section) /\ Len(draftPlan) \in 0 .. MaxSections
  BY DEF DocumentInv
<1>2. ASSUME NEW doc \in document
      PROVE  /\ RenderContract(doc) \in Seq(Pieces(0 .. MaxSections))
             /\ RenderContract(doc) # <<>>
             /\ DocumentToText(doc) = RenderContract(doc)
             /\ SectionsMissing(RenderContract(doc)) = {}
  <2>1. DocumentHolds(doc)
    BY DEF DocumentInv
  <2>2. doc.clauses \in Seq(Clause) /\ Len(doc.clauses) = Len(draftPlan)
    BY <2>1 DEF DocumentHolds
  <2>3. /\ RenderContract(doc) \in Seq(Pieces(0 .. Len(doc.clauses)))
        /\ RenderContract(doc) # <<>>
        /\ \A i \in DOMAIN doc.clauses : \E k \in DOMAIN RenderContract(doc) :
             RenderContract(doc)[k].what = doc.clauses[i].heading
    BY <2>2, RenderedDocument
  <2>4. RenderContract(doc) \in Seq(Pieces(0 .. MaxSections))
    <3>1. 0 .. Len(doc.clauses) \subseteq 0 .. MaxSections
      BY <1>1, <2>2, MaxSectionsAssumption
    <3>2. Pieces(0 .. Len(doc.clauses)) \subseteq Pieces(0 .. MaxSections)
      BY <3>1 DEF Pieces
    <3> HIDE DEF Pieces
    <3>3. \A S, T : S \subseteq T => Seq(S) \subseteq Seq(T)
      OBVIOUS
    <3> QED
      BY <2>3, <3>2, <3>3
  <2>5. ASSUME NEW i \in DOMAIN draftPlan
        PROVE  \E k \in DOMAIN RenderContract(doc) :
                 RenderContract(doc)[k].what = draftPlan[i].name
    <3> DEFINE name == draftPlan[i].name
    <3>1. Times(Headings(doc), name) = Times(Names(draftPlan), name)
      BY <2>1 DEF DocumentHolds
    <3>2. i \in {j \in DOMAIN Names(draftPlan) : Names(draftPlan)[j] = name}
      BY DEF Names
    <3>3. IsFiniteSet({j \in DOMAIN Names(draftPlan) : Names(draftPlan)[j] = name})
      <4>1. DOMAIN Names(draftPlan) = 1 .. Len(draftPlan) /\ Len(draftPlan) \in Nat
        BY <1>1, Elements DEF Names
      <4>2. IsFiniteSet(1 .. Len(draftPlan))
        BY <4>1, FS_Interval
      <4> QED
        BY <4>1, <4>2, FS_Subset
    <3>4. Times(Names(draftPlan), name) # 0
      BY <3>2, <3>3, FS_EmptySet DEF Times
    <3>5. {j \in DOMAIN Headings(doc) : Headings(doc)[j] = name} # {}
      BY <3>1, <3>4, FS_EmptySet DEF Times
    <3>6. PICK j \in DOMAIN doc.clauses : doc.clauses[j].heading = name
      BY <3>5 DEF Headings
    <3> QED
      BY <2>3, <3>6
  <2>6. DocumentToText(doc) = RenderContract(doc)
    BY <2>2, TextIsDocx
  <2> QED
    BY <2>3, <2>4, <2>5, <2>6 DEF SectionsMissing
<1>3. \/ rendered = NotRendered
      \/ \E doc \in document :
           rendered = [docx |-> RenderContract(doc), text |-> RenderContract(doc)]
  BY <1>2 DEF DocumentInv
<1>4. NothingDropped
  <2>1. \A doc \in document : \A name \in Name :
           Times(Headings(doc), name) = Times(Names(draftPlan), name)
    BY DEF DocumentInv, DocumentHolds
  <2>2. rendered # NotRendered =>
           rendered.text = rendered.docx /\ SectionsMissing(rendered.text) = {}
    BY <1>2, <1>3
  <2> QED
    BY <2>1, <2>2 DEF NothingDropped
<1>5. DocumentTypeOK
  <2>1. draftPlan \in SectionList
    BY <1>1, SectionLists
  <2>2. \A names \in add : names \in Seq(Name)
    BY <1>1, AddedOnce DEF DocumentInv
  <2>3. \A doc \in document :
          doc.clauses \in Seq(Clause) /\ doc.recitals \in BOOLEAN /\ doc.parties \in BOOLEAN
    BY DEF DocumentInv, DocumentHolds
  <2>4. ASSUME NEW form \in {rendered.docx, rendered.text}, NEW i \in DOMAIN form
        PROVE  form[i].part \in Part /\ form[i].number \in 0 .. MaxSections
    <3>1. CASE rendered = NotRendered
      BY <3>1 DEF NotRendered
    <3>2. CASE rendered # NotRendered
      <4>1. form \in Seq(Pieces(0 .. MaxSections))
        BY <1>2, <1>3, <3>2
      <4>2. form[i] \in Pieces(0 .. MaxSections)
        BY <4>1, Elements
      <4> QED
        BY <4>2 DEF Pieces
    <3> QED
      BY <3>1, <3>2
  <2> QED
    BY <2>1, <2>2, <2>3, <2>4 DEF DocumentTypeOK
<1> QED
  BY <1>4, <1>5

\* The document is assembled and rendered from the plan.
LEMMA AlwaysDocumentInv == Spec => []DocumentInv
<1>1. Init => DocumentInv
  <2> SUFFICES ASSUME Init PROVE DocumentInv
    OBVIOUS
  <2>1. <<>> \in SectionList
    <3>1. <<>> \in Seq(Section) /\ Len(<<>>) = 0 /\ 0 \in 0 .. MaxSections
      BY MaxSectionsAssumption
    <3> QED
      BY <3>1, SectionLists
  <2>2. \E list \in SectionList : DocumentStart(list)
    BY <2>1 DEF Init, DocumentInit
  <2>3. PICK list \in SectionList : DocumentStart(list)
    BY <2>2
  <2>4. list \in Seq(Section) /\ Len(list) \in 0 .. MaxSections
    BY SectionLists
  <2> QED
    BY <2>3, <2>4 DEF DocumentStart, DocumentInv
<1>2. DocumentInv /\ [Next]_<<step, knowledgeVars, choiceVars, documentVars, templateVars, leakVars>>
        => DocumentInv'
  <2> SUFFICES ASSUME DocumentInv, DocumentNext \/ UNCHANGED documentVars PROVE DocumentInv'
    BY DEF Next
  <2>1. CASE PlanTransformation
    BY <2>1 DEF DocumentInv, PlanTransformation, DocumentHolds
  <2>2. CASE BuildContractDocument
    <3>1. PICK names \in add, library \in SUBSET DOMAIN LibraryOrder,
               recitals \in BOOLEAN, parties \in BOOLEAN :
            \E drafted \in SUBSET ToSet(names) :
               document' = {[clauses |-> Clauses(names, drafted, library),
                             recitals |-> recitals, parties |-> parties]}
      BY <2>2 DEF BuildContractDocument
    <3>2. PICK drafted :
            document' = {[clauses |-> Clauses(names, drafted, library),
                          recitals |-> recitals, parties |-> parties]}
      BY <3>1
    <3> DEFINE doc == [clauses |-> Clauses(names, drafted, library),
                       recitals |-> recitals, parties |-> parties]
    <3>3. DocumentHolds(doc)
      BY BuiltFromPlan
    <3>4. document' = {doc}
      BY <3>2
    <3> HIDE DEF doc
    <3>5. /\ document = {} /\ UNCHANGED <<draftPlan, add, rendered>>
      BY <2>2 DEF BuildContractDocument
    <3>6. rendered = NotRendered
      BY <3>5 DEF DocumentInv
    <3>7. DocumentHolds(doc)'
      BY <3>3, <3>5 DEF DocumentHolds
    <3>8. \A other \in document' : other = doc
      BY <3>4
    <3> QED
      BY <3>5, <3>6, <3>7, <3>8 DEF DocumentInv, DocumentHolds
  <2>3. CASE DraftModeOne
    BY <2>3 DEF DocumentInv, DraftModeOne, DocumentHolds
  <2>4. CASE UNCHANGED documentVars
    BY <2>4 DEF DocumentInv, documentVars, DocumentHolds
  <2> QED
    BY <2>1, <2>2, <2>3, <2>4 DEF DocumentNext
<1> QED
  BY <1>1, <1>2, PTL DEF Spec

\* Through both sortings no planned section is lost or doubled, the text the gates
\* read is the DOCX paragraph by paragraph, and the gate that looks for the planned
\* sections finds them (planning.py, document.py, docx_build.py), for any plan.
THEOREM NoSectionIsDropped == Spec => []NothingDropped
<1>1. DocumentInv => NothingDropped
  BY DocumentInvHolds
<1> QED
  BY <1>1, AlwaysDocumentInv, PTL

(***************************************************************************)
(* A document edited in place                                              *)
(***************************************************************************)

\* The place of an element, when there is one
LEMMA PlaceIsThere ==
  ASSUME NEW S, NEW s \in Seq(S), NEW o
  PROVE  /\ PlaceOf(s, o) = 0 <=> \A k \in 1 .. Len(s) : s[k].origin # o
         /\ PlaceOf(s, o) # 0 =>
               PlaceOf(s, o) \in 1 .. Len(s) /\ s[PlaceOf(s, o)].origin = o
         /\ PlaceOf(s, o) \in 0 .. Len(s)
<1> DEFINE I == {i \in 1 .. Len(s) : s[i].origin = o}
<1>1. Len(s) \in Nat
  BY Elements
<1>2. PlaceOf(s, o) = IF I # {} THEN Min(I) ELSE 0
  BY DEF PlaceOf, SelectInSeq
<1>3. I # {} => Min(I) \in I
  <2> SUFFICES ASSUME I # {} PROVE Min(I) \in I
    OBVIOUS
  <2>1. I \subseteq Nat
    BY <1>1
  <2> HIDE DEF I
  <2>2. \E x \in I : \A y \in I : x <= y
    BY <2>1, LeastOf
  <2> QED
    BY <2>2 DEF Min
<1>4. I # {} => Min(I) # 0
  BY <1>1, <1>3
<1> QED
  BY <1>1, <1>2, <1>3, <1>4

\* What has been uploaded, each element at its place
Uploaded ==
    /\ source \in Seq(Element) /\ Len(source) \in 0 .. MaxBlocks
    /\ \A i \in 1 .. Len(source) : source[i].origin = i /\ source[i].text # Drafted

\* How many of the same came before
Same(s, i) == {j \in 1 .. i - 1 : s[j].style = s[i].style /\ s[j].text = s[i].text}

\* An id is the style, the text and how many of the same came before (docx_parse.block_ids).
LEMMA IdsOf ==
  ASSUME NEW s
  PROVE  /\ DOMAIN BlockIds(s) = DOMAIN s
         /\ \A i \in DOMAIN s :
              BlockIds(s)[i] = <<s[i].style, s[i].text, Cardinality(Same(s, i))>>
BY DEF BlockIds, Same

\* No two blocks have the same id: what is alike is counted.
LEMMA IdsDiffer ==
  ASSUME NEW S, NEW s \in Seq(S), NEW i \in DOMAIN s, NEW j \in DOMAIN s,
         BlockIds(s)[i] = BlockIds(s)[j]
  PROVE  i = j
<1>1. DOMAIN s \subseteq Nat \ {0}
  BY Elements
<1>2. ASSUME NEW k \in DOMAIN s, NEW l \in DOMAIN s, k < l,
             BlockIds(s)[k] = BlockIds(s)[l]
      PROVE  FALSE
  <2>1. /\ s[k].style = s[l].style /\ s[k].text = s[l].text
        /\ Cardinality(Same(s, k)) = Cardinality(Same(s, l))
    BY <1>2, IdsOf
  <2>2. k \in Nat \ {0} /\ l \in Nat \ {0}
    BY <1>1
  <2>3. IsFiniteSet(1 .. l - 1)
    BY <2>2, FS_Interval
  <2>4. Same(s, k) \cup {k} \subseteq Same(s, l) /\ k \notin Same(s, k)
    BY <1>2, <2>1, <2>2 DEF Same
  <2>5. Same(s, l) \in SUBSET (1 .. l - 1)
    BY DEF Same
  <2>6. IsFiniteSet(Same(s, l))
    BY <2>3, <2>5, FS_Subset
  <2>7. IsFiniteSet(Same(s, k))
    BY <2>4, <2>6, FS_Subset
  <2>8. Cardinality(Same(s, k) \cup {k}) = Cardinality(Same(s, k)) + 1
    BY <2>4, <2>7, FS_AddElement
  <2>9. Cardinality(Same(s, k) \cup {k}) <= Cardinality(Same(s, l))
    BY <2>4, <2>6, FS_Subset
  <2>10. Cardinality(Same(s, k)) \in Nat
    BY <2>7, FS_CardinalityType
  <2> QED
    BY <2>1, <2>8, <2>9, <2>10
<1> QED
  BY <1>1, <1>2

\* The ids of the uploaded blocks
SourceIds == ToSet(BlockIds(source))

\* What is uploaded is typed, and its blocks have ids of their own.
LEMMA SourceIdsAre ==
  ASSUME Uploaded
  PROVE  /\ DOMAIN source = 1 .. Len(source) /\ Len(source) \in Nat
         /\ \A i \in 1 .. Len(source) : source[i] \in Element
         /\ SourceIds = {BlockIds(source)[i] : i \in DOMAIN source}
         /\ \A i, j \in DOMAIN source : BlockIds(source)[i] = BlockIds(source)[j] => i = j
<1>1. DOMAIN source = 1 .. Len(source) /\ Len(source) \in Nat
  BY Elements DEF Uploaded
<1>2. \A i \in 1 .. Len(source) : source[i] \in Element
  BY Elements DEF Uploaded
<1>3. SourceIds = {BlockIds(source)[i] : i \in DOMAIN source}
  BY IdsOf DEF SourceIds, ToSet
<1>4. \A i, j \in DOMAIN source : BlockIds(source)[i] = BlockIds(source)[j] => i = j
  BY IdsDiffer DEF Uploaded
<1> QED
  BY <1>1, <1>2, <1>3, <1>4

\* An added section stands beside nothing or beside a block, and is cloned from
\* an element there is.
LEMMA DonorIsThere ==
  ASSUME Uploaded, NEW id \in {NoBlock} \cup SourceIds
  PROVE  /\ Anchor(id) \in 0 .. Len(source)
         /\ Donor(Anchor(id)) \in 0 .. Len(source)
<1>1. Anchor(id) \in 0 .. Len(source)
  <2>1. CASE id = NoBlock
    BY <2>1, SourceIdsAre DEF Anchor
  <2>2. CASE id # NoBlock
    <3>1. \E i \in DOMAIN source : BlockIds(source)[i] = id
      BY <2>2, SourceIdsAre
    <3>2. Anchor(id) = CHOOSE i \in DOMAIN source : BlockIds(source)[i] = id
      BY <2>2 DEF Anchor
    <3> QED
      BY <3>1, <3>2, SourceIdsAre
  <2> QED
    BY <2>1, <2>2
<1> DEFINE a == Anchor(id)
           I == {i \in 1 .. Len(source) :
                   source[i].kind = "paragraph" /\ source[i].style = source[a].style}
<1>2. Donor(a) \in {0, a, IF I # {} THEN Max(I) ELSE 0}
  BY DEF Donor, SelectLastInSeq
<1>3. I # {} => Max(I) \in I
  <2>1. I \in SUBSET (1 .. Len(source)) /\ Len(source) \in Nat
    BY SourceIdsAre
  <2> HIDE DEF I
  <2> QED
    BY <2>1, GreatestIn
<1> QED
  BY <1>1, <1>2, <1>3

\* An element that is not of the source but was added
Added(b) == b.origin = 0 /\ b.text = Drafted
AddedIn(list) == {k \in 1 .. Len(list) : list[k].origin = 0}

\* An element that is left, with the text it gets
Rewritten(i, modified) ==
    IF i \in modified THEN [source[i] EXCEPT !.text = Drafted] ELSE source[i]

\* An edited list: the elements that are left, rewritten where that was planned, in
\* the order of the source, and z elements that were added.
Carries(list, left, modified, z) ==
    /\ list \in Seq(Element)
    /\ \A i \in left : \E k \in 1 .. Len(list) : list[k].origin = i
    /\ \A k \in 1 .. Len(list) :
         \/ Added(list[k])
         \/ list[k].origin \in left /\ list[k] = Rewritten(list[k].origin, modified)
    /\ \A j, k \in 1 .. Len(list) :
         j < k /\ list[j].origin # 0 /\ list[k].origin # 0 => list[j].origin < list[k].origin
    /\ IsFiniteSet(AddedIn(list)) /\ Cardinality(AddedIn(list)) = z

\* One more element that was added, in any place.
LEMMA AddingCarries ==
  ASSUME NEW s, NEW left \in SUBSET (Nat \ {0}), NEW modified, NEW z \in Nat,
         Carries(s, left, modified, z), NEW t \in Seq(Element), NEW p, NEW e,
         Widened(t, s, p, e), Added(e)
  PROVE  Carries(t, left, modified, z + 1)
<1> DEFINE n == Len(s)
           sh(k) == IF k <= p THEN k ELSE k + 1
           back(k) == IF k <= p THEN k ELSE k - 1
<1>1. n \in Nat /\ p \in 0 .. n /\ Len(t) = n + 1 /\ t[p + 1] = e
  BY Elements DEF Carries, Widened
<1>2. \A k \in 1 .. n : sh(k) \in 1 .. n + 1 /\ sh(k) # p + 1 /\ t[sh(k)] = s[k]
  BY <1>1 DEF Widened
<1>3. \A k \in 1 .. n + 1 : k # p + 1 =>
         back(k) \in 1 .. n /\ t[k] = s[back(k)] /\ sh(back(k)) = k
  <2> SUFFICES ASSUME NEW k \in 1 .. n + 1, k # p + 1
               PROVE  back(k) \in 1 .. n /\ t[k] = s[back(k)] /\ sh(back(k)) = k
    OBVIOUS
  <2>1. back(k) \in 1 .. n /\ sh(back(k)) = k
    BY <1>1
  <2> QED
    BY <1>2, <2>1
<1>4. \A j, k \in 1 .. n : sh(j) = sh(k) => j = k
  BY <1>1
<1>5. \A j, k \in 1 .. n + 1 : j < k /\ j # p + 1 /\ k # p + 1 => back(j) < back(k)
  BY <1>1
<1> HIDE DEF n, sh, back
<1>6. \A i \in left : \E k \in 1 .. Len(t) : t[k].origin = i
  <2> SUFFICES ASSUME NEW i \in left PROVE \E k \in 1 .. Len(t) : t[k].origin = i
    OBVIOUS
  <2>1. PICK k \in 1 .. n : s[k].origin = i
    BY DEF Carries, n
  <2> QED
    BY <1>1, <1>2, <2>1
<1>7. \A k \in 1 .. Len(t) :
         \/ Added(t[k])
         \/ t[k].origin \in left /\ t[k] = Rewritten(t[k].origin, modified)
  <2> SUFFICES ASSUME NEW k \in 1 .. n + 1
               PROVE  \/ Added(t[k])
                      \/ t[k].origin \in left /\ t[k] = Rewritten(t[k].origin, modified)
    BY <1>1
  <2>1. CASE k = p + 1
    BY <1>1, <2>1
  <2>2. CASE k # p + 1
    BY <1>3, <2>2 DEF Carries, n
  <2> QED
    BY <2>1, <2>2
<1>8. \A j, k \in 1 .. Len(t) :
         j < k /\ t[j].origin # 0 /\ t[k].origin # 0 => t[j].origin < t[k].origin
  <2> SUFFICES ASSUME NEW j \in 1 .. n + 1, NEW k \in 1 .. n + 1,
                      j < k, t[j].origin # 0, t[k].origin # 0
               PROVE  t[j].origin < t[k].origin
    BY <1>1
  <2>1. j # p + 1 /\ k # p + 1
    BY <1>1 DEF Added
  <2>2. back(j) \in 1 .. n /\ back(k) \in 1 .. n /\ back(j) < back(k)
    BY <1>3, <1>5, <2>1
  <2>3. t[j] = s[back(j)] /\ t[k] = s[back(k)]
    BY <1>3, <2>1
  <2> QED
    BY <2>2, <2>3 DEF Carries, n
<1>9. IsFiniteSet(AddedIn(t)) /\ Cardinality(AddedIn(t)) = z + 1
  <2> DEFINE A == AddedIn(s)
             B == AddedIn(t) \ {p + 1}
             f == [k \in A |-> sh(k)]
  <2>1. A \subseteq 1 .. n /\ \A k \in 1 .. n : k \in A <=> s[k].origin = 0
    BY DEF AddedIn, n
  <2>2. /\ B \subseteq 1 .. n + 1
        /\ \A k \in 1 .. n + 1 : k \in B <=> t[k].origin = 0 /\ k # p + 1
    BY <1>1 DEF AddedIn
  <2>3. p + 1 \in AddedIn(t)
    BY <1>1 DEF AddedIn, Added
  <2>c. IsFiniteSet(A) /\ Cardinality(A) = z
    BY DEF Carries
  <2> HIDE DEF A, B
  <2>4. f \in [A -> B] /\ \A j, k \in A : f[j] = f[k] => j = k
    <3>1. \A k \in A : sh(k) \in B
      BY <1>2, <2>1, <2>2
    <3> QED
      BY <1>4, <2>1, <3>1
  <2>5. \A k \in B : \E j \in A : f[j] = k
    <3> SUFFICES ASSUME NEW k \in B PROVE \E j \in A : f[j] = k
      OBVIOUS
    <3>1. back(k) \in 1 .. n /\ t[k] = s[back(k)] /\ sh(back(k)) = k
      BY <1>3, <2>2
    <3>2. back(k) \in A
      BY <2>1, <2>2, <3>1
    <3> QED
      BY <3>1, <3>2
  <2> HIDE DEF f
  <2>6. f \in Bijection(A, B)
    BY <2>4, <2>5, Fun_IsBij
  <2>7. ExistsBijection(A, B)
    BY <2>6 DEF ExistsBijection
  <2>8. IsFiniteSet(B) /\ Cardinality(B) = z
    BY <2>c, <2>7, FS_Bijection
  <2>9. AddedIn(t) = B \cup {p + 1} /\ p + 1 \notin B
    BY <2>3 DEF B
  <2> DEFINE q == p + 1
  <2> HIDE DEF q
  <2>10. IsFiniteSet(B \cup {q}) /\ (q \notin B => Cardinality(B \cup {q}) = Cardinality(B) + 1)
    BY <2>8, FS_AddElement
  <2> QED
    BY <2>8, <2>9, <2>10 DEF q
<1> QED
  BY <1>6, <1>7, <1>8, <1>9 DEF Carries

\* Whether the element a section is to be cloned from is no longer there
Cloned(id) == Donor(Anchor(id)) # 0 /\ source[Donor(Anchor(id))].kind = "paragraph"
Lost(id, left) == Cloned(id) /\ Donor(Anchor(id)) \notin left

\* What an addition works on: the list so far, and how many had no style
AddState == [list : Seq(Element), unstyled : Nat]

\* What one step of the additions makes of what there is: an element more, or nothing
\* where the paragraph to clone is not there.
AddedOne(new, state, id) ==
    /\ new \in AddState /\ new.unstyled \in {state.unstyled, state.unstyled + 1}
    /\ IF Cloned(id) /\ PlaceOf(state.list, Donor(Anchor(id))) = 0 THEN new = state
       ELSE \E p, e : Added(e) /\ Widened(new.list, state.list, p, e)

\* One ADD makes one such step.
LEMMA AddOneAdds ==
  ASSUME Uploaded, NEW id \in {NoBlock} \cup SourceIds, NEW state \in AddState
  PROVE  AddedOne(AddOne(state, id), state, id)
<1> DEFINE d == Donor(Anchor(id))
           s == state.list
           place == PlaceOf(s, d)
           clone == [source[d] EXCEPT !.text = Drafted, !.origin = 0]
           unstyled == [kind |-> "paragraph", style |-> Plain, numbered |-> FALSE,
                        text |-> Drafted, origin |-> 0]
<1>1. d \in 0 .. Len(source)
  BY DonorIsThere
<1>2. s \in Seq(Element) /\ state.unstyled \in Nat
  BY DEF AddState
<1>3. CASE d = 0 \/ source[d].kind = "table"
  <2>1. AddOne(state, id) = [list |-> Append(s, unstyled), unstyled |-> state.unstyled + 1]
    BY <1>3 DEF AddOne
  <2>2. unstyled \in Element /\ Added(unstyled)
    BY BlockBounds DEF Element, Added
  <2>3. ~Cloned(id)
    BY <1>3 DEF Cloned
  <2> HIDE DEF s, d, unstyled
  <2>4. Append(s, unstyled) \in Seq(Element) /\ Widened(Append(s, unstyled), s, Len(s), unstyled)
    BY <1>2, <2>2, AppendWidens
  <2>5. AddOne(state, id) \in AddState
    BY <1>2, <2>1, <2>4 DEF AddState
  <2>6. /\ AddOne(state, id).list = Append(s, unstyled)
        /\ AddOne(state, id).unstyled = state.unstyled + 1
    BY <2>1
  <2> QED
    BY <2>2, <2>3, <2>4, <2>5, <2>6 DEF AddedOne, s
<1>4. CASE ~(d = 0 \/ source[d].kind = "table")
  <2>1. AddOne(state, id) = IF place = 0 THEN state
                            ELSE [state EXCEPT !.list = InsertAt(s, place + 1, clone)]
    BY <1>4 DEF AddOne
  <2>2. source[d] \in Element /\ d \in DOMAIN source
    BY <1>1, <1>4, SourceIdsAre
  <2>3. Cloned(id)
    BY <1>4, <2>2 DEF Element, Cloned
  <2>4. clone \in Element /\ Added(clone)
    <3>1. ASSUME NEW b \in Element
          PROVE  /\ [b EXCEPT !.text = Drafted, !.origin = 0] \in Element
                 /\ Added([b EXCEPT !.text = Drafted, !.origin = 0])
      <4>1. 0 \in 0 .. MaxBlocks
        BY BlockBounds
      <4>2. \A D \in {"words", Execution, Drafted}, o \in 0 .. MaxBlocks :
               [b EXCEPT !.text = D, !.origin = o] \in Element
        BY DEF Element
      <4>3. [b EXCEPT !.text = Drafted, !.origin = 0].text = Drafted
        BY DEF Element
      <4>4. [b EXCEPT !.text = Drafted, !.origin = 0].origin = 0
        BY DEF Element
      <4> QED
        BY <4>1, <4>2, <4>3, <4>4 DEF Added
    <3> QED
      BY <2>2, <3>1
  <2> HIDE DEF s, clone
  <2>5. place # 0 => place \in 1 .. Len(s)
    <3> HIDE DEF d
    <3> QED
      BY <1>2, PlaceIsThere
  <2>6. CASE place = 0
    BY <2>1, <2>3, <2>6 DEF AddedOne, s
  <2>7. CASE place # 0
    <3> HIDE DEF place
    <3>1. /\ InsertAt(s, place + 1, clone) \in Seq(Element)
          /\ Widened(InsertAt(s, place + 1, clone), s, place, clone)
      BY <1>2, <2>4, <2>5, <2>7, InsertWidens
    <3>2. /\ AddOne(state, id).list = InsertAt(s, place + 1, clone)
          /\ AddOne(state, id).unstyled = state.unstyled
          /\ AddOne(state, id) \in AddState
      BY <2>1, <2>7, <3>1 DEF AddState
    <3> QED
      BY <2>4, <2>7, <3>1, <3>2 DEF AddedOne, s, place
  <2> QED
    BY <2>6, <2>7
<1> QED
  BY <1>3, <1>4

\* What was carried still is.
LEMMA AddOneCarries ==
  ASSUME Uploaded, NEW id \in {NoBlock} \cup SourceIds, NEW state \in AddState,
         NEW left \in SUBSET (DOMAIN source), NEW modified, NEW z \in Nat,
         Carries(state.list, left, modified, z)
  PROVE  Carries(AddOne(state, id).list, left, modified,
                 IF Lost(id, left) THEN z ELSE z + 1)
<1> DEFINE d == Donor(Anchor(id))
           s == state.list
           place == PlaceOf(s, d)
           new == AddOne(state, id)
<1>1. AddedOne(new, state, id)
  BY AddOneAdds
<1>2. left \in SUBSET (Nat \ {0}) /\ s \in Seq(Element)
  BY SourceIdsAre DEF AddState
<1>3. d \in 0 .. Len(source)
  BY DonorIsThere
<1> HIDE DEF d, new
<1>4. /\ place = 0 <=> \A k \in 1 .. Len(s) : s[k].origin # d
      /\ place # 0 => place \in 1 .. Len(s) /\ s[place].origin = d
  BY <1>2, PlaceIsThere
<1> HIDE DEF place
<1>5. d # 0 => (place = 0 <=> d \notin left)
  BY <1>3, <1>4 DEF Carries, Added
<1>6. Lost(id, left) <=> Cloned(id) /\ place = 0
  BY <1>5 DEF Lost, Cloned, d
<1>7. CASE Lost(id, left)
  BY <1>1, <1>6, <1>7 DEF AddedOne, new, place, d
<1>8. CASE ~Lost(id, left)
  <2>1. PICK p, e : Added(e) /\ Widened(new.list, s, p, e)
    BY <1>1, <1>6, <1>8 DEF AddedOne, place, d
  <2>2. new.list \in Seq(Element)
    BY <1>1 DEF AddedOne, AddState
  <2> HIDE DEF s
  <2>3. Carries(new.list, left, modified, z + 1)
    BY <1>2, <2>1, <2>2, AddingCarries DEF s
  <2> QED
    BY <1>8, <2>3 DEF new
<1> QED
  BY <1>7, <1>8

\* What there is after each of the additions
AddRun(g, start, adds, n) ==
    /\ g \in [0 .. n -> AddState]
    /\ g[0] = start
    /\ \A k \in 1 .. n : g[k] = AddOne(g[k - 1], adds[k])
    /\ g[n] = FoldLeft(AddOne, start, adds)

\* The additions are made one by one, in the order of the plan.
LEMMA AddsOneByOne ==
  ASSUME Uploaded, NEW start \in AddState, NEW n \in Nat,
         NEW adds \in [1 .. n -> {NoBlock} \cup SourceIds]
  PROVE  \E g : AddRun(g, start, adds, n)
<1> DEFINE T == AddState
           Rule(h) == h = [places \in SUBSET (1 .. n) |->
                             IF places = {} THEN start
                             ELSE AddOne(h[places \ {Max(places)}], adds[Max(places)])]
           f == [p \in T \X (1 .. n) |-> AddOne(p[1], adds[p[2]])]
<1>1. DOMAIN adds = 1 .. n /\ \A k \in 1 .. n : adds[k] \in {NoBlock} \cup SourceIds
  OBVIOUS
<1>p. \A g : /\ g \in [0 .. n -> T] /\ g[0] = start
             /\ \A k \in 1 .. n : g[k] = AddOne(g[k - 1], adds[k])
             /\ g[n] = FoldLeft(AddOne, start, adds)
             => AddRun(g, start, adds, n)
  BY DEF AddRun
<1>4. \A t \in T, k \in 1 .. n : AddOne(t, adds[k]) \in T
  BY <1>1, AddOneAdds DEF AddedOne
<1> HIDE DEF T
<1>5. /\ f \in [T \X (1 .. n) -> T]
      /\ \A t \in T, k \in 1 .. n : f[<<t, k>>] = AddOne(t, adds[k])
  BY <1>4
<1>6. start \in T
  BY DEF T
<1> HIDE DEF f
<1>m. \A places \in SUBSET (1 .. n) : places # {} =>
         Max(places) \in places /\ places \ {Max(places)} \in SUBSET (1 .. n)
  BY GreatestIn
<1>7. \E h : h \in [SUBSET (1 .. n) -> T] /\ Rule(h)
  <2>1. PICK g : Fold(g, n, T, start, f)
    BY <1>5, <1>6, Folding
  <2>2. /\ g \in [SUBSET (1 .. n) -> T]
        /\ \A places \in SUBSET (1 .. n) :
             g[places] = IF places = {} THEN start
                         ELSE f[<<g[places \ {Max(places)}], Max(places)>>]
    BY <2>1 DEF Fold
  <2>3. \A places \in SUBSET (1 .. n) : places # {} =>
          f[<<g[places \ {Max(places)}], Max(places)>>]
            = AddOne(g[places \ {Max(places)}], adds[Max(places)])
    BY <1>5, <1>m, <2>2
  <2>4. Rule(g)
    BY <2>2, <2>3
  <2> QED
    BY <2>2, <2>4
<1> DEFINE made == CHOOSE h : Rule(h)
           g == [k \in 0 .. n |-> made[1 .. k]]
<1>8. Rule(made)
  BY <1>7
<1>9. FoldLeft(AddOne, start, adds) = made[1 .. n]
  BY <1>1 DEF FoldLeft, MapThenFoldSet
<1> HIDE DEF made
<1>10. g[0] = start
  <2>1. 1 .. 0 = {} /\ {} \in SUBSET (1 .. n) /\ 0 \in 0 .. n
    OBVIOUS
  <2> QED
    BY <1>8, <2>1
<1>11. ASSUME NEW k \in 1 .. n PROVE k - 1 \in 0 .. n /\ g[k] = AddOne(g[k - 1], adds[k])
  <2>1. k \in Nat \ {0} /\ k \in 0 .. n /\ k - 1 \in 0 .. n
    OBVIOUS
  <2>2. k \in 1 .. k /\ \A j \in 1 .. k : j \in 1 .. n
    OBVIOUS
  <2>3. Max(1 .. k) = k /\ (1 .. k) \ {Max(1 .. k)} = 1 .. k - 1
    BY <2>1, Greatest
  <2>4. made[1 .. k] = AddOne(made[1 .. k - 1], adds[k])
    BY <1>8, <2>2, <2>3
  <2> QED
    BY <2>1, <2>4
<1>12. DOMAIN g = 0 .. n /\ g[n] = FoldLeft(AddOne, start, adds)
  <2>1. n \in 0 .. n
    OBVIOUS
  <2> QED
    BY <1>9, <2>1
<1> DEFINE Z == {k \in 0 .. n : g[k] \in T}
<1>13. \A k \in 0 .. n : k \in Z
  <2>1. 0 \in Z
    BY <1>6, <1>10
  <2>2. ASSUME NEW k \in 1 .. n, k - 1 \in Z PROVE k \in Z
    <3>1. g[k - 1] \in T /\ k \in 0 .. n
      BY <2>2
    <3> HIDE DEF g
    <3> QED
      BY <1>4, <1>11, <3>1
  <2> HIDE DEF Z
  <2> QED
    BY <2>1, <2>2, Upwards
<1>14. g \in [0 .. n -> T]
  BY <1>13
<1> HIDE DEF g
<1>15. AddRun(g, start, adds, n)
  BY <1>10, <1>11, <1>12, <1>14, <1>p
<1> QED
  BY <1>15

\* The first sections of which there is nothing to clone
LostIn(adds, left, k) == {m \in 1 .. k : Lost(adds[m], left)}

\* What there is after all of them: as many elements more as were not lost.
AddedAll(end, adds, n, left, modified) ==
    /\ end \in AddState /\ end.unstyled \in 0 .. n
    /\ IsFiniteSet(LostIn(adds, left, n))
    /\ \E z \in Nat : /\ Carries(end.list, left, modified, z)
                      /\ z + Cardinality(LostIn(adds, left, n)) = n

\* After all of them everything is there that was not lost.
LEMMA AllAreAdded ==
  ASSUME Uploaded, NEW start \in AddState, start.unstyled = 0, NEW n \in Nat,
         NEW adds \in [1 .. n -> {NoBlock} \cup SourceIds],
         NEW left \in SUBSET (DOMAIN source), NEW modified,
         Carries(start.list, left, modified, 0)
  PROVE  AddedAll(FoldLeft(AddOne, start, adds), adds, n, left, modified)
<1>1. PICK g : AddRun(g, start, adds, n)
  BY AddsOneByOne
<1>2. /\ g[0] = start /\ g[n] = FoldLeft(AddOne, start, adds)
      /\ \A k \in 1 .. n : g[k] = AddOne(g[k - 1], adds[k])
      /\ \A k \in 0 .. n : g[k] \in AddState
  BY <1>1 DEF AddRun
<1> DEFINE Good(k) == AddedAll(g[k], adds, k, left, modified)
           Z == {k \in 0 .. n : Good(k)}
<1>g. \A k \in 0 .. n : k \in Z <=> Good(k)
  <2> HIDE DEF Good
  <2> QED
    OBVIOUS
<1> HIDE DEF Z
<1>3. 0 \in Z
  <2>1. LostIn(adds, left, 0) = {}
    BY DEF LostIn
  <2>2. IsFiniteSet(LostIn(adds, left, 0)) /\ Cardinality(LostIn(adds, left, 0)) = 0
    BY <2>1, FS_EmptySet
  <2>3. Good(0)
    BY <1>2, <2>2 DEF AddedAll
  <2> HIDE DEF Good
  <2> QED
    BY <1>g, <2>3
<1>4. ASSUME NEW k \in 1 .. n, k - 1 \in Z
      PROVE  k \in Z
  <2>1. k - 1 \in 0 .. n /\ k \in 0 .. n
    OBVIOUS
  <2>2. Good(k - 1)
    <3> HIDE DEF Good
    <3> QED
      BY <1>4, <1>g, <2>1
  <2> DEFINE before == LostIn(adds, left, k - 1)
             after == LostIn(adds, left, k)
  <2>3. PICK z \in Nat : /\ Carries(g[k - 1].list, left, modified, z)
                         /\ z + Cardinality(before) = k - 1
    BY <2>2 DEF AddedAll
  <2>4. g[k] = AddOne(g[k - 1], adds[k]) /\ adds[k] \in {NoBlock} \cup SourceIds
    BY <1>2
  <2>5. g[k - 1] \in AddState /\ g[k] \in AddState
    BY <1>2, <2>1
  <2>6. Carries(g[k].list, left, modified, IF Lost(adds[k], left) THEN z ELSE z + 1)
    BY <2>3, <2>4, <2>5, AddOneCarries
  <2>7. g[k].unstyled \in 0 .. k
    <3>1. g[k].unstyled \in {g[k - 1].unstyled, g[k - 1].unstyled + 1}
      BY <2>4, <2>5, AddOneAdds DEF AddedOne
    <3>2. g[k - 1].unstyled \in 0 .. k - 1
      BY <2>2 DEF AddedAll
    <3> QED
      BY <3>1, <3>2
  <2>8. k \notin before /\ after = IF Lost(adds[k], left) THEN before \cup {k} ELSE before
    BY DEF LostIn
  <2>9. IsFiniteSet(before)
    BY <2>2 DEF AddedAll
  <2> HIDE DEF before
  <2>10. /\ IsFiniteSet(before \cup {k}) /\ Cardinality(before \cup {k}) = Cardinality(before) + 1
         /\ Cardinality(before) \in Nat
    BY <2>8, <2>9, FS_AddElement, FS_CardinalityType
  <2>11. /\ IsFiniteSet(after)
         /\ (IF Lost(adds[k], left) THEN z ELSE z + 1) + Cardinality(after) = k
    <3> HIDE DEF after
    <3>1. CASE Lost(adds[k], left)
      BY <2>3, <2>8, <2>10, <3>1
    <3>2. CASE ~Lost(adds[k], left)
      BY <2>3, <2>8, <2>9, <2>10, <3>2
    <3> QED
      BY <3>1, <3>2
  <2>12. (IF Lost(adds[k], left) THEN z ELSE z + 1) \in Nat
    OBVIOUS
  <2>13. Good(k)
    BY <2>5, <2>6, <2>7, <2>11, <2>12 DEF AddedAll
  <2> HIDE DEF Good
  <2> QED
    BY <1>g, <2>1, <2>13
<1>5. n \in Z
  BY <1>3, <1>4, Upwards
<1>6. Good(n)
  <2>1. n \in 0 .. n
    OBVIOUS
  <2> HIDE DEF Good
  <2> QED
    BY <1>g, <1>5, <2>1
<1> QED
  BY <1>2, <1>6

\* What is left of the source, with the new texts
Remaining(removed, modified) ==
    LET left == Kept(source, DOMAIN source \ removed)
    IN  [i \in DOMAIN left |->
            IF left[i].origin \in modified THEN [left[i] EXCEPT !.text = Drafted]
            ELSE left[i]]

\* The removals and the replacements leave the others as they are, in their order.
LEMMA RemainingCarries ==
  ASSUME Uploaded, NEW removed, NEW modified
  PROVE  Carries(Remaining(removed, modified), DOMAIN source \ removed, modified, 0)
<1> DEFINE left == DOMAIN source \ removed
           n == Cardinality(left)
           K == Kept(source, left)
           L == Remaining(removed, modified)
<1>1. /\ DOMAIN source = 1 .. Len(source) /\ Len(source) \in Nat
      /\ \A i \in 1 .. Len(source) : source[i] \in Element /\ source[i].origin = i
  BY SourceIdsAre DEF Uploaded
<1>2. IsFiniteSet(left) /\ left \in SUBSET Int /\ left \in SUBSET (1 .. Len(source))
  <2>1. IsFiniteSet(1 .. Len(source))
    BY <1>1, FS_Interval
  <2> QED
    BY <1>1, <2>1, FS_Subset
<1>3. n \in Nat
  BY <1>2, FS_CardinalityType
<1> HIDE DEF left
<1>4. PICK turns \in Bijection(1 .. n, left) :
        /\ Kept(source, left) = Taken(source, turns)
        /\ \A j, k \in 1 .. n : j < k => turns[j] < turns[k]
  BY <1>2, Keeping
<1> HIDE DEF n
<1>5. /\ turns \in [1 .. n -> left]
      /\ \A i \in left : \E k \in 1 .. n : turns[k] = i
  <2> DEFINE N == 1 .. n
  <2>1. turns \in Bijection(N, left)
    OBVIOUS
  <2> HIDE DEF N
  <2>2. turns \in [N -> left] /\ \A i \in left : \E k \in N : turns[k] = i
    BY <2>1, Fun_BijectionProperties
  <2> QED
    BY <2>2 DEF N
<1>6. DOMAIN K = 1 .. n /\ \A k \in 1 .. n : K[k] = source[turns[k]] /\ turns[k] \in 1 .. Len(source)
  BY <1>2, <1>4, <1>5 DEF Taken
<1>7. L = [k \in 1 .. n |-> IF K[k].origin \in modified THEN [K[k] EXCEPT !.text = Drafted]
                            ELSE K[k]]
  BY <1>6 DEF Remaining, left
<1> HIDE DEF K, L
<1>8. \A k \in 1 .. n : L[k] = Rewritten(turns[k], modified)
  BY <1>1, <1>6, <1>7 DEF Rewritten
<1>9. \A i \in 1 .. Len(source) :
         Rewritten(i, modified) \in Element /\ Rewritten(i, modified).origin = i
  BY <1>1 DEF Rewritten, Element
<1>10. L \in [1 .. n -> Element]
  BY <1>6, <1>7, <1>8, <1>9
<1>11. L \in Seq(Element) /\ Len(L) = n
  BY <1>3, <1>10
<1>12. \A k \in 1 .. n : L[k].origin = turns[k] /\ turns[k] \in left /\ turns[k] # 0
  BY <1>5, <1>6, <1>8, <1>9
<1>13. AddedIn(L) = {}
  BY <1>11, <1>12 DEF AddedIn
<1>14. IsFiniteSet(AddedIn(L)) /\ Cardinality(AddedIn(L)) = 0
  BY <1>13, FS_EmptySet
<1>15. \A i \in left : \E k \in 1 .. Len(L) : L[k].origin = i
  BY <1>5, <1>11, <1>12
<1>16. \A k \in 1 .. Len(L) : L[k].origin \in left /\ L[k] = Rewritten(L[k].origin, modified)
  BY <1>8, <1>11, <1>12
<1>17. \A j, k \in 1 .. Len(L) : j < k => L[j].origin < L[k].origin
  BY <1>4, <1>11, <1>12
<1> QED
  BY <1>11, <1>14, <1>15, <1>16, <1>17 DEF Carries, left, L

\* What the execution page leaves of an element
Unnumbered(new, old, list, k) ==
    \/ new = old
    \/ /\ new = [old EXCEPT !.numbered = FALSE] /\ old.kind = "paragraph"
       /\ MentionsExecution(list, k)

\* Only numbers go, and only from where the execution page is first mentioned.
LEMMA OnlyNumbersGo ==
  ASSUME NEW list \in Seq(Element)
  PROVE  LET new == UnnumberExecutionBlock(list)
         IN  /\ new \in Seq(Element) /\ Len(new) = Len(list)
             /\ \A k \in 1 .. Len(list) :
                  /\ Unnumbered(new[k], list[k], new, k)
                  /\ new[k].kind = list[k].kind /\ new[k].style = list[k].style
                  /\ new[k].text = list[k].text /\ new[k].origin = list[k].origin
<1> DEFINE new == UnnumberExecutionBlock(list)
           n == Len(list)
<1>1. n \in Nat /\ DOMAIN list = 1 .. n /\ \A k \in 1 .. n : list[k] \in Element
  BY Elements
<1>2. new = [k \in 1 .. n |->
               IF /\ list[k].kind = "paragraph"
                  /\ \E j \in 1 .. k : list[j].kind = "paragraph" /\ list[j].text = Execution
               THEN [list[k] EXCEPT !.numbered = FALSE] ELSE list[k]]
  BY <1>1 DEF UnnumberExecutionBlock
<1> HIDE DEF new, n
<1>3. \A b \in Element : /\ [b EXCEPT !.numbered = FALSE] \in Element
                         /\ [b EXCEPT !.numbered = FALSE].kind = b.kind
                         /\ [b EXCEPT !.numbered = FALSE].style = b.style
                         /\ [b EXCEPT !.numbered = FALSE].text = b.text
                         /\ [b EXCEPT !.numbered = FALSE].origin = b.origin
  BY DEF Element
<1>4. \A k \in 1 .. n : /\ new[k] \in Element
                        /\ new[k].kind = list[k].kind /\ new[k].style = list[k].style
                        /\ new[k].text = list[k].text /\ new[k].origin = list[k].origin
  BY <1>1, <1>2, <1>3
<1>5. new \in [1 .. n -> Element]
  BY <1>2, <1>4
<1>6. new \in Seq(Element) /\ Len(new) = n
  BY <1>1, <1>5
<1>7. ASSUME NEW k \in 1 .. n PROVE Unnumbered(new[k], list[k], new, k)
  <2>1. CASE /\ list[k].kind = "paragraph"
             /\ \E j \in 1 .. k : list[j].kind = "paragraph" /\ list[j].text = Execution
    <3>1. PICK j \in 1 .. k : list[j].kind = "paragraph" /\ list[j].text = Execution
      BY <2>1
    <3>2. j \in 1 .. n
      BY <1>1
    <3>3. MentionsExecution(new, k)
      BY <1>4, <3>1, <3>2 DEF MentionsExecution
    <3> QED
      BY <1>2, <2>1, <3>3 DEF Unnumbered
  <2>2. CASE ~(/\ list[k].kind = "paragraph"
               /\ \E j \in 1 .. k : list[j].kind = "paragraph" /\ list[j].text = Execution)
    BY <1>2, <2>2 DEF Unnumbered
  <2> QED
    BY <2>1, <2>2
<1> QED
  BY <1>4, <1>6, <1>7 DEF new, n

\* A plan of the blocks: one decision for some of them, and sections to add.
Decision(d) ==
    /\ d.keep \subseteq SourceIds /\ d.modify \subseteq SourceIds /\ d.remove \subseteq SourceIds
    /\ d.keep \cap d.modify = {} /\ d.keep \cap d.remove = {} /\ d.modify \cap d.remove = {}
    /\ \E n \in 0 .. MaxAdded : d.add \in [1 .. n -> {NoBlock} \cup SourceIds]
    /\ d.covered \in BOOLEAN

\* What the edit leaves: what was carried, without some of the numbers.
Results(list, left, modified, z) ==
    /\ list \in Seq(Element)
    /\ \A i \in left : \E k \in 1 .. Len(list) : list[k].origin = i
    /\ \A k \in 1 .. Len(list) :
         \/ Added(list[k])
         \/ /\ list[k].origin \in left
            /\ Unnumbered(list[k], Rewritten(list[k].origin, modified), list, k)
    /\ \A j, k \in 1 .. Len(list) :
         j < k /\ list[j].origin # 0 /\ list[k].origin # 0 => list[j].origin < list[k].origin
    /\ Cardinality(AddedIn(list)) = z

\* Taking numbers away loses and moves nothing.
LEMMA CarriedResults ==
  ASSUME NEW list, NEW left, NEW modified, NEW z, Carries(list, left, modified, z)
  PROVE  Results(UnnumberExecutionBlock(list), left, modified, z)
<1> DEFINE new == UnnumberExecutionBlock(list)
<1>1. list \in Seq(Element)
  BY DEF Carries
<1>2. /\ new \in Seq(Element) /\ Len(new) = Len(list)
      /\ \A k \in 1 .. Len(list) :
           /\ Unnumbered(new[k], list[k], new, k)
           /\ new[k].kind = list[k].kind /\ new[k].style = list[k].style
           /\ new[k].text = list[k].text /\ new[k].origin = list[k].origin
  BY <1>1, OnlyNumbersGo
<1> HIDE DEF new
<1>3. AddedIn(new) = AddedIn(list)
  BY <1>2 DEF AddedIn
<1>4. \A k \in 1 .. Len(new) :
         \/ Added(new[k])
         \/ /\ new[k].origin \in left
            /\ Unnumbered(new[k], Rewritten(new[k].origin, modified), new, k)
  BY <1>2 DEF Carries, Added
<1>5. /\ \A i \in left : \E k \in 1 .. Len(new) : new[k].origin = i
      /\ \A j, k \in 1 .. Len(new) :
           j < k /\ new[j].origin # 0 /\ new[k].origin # 0 => new[j].origin < new[k].origin
  BY <1>2 DEF Carries
<1>6. Cardinality(AddedIn(new)) = z
  BY <1>3 DEF Carries
<1> QED
  BY <1>2, <1>4, <1>5, <1>6 DEF Results, new

\* Each element that is left has one place, in the order of the source.
LEMMA PlacesFound ==
  ASSUME NEW left \in SUBSET (Nat \ {0}), NEW list, NEW modified, NEW z,
         Results(list, left, modified, z)
  PROVE  /\ \A i \in left : /\ At(list, i) \in 1 .. Len(list) /\ At(list, i) # 0
                            /\ list[At(list, i)].origin = i
                            /\ Unnumbered(list[At(list, i)], Rewritten(i, modified),
                                          list, At(list, i))
         /\ \A i \in Nat \ {0} : At(list, i) = 0 <=> i \notin left
         /\ \A i \in left, k \in 1 .. Len(list) : list[k].origin = i => k = At(list, i)
         /\ \A i, j \in left : i < j => At(list, i) < At(list, j)
<1>1. list \in Seq(Element) /\ Len(list) \in Nat /\ \A k \in 1 .. Len(list) : list[k] \in Element
  BY Elements DEF Results
<1>2. \A o : /\ At(list, o) = 0 <=> \A k \in 1 .. Len(list) : list[k].origin # o
             /\ At(list, o) # 0 => At(list, o) \in 1 .. Len(list) /\ list[At(list, o)].origin = o
  BY <1>1, PlaceIsThere DEF At
<1>3. \A i \in left : /\ At(list, i) \in 1 .. Len(list) /\ At(list, i) # 0
                      /\ list[At(list, i)].origin = i
  BY <1>2 DEF Results
<1>4. \A i \in Nat \ {0} : At(list, i) = 0 <=> i \notin left
  BY <1>2 DEF Results, Added
<1>5. \A i \in left, k \in 1 .. Len(list) : list[k].origin = i => k = At(list, i)
  <2> SUFFICES ASSUME NEW i \in left, NEW k \in 1 .. Len(list), list[k].origin = i,
                      k # At(list, i)
               PROVE  FALSE
    OBVIOUS
  <2>1. k < At(list, i) \/ At(list, i) < k
    BY <1>1, <1>3
  <2>2. \A m \in 1 .. Len(list), l \in 1 .. Len(list) :
          m < l /\ list[m].origin # 0 /\ list[l].origin # 0 => list[m].origin < list[l].origin
    BY DEF Results
  <2>3. ~(i < i) /\ i # 0
    OBVIOUS
  <2> QED
    BY <1>3, <2>1, <2>2, <2>3
<1>6. \A i, j \in left : i < j => At(list, i) < At(list, j)
  <2> SUFFICES ASSUME NEW i \in left, NEW j \in left, i < j, ~(At(list, i) < At(list, j))
               PROVE  FALSE
    OBVIOUS
  <2>0. i \in Nat /\ j \in Nat /\ i # j
    OBVIOUS
  <2>1. At(list, i) # At(list, j)
    <3>1. list[At(list, i)].origin = i /\ list[At(list, j)].origin = j
      BY <1>3
    <3> QED
      BY <2>0, <3>1
  <2>2. At(list, j) < At(list, i)
    <3>1. At(list, i) \in Nat /\ At(list, j) \in Nat
      BY <1>1, <1>3
    <3> QED
      BY <2>1, <3>1
  <2>3. \A m \in 1 .. Len(list), l \in 1 .. Len(list) :
          m < l /\ list[m].origin # 0 /\ list[l].origin # 0 => list[m].origin < list[l].origin
    BY DEF Results
  <2>4. j < i
    BY <1>3, <2>2, <2>3
  <2> QED
    BY <2>0, <2>4
<1>7. \A i \in left : Unnumbered(list[At(list, i)], Rewritten(i, modified), list, At(list, i))
  BY <1>3 DEF Results, Added
<1> QED
  BY <1>3, <1>4, <1>5, <1>6, <1>7

\* The elements a plan leaves
Left(d) == DOMAIN source \ PlacesOf(source, d.remove)

\* The places a plan decides about
LEMMA PlacesDecided ==
  ASSUME Uploaded, NEW d, Decision(d)
  PROVE  LET kept == PlacesOf(source, d.keep)
         IN  /\ kept \subseteq Left(d) /\ kept \cap Modified(d) = {}
             /\ Modified(d) \subseteq Left(d)
             /\ Left(d) \in SUBSET (DOMAIN source) /\ Left(d) \in SUBSET (Nat \ {0})
             /\ \A i \in DOMAIN source : i \in kept <=> BlockIds(source)[i] \in d.keep
             /\ \A id \in d.keep : \E i \in kept : BlockIds(source)[i] = id
             /\ PlacesOf(source, d.remove) \subseteq DOMAIN source
<1>1. DOMAIN BlockIds(source) = DOMAIN source
  BY IdsOf
<1>2. \A id \in d.keep : \E i \in DOMAIN source : BlockIds(source)[i] = id
  BY SourceIdsAre DEF Decision
<1>3. DOMAIN source \in SUBSET (Nat \ {0})
  BY SourceIdsAre
<1> QED
  BY <1>1, <1>2, <1>3 DEF Decision, PlacesOf, Modified, Left

\* What a plan keeps comes back.
LEMMA KeptComesBack ==
  ASSUME Uploaded, NEW d, Decision(d), NEW list, NEW z,
         Results(list, Left(d), Modified(d), z)
  PROVE  LET kept == PlacesOf(source, d.keep)
         IN  /\ \A i \in kept :
                  /\ At(list, i) # 0
                  /\ LET b == list[At(list, i)]
                     IN  \/ b = source[i]
                         \/ /\ b = [source[i] EXCEPT !.numbered = FALSE]
                            /\ MentionsExecution(list, At(list, i))
             /\ \A i, j \in kept : i < j => At(list, i) < At(list, j)
<1> DEFINE kept == PlacesOf(source, d.keep)
<1>1. kept \subseteq Left(d) /\ kept \cap Modified(d) = {} /\ Left(d) \in SUBSET (Nat \ {0})
  BY PlacesDecided
<1> HIDE DEF kept
<1>2. /\ \A i \in Left(d) : /\ At(list, i) # 0
                            /\ Unnumbered(list[At(list, i)], Rewritten(i, Modified(d)),
                                          list, At(list, i))
      /\ \A i, j \in Left(d) : i < j => At(list, i) < At(list, j)
  BY <1>1, PlacesFound
<1>3. \A i \in kept : Rewritten(i, Modified(d)) = source[i]
  BY <1>1 DEF Rewritten
<1> QED
  BY <1>1, <1>2, <1>3 DEF Unnumbered, kept

\* In a document without twins the id of a kept block leads to it alone.
LEMMA IdLeadsThere ==
  ASSUME Uploaded, NoTwins, NEW d, Decision(d), NEW list, NEW z,
         Results(list, Left(d), Modified(d), z), NEW i \in PlacesOf(source, d.keep)
  PROVE  PlacesOf(list, {BlockIds(source)[i]}) = {At(list, i)}
<1> DEFINE a == At(list, i)
<1>1. /\ i \in Left(d) /\ i \notin Modified(d) /\ Left(d) \in SUBSET (Nat \ {0})
      /\ Left(d) \in SUBSET (DOMAIN source) /\ Modified(d) \subseteq Left(d)
  BY PlacesDecided
<1>2. /\ DOMAIN source = 1 .. Len(source)
      /\ \A k \in DOMAIN source : source[k] \in Element /\ source[k].text # Drafted
      /\ \A j, k \in DOMAIN source : BlockIds(source)[j] = BlockIds(source)[k] => j = k
  BY SourceIdsAre DEF Uploaded
<1>3. /\ a \in 1 .. Len(list)
      /\ Unnumbered(list[a], Rewritten(i, Modified(d)), list, a)
      /\ \A k \in 1 .. Len(list) : list[k].origin = i => k = a
  BY <1>1, PlacesFound
<1>4. /\ DOMAIN list = 1 .. Len(list) /\ Len(list) \in Nat
      /\ \A k \in 1 .. Len(list) : list[k] \in Element
  BY Elements DEF Results
<1> HIDE DEF a
<1>5. \A k \in DOMAIN source : BlockIds(source)[k] = <<source[k].style, source[k].text, 0>>
  BY IdsOf DEF NoTwins
<1>6. ASSUME NEW k \in DOMAIN source
      PROVE  /\ Rewritten(k, Modified(d)).style = source[k].style
             /\ Rewritten(k, Modified(d)).text # Drafted =>
                    Rewritten(k, Modified(d)).text = source[k].text
  BY <1>2 DEF Rewritten, Element
<1>7. \A k \in 1 .. Len(list), b \in Element : \A l :
         Unnumbered(list[k], b, list, l) => list[k].style = b.style /\ list[k].text = b.text
  BY DEF Unnumbered, Element
<1>8. \A k \in DOMAIN source : Rewritten(k, Modified(d)) \in Element
  BY <1>2 DEF Rewritten, Element
<1>9. list[a].style = source[i].style /\ list[a].text = source[i].text
  <2>1. Rewritten(i, Modified(d)) = source[i]
    BY <1>1 DEF Rewritten
  <2> QED
    BY <1>1, <1>2, <1>3, <1>7, <2>1
<1>10. ASSUME NEW k \in 1 .. Len(list),
              list[k].style = source[i].style, list[k].text = source[i].text
       PROVE  k = a
  <2>1. ~Added(list[k])
    BY <1>1, <1>2, <1>10 DEF Added
  <2> DEFINE o == list[k].origin
  <2>2. o \in Left(d) /\ Unnumbered(list[k], Rewritten(o, Modified(d)), list, k)
    BY <2>1 DEF Results
  <2>3. o \in DOMAIN source
    BY <1>1, <2>2
  <2> HIDE DEF o
  <2>4. /\ list[k].style = Rewritten(o, Modified(d)).style
        /\ list[k].text = Rewritten(o, Modified(d)).text
    BY <1>7, <1>8, <2>2, <2>3
  <2>5. source[o].style = source[i].style /\ source[o].text = source[i].text
    BY <1>1, <1>2, <1>6, <1>10, <2>3, <2>4
  <2>6. o = i
    BY <1>1, <1>2, <1>5, <2>3, <2>5
  <2> QED
    BY <1>3, <2>6 DEF o
<1>11. Same(list, a) = {}
  <2>1. \A j \in 1 .. a - 1 : j \in 1 .. Len(list) /\ j # a
    BY <1>3, <1>4
  <2> QED
    BY <1>9, <1>10, <2>1 DEF Same
<1>12. BlockIds(list)[a] = BlockIds(source)[i]
  <2>1. Cardinality(Same(list, a)) = 0
    BY <1>11, FS_EmptySet
  <2> QED
    BY <1>1, <1>3, <1>4, <1>5, <1>9, <2>1, IdsOf
<1>13. ASSUME NEW k \in 1 .. Len(list), BlockIds(list)[k] = BlockIds(source)[i]
       PROVE  k = a
  <2>1. <<list[k].style, list[k].text, Cardinality(Same(list, k))>>
          = <<source[i].style, source[i].text, 0>>
    BY <1>1, <1>4, <1>5, <1>13, IdsOf
  <2> QED
    BY <1>10, <2>1
<1>14. PlacesOf(list, {BlockIds(source)[i]})
         = {k \in 1 .. Len(list) : BlockIds(list)[k] = BlockIds(source)[i]}
  <2>1. PlacesOf(list, {BlockIds(source)[i]})
          = {k \in DOMAIN list : BlockIds(list)[k] = BlockIds(source)[i]}
    BY DEF PlacesOf
  <2> QED
    BY <1>4, <2>1
<1> QED
  BY <1>3, <1>12, <1>13, <1>14 DEF a

\* The gate reports the kept blocks that changed, which lost their number.
LEMMA GateReportsChanges ==
  ASSUME Uploaded, NoTwins, NEW d, Decision(d), d.keep # {}, NEW list, NEW z,
         Results(list, Left(d), Modified(d), z)
  PROVE  Disturbed(list, d.keep) =
           {BlockIds(source)[i] :
               i \in {k \in PlacesOf(source, d.keep) : list[At(list, k)] # source[k]}}
<1> DEFINE kept == PlacesOf(source, d.keep)
           changed == {k \in kept : list[At(list, k)] # source[k]}
<1>1. /\ kept \subseteq DOMAIN source
      /\ \A i \in DOMAIN source : i \in kept <=> BlockIds(source)[i] \in d.keep
      /\ \A id \in d.keep : \E i \in kept : BlockIds(source)[i] = id
  BY PlacesDecided DEF PlacesOf
<1>2. /\ \A j, k \in DOMAIN source : BlockIds(source)[j] = BlockIds(source)[k] => j = k
      /\ \A k \in DOMAIN source : source[k] \in Element
  BY SourceIdsAre
<1>3. \A i \in kept : PlacesOf(list, {BlockIds(source)[i]}) = {At(list, i)}
  BY IdLeadsThere
<1>4. \A i \in kept : \/ list[At(list, i)] = source[i]
                      \/ list[At(list, i)] = [source[i] EXCEPT !.numbered = FALSE]
  BY KeptComesBack
<1> HIDE DEF kept
<1>5. ASSUME NEW i \in kept
      PROVE  Formatting(list[At(list, i)]) # Formatting(source[i])
                <=> list[At(list, i)] # source[i]
  <2>1. \A b \in Element : \A c :
           (c = b \/ c = [b EXCEPT !.numbered = FALSE]) =>
               (Formatting(c) # Formatting(b) <=> c # b)
    <3> SUFFICES ASSUME NEW b \in Element
                 PROVE  LET c == [b EXCEPT !.numbered = FALSE]
                        IN  Formatting(c) # Formatting(b) <=> c # b
      OBVIOUS
    <3>1. CASE b.numbered = FALSE
      <4>1. [b EXCEPT !.numbered = FALSE] = b
        BY <3>1 DEF Element
      <4> QED
        BY <4>1
    <3>2. CASE b.numbered = TRUE
      <4>1. [b EXCEPT !.numbered = FALSE].numbered = FALSE
        BY DEF Element
      <4> QED
        BY <3>2, <4>1 DEF Formatting
    <3> QED
      BY <3>1, <3>2 DEF Element
  <2> QED
    BY <1>1, <1>2, <1>4, <2>1
<1>6. ASSUME NEW i \in kept
      PROVE  (CHOOSE k \in DOMAIN source : BlockIds(source)[k] = BlockIds(source)[i]) = i
  BY <1>1, <1>2
<1>7. \A i \in kept : BlockIds(source)[i] \in Disturbed(list, d.keep) <=> i \in changed
  <2> SUFFICES ASSUME NEW i \in kept
               PROVE  BlockIds(source)[i] \in Disturbed(list, d.keep) <=> i \in changed
    OBVIOUS
  <2>1. BlockIds(source)[i] \in d.keep
    BY <1>1
  <2>2. Disturbed(list, d.keep) =
          {id \in d.keep : \A j \in PlacesOf(list, {id}) :
             Formatting(list[j])
               # Formatting(source[CHOOSE k \in DOMAIN source : BlockIds(source)[k] = id])}
    BY DEF Disturbed
  <2>3. BlockIds(source)[i] \in Disturbed(list, d.keep) <=>
          \A j \in PlacesOf(list, {BlockIds(source)[i]}) :
             Formatting(list[j])
               # Formatting(source[CHOOSE k \in DOMAIN source :
                                     BlockIds(source)[k] = BlockIds(source)[i]])
    BY <2>1, <2>2
  <2>4. BlockIds(source)[i] \in Disturbed(list, d.keep) <=>
          \A j \in {At(list, i)} : Formatting(list[j]) # Formatting(source[i])
    BY <1>3, <1>6, <2>3
  <2> QED
    BY <1>5, <2>4
<1>8. Disturbed(list, d.keep) \subseteq d.keep
  BY DEF Disturbed
<1>9. Disturbed(list, d.keep) = {BlockIds(source)[i] : i \in changed}
  <2> HIDE DEF changed
  <2>1. changed \subseteq kept
    BY DEF changed
  <2> QED
    BY <1>1, <1>7, <1>8, <2>1
<1> QED
  BY <1>9 DEF kept

\* What holds of a plan, the list it made and the report about it.
EditHolds(d, list, z, r) ==
    /\ Results(list, Left(d), Modified(d), z)
    /\ IsFiniteSet(LostIn(d.add, Left(d), Len(d.add))) /\ z \in Nat
    /\ z + Cardinality(LostIn(d.add, Left(d), Len(d.add))) = Len(d.add)
    /\ r.removed = PlacesOf(source, d.remove) /\ r.modified = Modified(d)
    /\ r.added = Len(d.add) /\ r.unstyled \in 0 .. Len(d.add) /\ r.failed = FALSE

\* The document is as it was uploaded; what is edited was planned.
TemplateInv ==
    /\ Uploaded
    /\ decisions = {} \/ \E d : Decision(d) /\ decisions = {d}
    /\ decisions = {} => edited = {}
    /\ edited = {} => report \in {NoReport, [NoReport EXCEPT !.failed = TRUE]}
    /\ \A d \in decisions, list \in edited : \E z : EditHolds(d, list, z, report)

\* Only the document itself is read.
LEMMA DocumentUnchanged ==
  ASSUME source' = source
  PROVE  /\ Uploaded' <=> Uploaded
         /\ \A d : Decision(d)' <=> Decision(d)
         /\ \A d, list, z, r : EditHolds(d, list, z, r)' <=> EditHolds(d, list, z, r)
<1>1. Uploaded' <=> Uploaded
  BY DEF Uploaded
<1>2. \A d : Decision(d)' <=> Decision(d)
  BY DEF Decision, SourceIds
<1>3. \A d : Left(d)' = Left(d) /\ Modified(d)' = Modified(d)
  BY DEF Left, Modified
<1>4. \A i, modified : Rewritten(i, modified)' = Rewritten(i, modified)
  BY DEF Rewritten
<1>5. \A id : Cloned(id)' <=> Cloned(id)
  BY DEF Cloned, Donor, Anchor, SelectLastInSeq
<1>6. \A id : Donor(Anchor(id))' = Donor(Anchor(id))
  BY DEF Donor, Anchor, SelectLastInSeq
<1>7. \A id, left : Lost(id, left)' <=> Lost(id, left)
  BY <1>5, <1>6 DEF Lost
<1>8. \A adds, left, k : LostIn(adds, left, k)' = LostIn(adds, left, k)
  BY <1>7 DEF LostIn
<1>9. \A list, left, modified, z :
         Results(list, left, modified, z)' <=> Results(list, left, modified, z)
  BY <1>4 DEF Results
<1> QED
  BY <1>1, <1>2, <1>3, <1>8, <1>9 DEF EditHolds

\* From the invariant: the types, and both promises about the edited document.
LEMMA TemplateInvHolds ==
  ASSUME TemplateInv
  PROVE  TemplateTypeOK /\ KeptAsTheyWere /\ ReportedIsDone
<1>1. Uploaded
  BY DEF TemplateInv
<1>2. ASSUME NEW d \in decisions, NEW list \in edited
      PROVE  Decision(d) /\ \E z : EditHolds(d, list, z, report)
  BY <1>2 DEF TemplateInv
<1>3. TemplateTypeOK
  <2>1. source \in Seq(Element)
    BY <1>1 DEF Uploaded
  <2>2. CASE edited = {}
    <3>1. /\ report.modified = {} /\ report.removed = {} /\ report.added = 0
          /\ report.unstyled = 0 /\ report.failed \in BOOLEAN
      <4>1. report = NoReport \/ report = [NoReport EXCEPT !.failed = TRUE]
        BY <2>2 DEF TemplateInv
      <4>2. \A r : r = [NoReport EXCEPT !.failed = TRUE] =>
               /\ r.modified = {} /\ r.removed = {} /\ r.added = 0
               /\ r.unstyled = 0 /\ r.failed \in BOOLEAN
        BY DEF NoReport
      <4>3. \A r : r = NoReport =>
               /\ r.modified = {} /\ r.removed = {} /\ r.added = 0
               /\ r.unstyled = 0 /\ r.failed \in BOOLEAN
        BY DEF NoReport
      <4> QED
        BY <4>1, <4>2, <4>3
    <3> QED
      BY <2>1, <2>2, <3>1, BlockBounds DEF TemplateTypeOK
  <2>3. CASE edited # {}
    <3>1. PICK d : Decision(d) /\ decisions = {d}
      BY <2>3 DEF TemplateInv
    <3>2. PICK l \in edited : TRUE
      BY <2>3
    <3>3. PICK z : EditHolds(d, l, z, report)
      BY <1>2, <3>1
    <3>4. \A list \in edited : list \in Seq(Element)
      BY <1>2, <3>1 DEF EditHolds, Results
    <3>5. PICK n \in 0 .. MaxAdded : d.add \in [1 .. n -> {NoBlock} \cup SourceIds]
      BY <3>1 DEF Decision
    <3>6. Len(d.add) = n
      <4>1. n \in Nat
        BY BlockBounds
      <4> QED
        BY <3>5, <4>1
    <3>7. report.modified \subseteq DOMAIN source /\ report.removed \subseteq DOMAIN source
      BY <1>1, <3>1, <3>3, PlacesDecided DEF EditHolds
    <3>8. /\ report.added \in 0 .. MaxAdded /\ report.unstyled \in 0 .. report.added
          /\ report.failed \in BOOLEAN
      BY <3>3, <3>6 DEF EditHolds
    <3> QED
      BY <2>1, <3>4, <3>7, <3>8 DEF TemplateTypeOK
  <2> QED
    BY <2>2, <2>3
<1>4. KeptAsTheyWere
  <2> SUFFICES ASSUME NEW d \in decisions, NEW list \in edited
               PROVE  LET kept == PlacesOf(source, d.keep)
                      IN  /\ \A i \in kept :
                               /\ At(list, i) # 0
                               /\ LET b == list[At(list, i)]
                                  IN  \/ b = source[i]
                                      \/ /\ b = [source[i] EXCEPT !.numbered = FALSE]
                                         /\ MentionsExecution(list, At(list, i))
                          /\ \A i, j \in kept : i < j => At(list, i) < At(list, j)
                          /\ NoTwins /\ d.keep # {} =>
                               Disturbed(list, d.keep) =
                                 {BlockIds(source)[i] :
                                    i \in {k \in kept : list[At(list, k)] # source[k]}}
    BY DEF KeptAsTheyWere
  <2>1. Decision(d)
    BY <1>2
  <2>2. PICK z : Results(list, Left(d), Modified(d), z)
    BY <1>2 DEF EditHolds
  <2>3. NoTwins /\ d.keep # {} =>
          Disturbed(list, d.keep) =
            {BlockIds(source)[i] :
               i \in {k \in PlacesOf(source, d.keep) : list[At(list, k)] # source[k]}}
    BY <1>1, <2>1, <2>2, GateReportsChanges
  <2> QED
    BY <1>1, <2>1, <2>2, <2>3, KeptComesBack
<1>5. ReportedIsDone
  <2> SUFFICES ASSUME NEW d \in decisions, NEW list \in edited
               PROVE  LET lost == {k \in DOMAIN d.add :
                                     /\ Donor(Anchor(d.add[k])) \in report.removed
                                     /\ source[Donor(Anchor(d.add[k]))].kind = "paragraph"}
                      IN  /\ report.removed = PlacesOf(source, d.remove)
                          /\ {i \in DOMAIN source : At(list, i) = 0} = report.removed
                          /\ \A i \in PlacesOf(source, d.modify) :
                                 source[i].kind = "paragraph"
                                 <=> i \in report.modified /\ list[At(list, i)].text = Drafted
                          /\ Cardinality({k \in DOMAIN list : list[k].origin = 0}) =
                                 report.added - Cardinality(lost)
    BY DEF ReportedIsDone
  <2> DEFINE lost == {k \in DOMAIN d.add :
                        /\ Donor(Anchor(d.add[k])) \in report.removed
                        /\ source[Donor(Anchor(d.add[k]))].kind = "paragraph"}
  <2>1. Decision(d)
    BY <1>2
  <2>2. PICK z : EditHolds(d, list, z, report)
    BY <1>2
  <2>3. Results(list, Left(d), Modified(d), z)
    BY <2>2 DEF EditHolds
  <2>4. report.removed = PlacesOf(source, d.remove) /\ report.modified = Modified(d)
    BY <2>2 DEF EditHolds
  <2>5. /\ Left(d) \in SUBSET (DOMAIN source) /\ Left(d) \in SUBSET (Nat \ {0})
        /\ Modified(d) \subseteq Left(d) /\ report.removed \subseteq DOMAIN source
        /\ Left(d) = DOMAIN source \ report.removed
    BY <1>1, <2>1, <2>4, PlacesDecided DEF Left
  <2>6. /\ \A i \in Nat \ {0} : At(list, i) = 0 <=> i \notin Left(d)
        /\ \A i \in Left(d) : Unnumbered(list[At(list, i)], Rewritten(i, Modified(d)),
                                         list, At(list, i))
    BY <2>3, <2>5, PlacesFound
  <2>7. /\ DOMAIN source = 1 .. Len(source) /\ Len(source) \in Nat
        /\ \A i \in DOMAIN source : source[i] \in Element
    BY <1>1, SourceIdsAre
  <2>8. {i \in DOMAIN source : At(list, i) = 0} = report.removed
    BY <2>5, <2>6, <2>7
  <2>9. \A i \in PlacesOf(source, d.modify) :
           source[i].kind = "paragraph"
             <=> i \in report.modified /\ list[At(list, i)].text = Drafted
    <3>1. \A i \in Modified(d) : Rewritten(i, Modified(d)).text = Drafted
                                   /\ Rewritten(i, Modified(d)) \in Element
      BY <2>5, <2>7 DEF Rewritten, Element
    <3>2. \A b \in Element : \A c, l, k : Unnumbered(c, b, l, k) => c.text = b.text
      BY DEF Unnumbered, Element
    <3>3. \A i \in Modified(d) : list[At(list, i)].text = Drafted
      BY <2>5, <2>6, <3>1, <3>2
    <3> QED
      BY <2>4, <3>3 DEF Modified
  <2>10. PICK n \in 0 .. MaxAdded : d.add \in [1 .. n -> {NoBlock} \cup SourceIds]
    BY <2>1 DEF Decision
  <2>11. DOMAIN d.add = 1 .. n /\ Len(d.add) = n /\ n \in Nat
    <3>1. n \in Nat
      BY BlockBounds
    <3> QED
      BY <2>10, <3>1
  <2>12. lost = LostIn(d.add, Left(d), n)
    <3>1. ASSUME NEW k \in 1 .. n
          PROVE  Lost(d.add[k], Left(d)) <=> k \in lost
      <4>1. Donor(Anchor(d.add[k])) \in 0 .. Len(source)
        <5>1. d.add[k] \in {NoBlock} \cup SourceIds
          BY <2>10
        <5> QED
          BY <1>1, <5>1, DonorIsThere
      <4> DEFINE donor == Donor(Anchor(d.add[k]))
      <4>2. k \in lost <=> donor \in report.removed /\ source[donor].kind = "paragraph"
        BY <2>11
      <4>3. Lost(d.add[k], Left(d)) <=>
              donor # 0 /\ source[donor].kind = "paragraph" /\ donor \notin Left(d)
        BY DEF Lost, Cloned
      <4> HIDE DEF donor, lost
      <4>4. donor \in 0 .. Len(source)
        BY <4>1 DEF donor
      <4> QED
        BY <2>5, <2>7, <4>2, <4>3, <4>4
    <3>2. \A k \in lost : k \in 1 .. n
      BY <2>11
    <3> HIDE DEF lost
    <3> QED
      BY <3>1, <3>2 DEF LostIn
  <2>13. z + Cardinality(lost) = report.added /\ z \in Nat /\ Cardinality(lost) \in Nat
    <3> HIDE DEF lost
    <3>1. IsFiniteSet(LostIn(d.add, Left(d), n))
      BY <2>2, <2>11 DEF EditHolds
    <3> QED
      BY <2>2, <2>11, <2>12, <3>1, FS_CardinalityType DEF EditHolds
  <2>14. Cardinality({k \in DOMAIN list : list[k].origin = 0}) = z
    <3>1. DOMAIN list = 1 .. Len(list)
      BY <2>3, Elements DEF Results
    <3> QED
      BY <2>3, <3>1 DEF Results, AddedIn
  <2>15. Cardinality({k \in DOMAIN list : list[k].origin = 0})
           = report.added - Cardinality(lost)
    <3> HIDE DEF lost
    <3> QED
      BY <2>13, <2>14
  <2> QED
    BY <2>4, <2>8, <2>9, <2>15
<1> QED
  BY <1>3, <1>4, <1>5

\* A document is uploaded with every element at its place.
LEMMA TemplateBegins ==
  ASSUME NEW n \in 0 .. MaxBlocks, NEW blocks \in [1 .. n -> Blocks], TemplateStart(blocks)
  PROVE  TemplateInv
<1>1. source = [i \in 1 .. n |-> Placed(blocks[i], i)] /\ n \in Nat
  BY BlockBounds DEF TemplateStart
<1>2. ASSUME NEW i \in 1 .. n
      PROVE  /\ Placed(blocks[i], i) \in Element /\ Placed(blocks[i], i).origin = i
             /\ Placed(blocks[i], i).text # Drafted
  <2>1. blocks[i] \in Blocks /\ i \in 0 .. MaxBlocks
    BY <1>1, BlockBounds
  <2>2. /\ blocks[i].kind \in {"paragraph", "table"} /\ blocks[i].style \in {"clause", Plain}
        /\ blocks[i].numbered \in BOOLEAN /\ blocks[i].text \in {"words", Execution}
    BY <2>1 DEF Blocks
  <2>3. Placed(blocks[i], i) \in Element
    BY <2>1, <2>2 DEF Placed, Element
  <2> QED
    BY <2>2, <2>3 DEF Placed, Execution, Drafted
<1>3. source \in [1 .. n -> Element]
  BY <1>1, <1>2
<1>4. source \in Seq(Element) /\ Len(source) = n
  BY <1>1, <1>3
<1>5. Uploaded
  BY <1>1, <1>2, <1>4 DEF Uploaded
<1> QED
  BY <1>5 DEF TemplateInv, TemplateStart

\* The plan an agent makes decides about each block once.
LEMMA PlanKeepsInv ==
  ASSUME TemplateInv, PlanDecisions
  PROVE  TemplateInv'
<1>1. Uploaded
  BY DEF TemplateInv
<1>2. PICK verdict \in [DOMAIN source -> {"keep", "modify", "remove"}],
           n \in 0 .. MaxAdded, covered \in BOOLEAN :
        \E beside \in [1 .. n -> {NoBlock} \cup ToSet(BlockIds(source))] :
           LET ids(v) == {BlockIds(source)[i] : i \in {j \in DOMAIN source : verdict[j] = v}}
           IN  decisions' = {[keep |-> ids("keep"), modify |-> ids("modify"),
                              remove |-> ids("remove"), add |-> beside, covered |-> covered]}
  BY DEF PlanDecisions
<1> DEFINE ids(v) == {BlockIds(source)[i] : i \in {j \in DOMAIN source : verdict[j] = v}}
<1>3. PICK beside \in [1 .. n -> {NoBlock} \cup ToSet(BlockIds(source))] :
        decisions' = {[keep |-> ids("keep"), modify |-> ids("modify"),
                       remove |-> ids("remove"), add |-> beside, covered |-> covered]}
  BY <1>2
<1>4. \A v \in {"keep", "modify", "remove"} : ids(v) \subseteq SourceIds
  BY <1>1, SourceIdsAre
<1>5. \A v, w \in {"keep", "modify", "remove"} : v # w => ids(v) \cap ids(w) = {}
  BY <1>1, SourceIdsAre
<1> HIDE DEF ids
<1> DEFINE d == [keep |-> ids("keep"), modify |-> ids("modify"),
                 remove |-> ids("remove"), add |-> beside, covered |-> covered]
<1>6. Decision(d)
  <2>1. d.add \in [1 .. n -> {NoBlock} \cup SourceIds]
    BY <1>3 DEF SourceIds
  <2>2. d.keep = ids("keep") /\ d.modify = ids("modify") /\ d.remove = ids("remove")
    OBVIOUS
  <2>3. d.covered \in BOOLEAN
    OBVIOUS
  <2> HIDE DEF d
  <2>4. /\ d.keep \cap d.modify = {} /\ d.keep \cap d.remove = {} /\ d.modify \cap d.remove = {}
    BY <1>5, <2>2
  <2> QED
    BY <1>4, <2>1, <2>2, <2>3, <2>4 DEF Decision
<1>7. PICK e : Decision(e) /\ decisions' = {e}
  <2>1. decisions' = {d}
    BY <1>3
  <2> HIDE DEF d
  <2> QED
    BY <1>6, <2>1
<1>8. source' = source /\ edited' = edited /\ report' = report /\ edited = {}
  BY DEF PlanDecisions, TemplateInv
<1>9. Uploaded' /\ Decision(e)'
  BY <1>1, <1>7, <1>8, DocumentUnchanged
<1> QED
  BY <1>7, <1>8, <1>9 DEF TemplateInv

\* The edit carries the plan out.
LEMMA EditKeepsInv ==
  ASSUME TemplateInv, ApplyTransformation
  PROVE  TemplateInv'
<1>1. Uploaded /\ edited = {} /\ source' = source /\ decisions' = decisions
  BY DEF TemplateInv, ApplyTransformation
<1>2. PICK d \in decisions :
        LET removed == PlacesOf(source, d.remove)
            left == Kept(source, DOMAIN source \ removed)
            modified == Modified(d)
            rewritten == [i \in DOMAIN left |->
                IF left[i].origin \in modified THEN [left[i] EXCEPT !.text = Drafted]
                ELSE left[i]]
            end == FoldLeft(AddOne, [list |-> rewritten, unstyled |-> 0], d.add)
        IN  IF d.covered
            THEN /\ edited' = {UnnumberExecutionBlock(end.list)}
                 /\ report' = [modified |-> modified, removed |-> removed,
                               added |-> Len(d.add), unstyled |-> end.unstyled,
                               failed |-> FALSE]
            ELSE /\ report' = [report EXCEPT !.failed = TRUE]
                 /\ UNCHANGED edited
  BY DEF ApplyTransformation
<1>3. Decision(d) /\ decisions = {d}
  BY DEF TemplateInv
<1>4. Uploaded' /\ Decision(d)'
  BY <1>1, <1>3, DocumentUnchanged
<1>5. CASE d.covered = FALSE
  <2>1. report' = [report EXCEPT !.failed = TRUE] /\ edited' = {}
    BY <1>1, <1>2, <1>5
  <2>2. report \in {NoReport, [NoReport EXCEPT !.failed = TRUE]}
    BY <1>1 DEF TemplateInv
  <2>3. report' \in {NoReport, [NoReport EXCEPT !.failed = TRUE]}
    BY <2>1, <2>2 DEF NoReport
  <2> QED
    BY <1>1, <1>3, <1>4, <2>1, <2>3 DEF TemplateInv, NoReport
<1>6. CASE d.covered = TRUE
  <2> DEFINE removed == PlacesOf(source, d.remove)
             modified == Modified(d)
             start == [list |-> Remaining(removed, modified), unstyled |-> 0]
             end == FoldLeft(AddOne, start, d.add)
             list == UnnumberExecutionBlock(end.list)
             z == CHOOSE m \in Nat : /\ Carries(end.list, Left(d), modified, m)
                                     /\ m + Cardinality(LostIn(d.add, Left(d), Len(d.add)))
                                          = Len(d.add)
  <2>1. /\ edited' = {list}
        /\ report' = [modified |-> modified, removed |-> removed, added |-> Len(d.add),
                      unstyled |-> end.unstyled, failed |-> FALSE]
    BY <1>2, <1>6 DEF Remaining
  <2>2. Carries(Remaining(removed, modified), Left(d), modified, 0)
    <3> HIDE DEF removed, modified
    <3>1. Carries(Remaining(removed, modified), DOMAIN source \ removed, modified, 0)
      BY <1>1, RemainingCarries
    <3> QED
      BY <3>1 DEF Left, removed
  <2>3. start \in AddState /\ start.unstyled = 0 /\ start.list = Remaining(removed, modified)
    BY <2>2 DEF AddState, Carries
  <2>4. PICK n \in 0 .. MaxAdded : d.add \in [1 .. n -> {NoBlock} \cup SourceIds]
    BY <1>3 DEF Decision
  <2>5. n \in Nat /\ Len(d.add) = n
    <3>1. n \in Nat
      BY BlockBounds
    <3> QED
      BY <2>4, <3>1
  <2>6. Left(d) \in SUBSET (DOMAIN source)
    BY DEF Left
  <2>7. AddedAll(end, d.add, n, Left(d), modified)
    <3> HIDE DEF start, modified
    <3>1. Carries(start.list, Left(d), modified, 0)
      BY <2>2, <2>3
    <3> QED
      BY <1>1, <2>3, <2>4, <2>5, <2>6, <3>1, AllAreAdded
  <2> HIDE DEF start, end
  <2>8. /\ z \in Nat /\ Carries(end.list, Left(d), modified, z)
        /\ z + Cardinality(LostIn(d.add, Left(d), Len(d.add))) = Len(d.add)
    <3> HIDE DEF modified
    <3> QED
      BY <2>5, <2>7 DEF AddedAll
  <2> HIDE DEF z
  <2>9. Results(list, Left(d), modified, z)
    <3> HIDE DEF modified
    <3> QED
      BY <2>8, CarriedResults
  <2>10. /\ IsFiniteSet(LostIn(d.add, Left(d), Len(d.add)))
         /\ end.unstyled \in 0 .. Len(d.add)
    BY <2>5, <2>7 DEF AddedAll
  <2> HIDE DEF list
  <2>11. PICK r : r = report'
    OBVIOUS
  <2>12. EditHolds(d, list, z, r)
    BY <2>1, <2>8, <2>9, <2>10, <2>11 DEF EditHolds
  <2>13. PICK l, m : edited' = {l} /\ EditHolds(d, l, m, r)
    BY <2>1, <2>12
  <2>14. EditHolds(d, l, m, r)'
    BY <1>1, <2>13, DocumentUnchanged
  <2>15. \A p : p = report' => (EditHolds(d, l, m, p)' <=> EditHolds(d, l, m, report)')
    BY DEF EditHolds
  <2>16. EditHolds(d, l, m, report)'
    BY <2>11, <2>14, <2>15
  <2> QED
    BY <1>1, <1>3, <1>4, <2>13, <2>16 DEF TemplateInv
<1> QED
  BY <1>3, <1>5, <1>6 DEF Decision

\* An upload, a plan and an edit keep the invariant.
LEMMA AlwaysTemplateInv == Spec => []TemplateInv
<1>1. Init => TemplateInv
  <2> SUFFICES ASSUME Init PROVE TemplateInv
    OBVIOUS
  <2>1. CASE step = "template"
    BY <2>1, TemplateBegins DEF Init, TemplateInit
  <2>2. CASE step # "template"
    <3>1. <<>> \in [1 .. 0 -> Blocks] /\ 0 \in 0 .. MaxBlocks
      BY BlockBounds
    <3> QED
      BY <2>2, <3>1, TemplateBegins DEF Init
  <2> QED
    BY <2>1, <2>2
<1>2. TemplateInv /\ [Next]_<<step, knowledgeVars, choiceVars, documentVars, templateVars, leakVars>>
        => TemplateInv'
  <2> SUFFICES ASSUME TemplateInv, TemplateNext \/ UNCHANGED templateVars PROVE TemplateInv'
    BY DEF Next
  <2>1. CASE UNCHANGED templateVars
    <3>1. source' = source /\ decisions' = decisions /\ edited' = edited /\ report' = report
      BY <2>1 DEF templateVars
    <3>2. PICK r : r = report
      OBVIOUS
    <3>3. /\ Uploaded'
          /\ \A d : Decision(d)' <=> Decision(d)
          /\ \A d, list, z : EditHolds(d, list, z, r)' <=> EditHolds(d, list, z, r)
      BY <3>1, DocumentUnchanged DEF TemplateInv
    <3>4. \A d, list, z : EditHolds(d, list, z, report)' <=> EditHolds(d, list, z, r)'
      BY <3>1, <3>2 DEF EditHolds
    <3> QED
      BY <3>1, <3>2, <3>3, <3>4 DEF TemplateInv, NoReport
  <2> QED
    BY <2>1, PlanKeepsInv, EditKeepsInv DEF TemplateNext
<1> QED
  BY <1>1, <1>2, PTL DEF Spec

\* What a plan keeps comes back from the edit in its order, with its text and its
\* style, and with its number up to the execution page; and without twins the gate
\* reports exactly the blocks that lost their number (docx_edit.apply_transformation,
\* docx_fidelity.compare), for documents and plans of every length.
THEOREM KeptBlocksComeBack == Spec => []KeptAsTheyWere
<1>1. TemplateInv => KeptAsTheyWere
  BY TemplateInvHolds
<1> QED
  BY <1>1, AlwaysTemplateInv, PTL

\* The edit did what it reports: what was to go is gone and nothing else, each
\* paragraph to modify has its new text, and there is one element more for each
\* section that was added, except those whose donor was removed.
THEOREM TheReportIsTrue == Spec => []ReportedIsDone
<1>1. TemplateInv => ReportedIsDone
  BY TemplateInvHolds
<1> QED
  BY <1>1, AlwaysTemplateInv, PTL
=============================================================================
