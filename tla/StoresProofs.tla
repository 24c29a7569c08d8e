---------------------------- MODULE StoresProofs ----------------------------
(* Proofs about the stores people edit while contracts are drafted: the      *)
(* clause library, the playbook, the memory, and the values under review.    *)
(* Each has an invariant of its own; a step of one leaves the others alone.  *)
EXTENDS Stores, ListsProofs

(***************************************************************************)
(* The clause library                                                      *)
(***************************************************************************)

\* The draft that is about to be committed has every clause required by now, but
\* for the ones written since finalize_contract checked it.
SelectedHasRequired ==
    draft.progress = "selected" =>
        Required(files) \subseteq DOMAIN draft.clauses \cup draft.written

LibraryInv == LibraryTypeOK /\ CacheIsDisk /\ DraftOrderTotal /\ SelectedHasRequired

\* The drafts LibraryTypeOK speaks of
Drafts == [progress : {"idle", "rendered", "selected", "final", "blocked"},
           clauses : Library, written : SUBSET Clause]

\* While the library on disk loads it is what every reader sees; a reader that
\* sees a library sees the one on disk.
LEMMA ReadersSeeDisk ==
  ASSUME CacheIsDisk
  PROVE  /\ Loads(files) => ReadLibrary = files
         /\ ReadLibrary # NoLibrary => ReadLibrary = files /\ Loads(files)
BY DEF CacheIsDisk, ReadLibrary, Loaded

\* A library that loads is not the empty one.
LEMMA LoadedIsLibrary ==
  ASSUME NEW lib \in Library
  PROVE  Loaded(lib) \in Library /\ (Loaded(lib) # NoLibrary => Loaded(lib) = lib /\ Loads(lib))
<1>1. NoLibrary \in Library
  BY DEF NoLibrary, Library
<1> QED
  BY <1>1 DEF Loaded

\* A reader leaves behind what it has read.
LEMMA ReadIsCached ==
  ASSUME LibraryTypeOK, CacheIsDisk, cache' = ReadLibrary, UNCHANGED files
  PROVE  cache' \in Library /\ CacheIsDisk'
<1>1. ReadLibrary \in Library
  BY LoadedIsLibrary DEF ReadLibrary, LibraryTypeOK
<1> QED
  BY <1>1, ReadersSeeDisk DEF CacheIsDisk, Loads

\* upsert_clause writes a file, leaves the rest, and caches what it has left.
LEMMA WriteKept ==
  ASSUME LibraryInv, NEW c \in Clause, NEW order \in Position, NEW required \in BOOLEAN,
         WriteClause(c, order, required)
  PROVE  LibraryInv'
<1>1. NextVersion(c) \in 1 .. MaxVersion
  <2>1. ReadLibrary \in Library
    BY LoadedIsLibrary DEF ReadLibrary, LibraryInv, LibraryTypeOK
  <2>2. CASE Exists(c)
    <3>1. ReadLibrary[c] \in File
      BY <2>1, <2>2 DEF Exists, Library
    <3>2. ReadLibrary[c].version \in 1 .. MaxVersion
      BY <3>1 DEF File
    <3>3. NextVersion(c) <= MaxVersion
      BY DEF WriteClause
    <3> QED
      BY <2>2, <3>2, <3>3, VersionAssumption DEF NextVersion
  <2>3. CASE ~Exists(c)
    BY <2>3, VersionAssumption DEF NextVersion
  <2> QED
    BY <2>2, <2>3
<1>2. files' \in Library
  <2>1. PICK D \in SUBSET Clause : files \in [D -> File]
    BY DEF LibraryInv, LibraryTypeOK, Library
  <2>2. [version |-> NextVersion(c), order |-> order, required |-> required] \in File
    BY <1>1 DEF File
  <2>3. files' = [d \in D \cup {c} |->
                    IF d = c THEN [version |-> NextVersion(c), order |-> order,
                                   required |-> required]
                    ELSE files[d]]
    BY <2>1 DEF WriteClause
  <2>4. files' \in [D \cup {c} -> File]
    BY <2>1, <2>2, <2>3
  <2>5. D \cup {c} \in SUBSET Clause
    BY <2>1
  <2> QED
    BY <2>4, <2>5 DEF Library
<1>3. cache' = Loaded(files')
  BY DEF WriteClause
<1>t. draft \in Drafts
  BY DEF LibraryInv, LibraryTypeOK, Drafts
<1>6. /\ draft' \in Drafts
      /\ draft'.clauses = draft.clauses /\ draft'.progress = draft.progress
      /\ draft.progress = "selected" => draft'.written = draft.written \cup {c}
  BY <1>t DEF WriteClause, Drafts
<1>7. SelectedHasRequired'
  <2>1. Required(files)' \subseteq Required(files) \cup {c}
    BY DEF WriteClause, Required
  <2> QED
    BY <1>6, <2>1 DEF LibraryInv, SelectedHasRequired
<1>4. Loaded(files') \in Library
      /\ (Loaded(files') # NoLibrary => Loaded(files') = files' /\ Loads(files'))
  BY <1>2, LoadedIsLibrary
<1>5. Loads(files)' <=> Loads(files')
  BY DEF Loads
<1> QED
  BY <1>2, <1>3, <1>4, <1>5, <1>6, <1>7
     DEF LibraryInv, LibraryTypeOK, Drafts, CacheIsDisk, DraftOrderTotal, NoLibrary

\* remove_clause leaves the other files, and no cache.
LEMMA RemoveKept ==
  ASSUME LibraryInv, RemoveClause
  PROVE  LibraryInv'
<1>1. PICK c \in DOMAIN files : files' = [d \in DOMAIN files \ {c} |-> files[d]]
  BY DEF RemoveClause
<1>2. PICK D \in SUBSET Clause : files \in [D -> File]
  BY DEF LibraryInv, LibraryTypeOK, Library
<1>3. files' \in [D \ {c} -> File] /\ D \ {c} \in SUBSET Clause
  BY <1>1, <1>2
<1>4. cache' = NoLibrary /\ NoLibrary \in Library /\ UNCHANGED draft
  BY DEF RemoveClause, NoLibrary, Library
<1>5. Required(files)' \subseteq Required(files)
  BY <1>1 DEF Required
<1> QED
  BY <1>3, <1>4, <1>5
     DEF LibraryInv, LibraryTypeOK, Library, CacheIsDisk, DraftOrderTotal, SelectedHasRequired

\* render_clauses hands out the clauses of one type, from a library that loads:
\* no two of them claim the same place.
LEMMA RenderKept ==
  ASSUME LibraryInv, RenderClauses
  PROVE  LibraryInv'
<1>1. /\ draft' = [draft EXCEPT !.progress = "rendered", !.clauses = ClausesFor(ReadLibrary)]
      /\ DOMAIN ClausesFor(ReadLibrary) # {}
  BY DEF RenderClauses
<1>2. ReadLibrary = files /\ Loads(files)
  <2>1. DOMAIN NoLibrary = {}
    BY DEF NoLibrary
  <2>2. DOMAIN ClausesFor(NoLibrary) = {}
    BY <2>1 DEF ClausesFor
  <2> QED
    BY <1>1, <2>2, ReadersSeeDisk DEF LibraryInv
<1>3. PICK D \in SUBSET Clause : files \in [D -> File]
  BY DEF LibraryInv, LibraryTypeOK, Library
<1>4. /\ ClausesFor(files) \in [D \cap NDA -> File] /\ D \cap NDA \in SUBSET Clause
      /\ DOMAIN ClausesFor(files) = D \cap NDA
      /\ \A c \in D \cap NDA : ClausesFor(files)[c] = files[c]
  BY <1>3 DEF ClausesFor
<1>5. /\ draft' \in Drafts
      /\ draft'.clauses = ClausesFor(files) /\ draft'.progress = "rendered"
  <2>1. draft \in Drafts
    BY DEF LibraryInv, LibraryTypeOK, Drafts
  <2>2. ClausesFor(files) \in Library
    BY <1>4 DEF Library
  <2> QED
    BY <1>1, <1>2, <2>1, <2>2 DEF Drafts
<1>6. DraftOrderTotal'
  <2> SUFFICES ASSUME NEW c \in D \cap NDA, NEW d \in D \cap NDA, c # d
               PROVE  files[c].order # files[d].order
    BY <1>4, <1>5 DEF DraftOrderTotal
  <2>1. TypeOf(c) = TypeOf(d)
    BY DEF TypeOf
  <2> QED
    BY <1>2, <1>3, <2>1 DEF Loads
<1>7. cache' \in Library /\ CacheIsDisk' /\ UNCHANGED files
  BY ReadIsCached DEF RenderClauses, LibraryInv
<1> QED
  BY <1>5, <1>6, <1>7 DEF LibraryInv, LibraryTypeOK, Drafts, SelectedHasRequired

\* finalize_contract keeps the clauses it was given, and selects a draft that has
\* what the library on disk requires.
LEMMA SelectKept ==
  ASSUME LibraryInv, SelectDraft
  PROVE  LibraryInv'
<1>1. draft' = [draft EXCEPT !.progress =
                    IF Required(ReadLibrary) \subseteq DOMAIN draft.clauses
                    THEN "selected" ELSE "blocked"]
  BY DEF SelectDraft
<1>2. draft \in Drafts
  BY DEF LibraryInv, LibraryTypeOK, Drafts
<1>3. draft' \in Drafts /\ draft'.clauses = draft.clauses
  BY <1>1, <1>2 DEF Drafts
<1>4. cache' \in Library /\ CacheIsDisk' /\ UNCHANGED files
  BY ReadIsCached DEF SelectDraft, LibraryInv
<1>5. ReadLibrary = files
  BY ReadersSeeDisk DEF SelectDraft, LibraryInv
<1>6. SelectedHasRequired'
  <2>1. CASE Required(files) \subseteq DOMAIN draft.clauses
    BY <1>3, <1>4, <2>1 DEF SelectedHasRequired, Required
  <2>2. CASE ~(Required(files) \subseteq DOMAIN draft.clauses)
    BY <1>1, <1>2, <1>5, <2>2 DEF SelectedHasRequired, Drafts
  <2> QED
    BY <2>1, <2>2
<1> QED
  BY <1>3, <1>4, <1>6 DEF LibraryInv, LibraryTypeOK, Drafts, DraftOrderTotal

\* The commit changes the draft's progress only.
LEMMA CommitKept ==
  ASSUME LibraryInv, CommitFinal
  PROVE  LibraryInv'
<1>1. draft' = [draft EXCEPT !.progress = "final", !.written = {}] /\ UNCHANGED <<files, cache>>
  BY DEF CommitFinal
<1>2. draft \in Drafts
  BY DEF LibraryInv, LibraryTypeOK, Drafts
<1>3. draft' \in Drafts /\ draft'.clauses = draft.clauses /\ draft'.progress = "final"
  BY <1>1, <1>2 DEF Drafts
<1> QED
  BY <1>1, <1>3 DEF LibraryInv, LibraryTypeOK, Drafts, CacheIsDisk, DraftOrderTotal,
                    SelectedHasRequired, Loads

\* No request, reader or drafting run breaks the library's invariant.
LEMMA LibraryKept ==
  ASSUME LibraryInv, [LibraryNext]_libraryVars
  PROVE  LibraryInv'
<1>1. CASE UNCHANGED libraryVars
  BY <1>1 DEF libraryVars, LibraryInv, LibraryTypeOK, CacheIsDisk, DraftOrderTotal,
              SelectedHasRequired, Loads, Required
<1>2. CASE LookUp
  <2>1. cache' \in Library /\ CacheIsDisk' /\ UNCHANGED <<files, draft>>
    BY <1>2, ReadIsCached DEF LookUp, LibraryInv
  <2> QED
    BY <2>1 DEF LibraryInv, LibraryTypeOK, DraftOrderTotal, SelectedHasRequired, Required
<1>3. CASE CreateClause
  BY <1>3, WriteKept DEF CreateClause
<1>4. CASE UpdateClause
  BY <1>4, WriteKept DEF UpdateClause
<1> QED
  BY <1>1, <1>2, <1>3, <1>4, RemoveKept, RenderKept, SelectKept, CommitKept
     DEF LibraryNext

\* A write that replaces a clause of a library that loads raises its version.
LEMMA WriteBumps ==
  ASSUME LibraryInv, [LibraryNext]_libraryVars, Loads(files),
         NEW c \in DOMAIN files \cap DOMAIN files', files'[c] # files[c]
  PROVE  files'[c].version = files[c].version + 1
<1>1. CASE \E b \in Clause, order \in Position, required \in BOOLEAN :
              WriteClause(b, order, required)
  <2>1. PICK b \in Clause, order \in Position, required \in BOOLEAN :
          files' = [d \in DOMAIN files \cup {b} |->
                      IF d = b THEN [version |-> NextVersion(b), order |-> order,
                                     required |-> required]
                      ELSE files[d]]
    BY <1>1 DEF WriteClause
  <2>2. c = b
    BY <2>1
  <2>3. ReadLibrary = files
    BY ReadersSeeDisk DEF LibraryInv
  <2> QED
    BY <2>1, <2>2, <2>3 DEF NextVersion, Exists
<1>2. CASE RemoveClause
  BY <1>2 DEF RemoveClause
<1>3. CASE UNCHANGED files
  BY <1>3
<1>4. CreateClause \/ UpdateClause =>
        \E b \in Clause, order \in Position, required \in BOOLEAN :
            WriteClause(b, order, required)
  BY DEF CreateClause, UpdateClause
<1>5. LookUp \/ RenderClauses \/ SelectDraft \/ CommitFinal \/ UNCHANGED libraryVars
        => UNCHANGED files
  BY DEF LookUp, RenderClauses, SelectDraft, CommitFinal, libraryVars
<1> QED
  BY <1>1, <1>2, <1>3, <1>4, <1>5 DEF LibraryNext

\* Only the commit makes a draft final, and it commits the selected one.
LEMMA FinalIsChecked ==
  ASSUME LibraryInv, [LibraryNext]_libraryVars,
         draft.progress # "final", draft'.progress = "final"
  PROVE  Required(files) \subseteq DOMAIN draft.clauses \cup draft.written
<1>t. draft \in Drafts
  BY DEF LibraryInv, LibraryTypeOK, Drafts
<1>1. CASE CommitFinal
  BY <1>1 DEF CommitFinal, LibraryInv, SelectedHasRequired
<1>2. ~RenderClauses /\ ~SelectDraft
  BY <1>t DEF RenderClauses, SelectDraft, Drafts
<1>3. LookUp \/ CreateClause \/ UpdateClause \/ RemoveClause \/ UNCHANGED libraryVars
        => draft'.progress = draft.progress
  BY <1>t DEF LookUp, CreateClause, UpdateClause, WriteClause, RemoveClause, libraryVars, Drafts
<1> QED
  BY <1>1, <1>2, <1>3 DEF LibraryNext

(***************************************************************************)
(* The playbook                                                            *)
(***************************************************************************)

\* A list of rules as a sequence that is not too long.
LEMMA RuleLists ==
  ASSUME NEW list, \E n \in 0 .. MaxRules : list \in [1 .. n -> Rule]
  PROVE  /\ list \in RuleList /\ list \in Seq(Rule)
         /\ DOMAIN list = 1 .. Len(list) /\ Len(list) \in 0 .. MaxRules
<1>1. PICK n \in 0 .. MaxRules : list \in [1 .. n -> Rule]
  OBVIOUS
<1>2. list \in Seq(Rule)
  BY <1>1, SeqDef, MaxRulesAssumption
<1>3. n \in Nat /\ DOMAIN list = 1 .. n
  BY <1>1, MaxRulesAssumption
<1>4. Len(list) = n
  BY <1>2, <1>3, LenProperties
<1> QED
  BY <1>1, <1>2, <1>3, <1>4 DEF RuleList

\* A rule that is added, replaced or removed leaves a list of rules.
LEMMA RulesAppended ==
  ASSUME rules \in RuleList, Len(rules) < MaxRules, NEW rule \in Rule
  PROVE  Append(rules, rule) \in RuleList
<1>1. rules \in Seq(Rule) /\ Len(rules) \in 0 .. MaxRules
  BY RuleLists DEF RuleList
<1>2. /\ Append(rules, rule) \in Seq(Rule)
      /\ Len(Append(rules, rule)) = Len(rules) + 1
  BY <1>1, AppendProperties
<1>3. Append(rules, rule) \in [1 .. Len(rules) + 1 -> Rule]
  BY <1>2, LenProperties, ElementOfSeq
<1> QED
  BY <1>1, <1>3, MaxRulesAssumption DEF RuleList

LEMMA RulesReplaced ==
  ASSUME rules \in RuleList, NEW i, NEW rule \in Rule
  PROVE  [rules EXCEPT ![i] = rule] \in RuleList
BY DEF RuleList

LEMMA RulesRemoved ==
  ASSUME rules \in RuleList, NEW places \in SUBSET DOMAIN rules
  PROVE  Kept(rules, places) \in RuleList
<1>1. PICK n \in 0 .. MaxRules : rules \in [1 .. n -> Rule]
  BY DEF RuleList
<1>2. n \in Nat /\ places \subseteq 1 .. n
  BY <1>1, MaxRulesAssumption
<1>3. IsFiniteSet(1 .. n) /\ Cardinality(1 .. n) = n
  BY <1>2, FS_Interval
<1>4. /\ IsFiniteSet(places) /\ Cardinality(places) \in Nat
      /\ Cardinality(places) <= n
  BY <1>2, <1>3, FS_Subset, FS_CardinalityType
<1> DEFINE m == Cardinality(places)
<1>5. m \in 0 .. MaxRules
  BY <1>1, <1>2, <1>4, MaxRulesAssumption
<1>6. places \in SUBSET Int
  BY <1>2
<1>7. PICK turns \in Bijection(1 .. m, places) :
        /\ Kept(rules, places) = Taken(rules, turns)
        /\ \A j, k \in 1 .. m : j < k => turns[j] < turns[k]
  BY <1>4, <1>6, Keeping
<1> HIDE DEF m
<1>8. turns \in [1 .. m -> places]
  BY DEF Bijection, Injection
<1>9. Kept(rules, places) \in [1 .. m -> Rule]
  BY <1>1, <1>2, <1>7, <1>8 DEF Taken
<1> QED
  BY <1>5, <1>9 DEF RuleList

\* The file has been validated, and what is cached is the file.
PolicyInv ==
    /\ PlaybookTypeOK
    /\ Accepted(rules)
    /\ loaded \subseteq {rules}
    /\ PolicyInForce

\* Every write is of a list of rules, validated, and drops the cache; a run is
\* handed what is cached.
LEMMA PolicyKept ==
  ASSUME PolicyInv, [PlaybookNext]_playbookVars
  PROVE  PolicyInv'
<1>0. rules \in RuleList
  BY DEF PolicyInv, PlaybookTypeOK
<1>1. CASE UNCHANGED playbookVars
  BY <1>1 DEF playbookVars, PolicyInv, PlaybookTypeOK, PolicyInForce, Accepted
<1>2. CASE \E list \in RuleList : WriteRules(list)
  BY <1>2 DEF WriteRules, PolicyInv, PlaybookTypeOK, PolicyInForce, Accepted
<1>3. CASE GatherRules
  <2>1. LoadPlaybook = rules
    BY DEF LoadPlaybook, PolicyInv
  <2> QED
    BY <1>3, <2>1 DEF GatherRules, PolicyInv, PlaybookTypeOK, PolicyInForce, Accepted
<1>4. CASE PutPlaybook
  BY <1>2, <1>4 DEF PutPlaybook
<1>5. CASE AddRule
  BY <1>0, <1>2, <1>5, RulesAppended DEF AddRule
<1>6. CASE EditRule
  BY <1>0, <1>2, <1>6, RulesReplaced DEF EditRule
<1>7. CASE RemoveRule
  <2>1. PICK id \in Ids : WriteRules(Kept(rules, {i \in DOMAIN rules : rules[i].id # id}))
    BY <1>7 DEF RemoveRule
  <2>2. Kept(rules, {i \in DOMAIN rules : rules[i].id # id}) \in RuleList
    BY <1>0, RulesRemoved
  <2> QED
    BY <1>2, <2>1, <2>2
<1> QED
  BY <1>1, <1>3, <1>4, <1>5, <1>6, <1>7 DEF PlaybookNext

(***************************************************************************)
(* The memory                                                              *)
(***************************************************************************)

\* The requests that will insert a row.
Writers == {r \in Request : request[r] # NotAsking /\ request[r].op # "forget"}
Asking == {r \in Request : request[r] # NotAsking}

\* A request that will insert names one key, and has read at most one row of it.
ReadOne(r) ==
    \E key \in MEMORABLE :
        /\ request[r].keys = {key}
        /\ request[r].rows \subseteq {row \in DOMAIN facts : facts[row].key = key}
        /\ \A row, other \in request[r].rows : row = other

\* Besides its types: the history, and room and one row for what is under way.
MemoryInv ==
    /\ MemoryTypeOK
    /\ HistoryLeadsOn
    /\ \A r \in Writers : ReadOne(r)
    /\ Len(facts) + Cardinality(Writers) <= MaxRows
    /\ \A r \in Writers : request[r].value \in Value

\* A request that is under way.
Call == [op : Op, keys : SUBSET MEMORABLE, value : Value \cup {Nothing},
         rows : SUBSET (1 .. MaxRows)]

LEMMA AskingIsCall ==
  ASSUME MemoryTypeOK, NEW r \in Request, request[r] # NotAsking
  PROVE  request[r] \in Call
BY DEF MemoryTypeOK, Call

LEMMA FactsTyped ==
  ASSUME MemoryTypeOK
  PROVE  /\ facts \in Seq(Fact) /\ Len(facts) \in Nat /\ DOMAIN facts = 1 .. Len(facts)
         /\ \A row \in DOMAIN facts : facts[row] \in Fact
         /\ Len(facts) <= MaxRows
<1>1. facts \in Seq(Fact) /\ Len(facts) <= MaxRows
  BY DEF MemoryTypeOK
<1>2. Len(facts) \in Nat /\ DOMAIN facts = 1 .. Len(facts)
  BY <1>1, LenProperties
<1> QED
  BY <1>1, <1>2, ElementOfSeq

\* A table the index admits an insert into, and what the insert makes of it.
LEMMA InsertMakes ==
  ASSUME NEW table \in Seq(Fact), NEW key \in MEMORABLE, NEW value \in Value,
         \A row \in DOMAIN table : ~(table[row].key = key /\ table[row].supersededBy = 0
                                     /\ ~table[row].forgotten)
  PROVE  /\ InsertFact(table, key, value) \in Seq(Fact)
         /\ Len(InsertFact(table, key, value)) = Len(table) + 1
         /\ DOMAIN InsertFact(table, key, value) = 1 .. (Len(table) + 1)
         /\ \A row \in DOMAIN table : InsertFact(table, key, value)[row] = table[row]
         /\ InsertFact(table, key, value)[Len(table) + 1].key = key
         /\ InsertFact(table, key, value)[Len(table) + 1].supersededBy = 0
<1> DEFINE new == [key |-> key, value |-> value, supersededBy |-> 0, forgotten |-> FALSE]
<1>1. new \in Fact /\ new.key = key /\ new.supersededBy = 0
  BY MaxRowsAssumption DEF Fact, Row
<1>2. InsertFact(table, key, value) = Append(table, new)
  BY DEF InsertFact
<1> HIDE DEF new
<1>3. DOMAIN table = 1 .. Len(table) /\ Len(table) \in Nat
  BY LenProperties
<1>4. /\ Append(table, new) \in Seq(Fact)
      /\ Len(Append(table, new)) = Len(table) + 1
      /\ \A row \in 1 .. Len(table) : Append(table, new)[row] = table[row]
      /\ Append(table, new)[Len(table) + 1] = new
  BY <1>1, AppendProperties
<1>5. DOMAIN Append(table, new) = 1 .. (Len(table) + 1)
  BY <1>4, LenProperties
<1> QED
  BY <1>1, <1>2, <1>3, <1>4, <1>5

\* What a step may do to the table: no row is rewritten or revived; at most one
\* is pointed elsewhere, at the row appended in its place; and a row is appended
\* only if no live row is left of its key, where the ones there were have been
\* read by the supersede that appends it.
FactStep ==
    /\ facts' \in Seq(Fact)
    /\ \A row \in DOMAIN facts :
          /\ row \in DOMAIN facts'
          /\ facts'[row].key = facts[row].key /\ facts'[row].value = facts[row].value
          /\ Live(row)' => Live(row)
          /\ facts[row].forgotten => facts'[row].forgotten
          /\ facts'[row].supersededBy # facts[row].supersededBy =>
                /\ facts'[row].supersededBy = Len(facts) + 1
                /\ Len(facts) + 1 \in DOMAIN facts'
                /\ facts'[Len(facts) + 1].key = facts[row].key
    /\ \A row, other \in DOMAIN facts :
          /\ facts'[row].supersededBy # facts[row].supersededBy
          /\ facts'[other].supersededBy # facts[other].supersededBy
          => row = other
    /\ \A new \in DOMAIN facts' \ DOMAIN facts :
          /\ new = Len(facts) + 1
          /\ facts'[new].supersededBy = 0
          /\ \A row \in LiveRows(facts'[new].key) :
                /\ ~Live(row)'
                /\ \E r \in Request : request[r].op = "supersede" /\ row \in request[r].rows

LEMMA FactsUntouched ==
  ASSUME MemoryInv, UNCHANGED facts
  PROVE  FactStep
BY FactsTyped DEF FactStep, MemoryInv, Live

\* The rows a supersede has read, retired in favour of the row it inserts next.
Retired(r) ==
    [row \in DOMAIN facts |->
        IF row \in request[r].rows
        THEN [facts[row] EXCEPT !.supersededBy = Len(facts) + 1]
        ELSE facts[row]]

LEMMA RetiredFact ==
  ASSUME NEW fact \in Fact, NEW row \in Row
  PROVE  /\ [fact EXCEPT !.supersededBy = row] \in Fact
         /\ [fact EXCEPT !.supersededBy = row].key = fact.key
         /\ [fact EXCEPT !.supersededBy = row].value = fact.value
         /\ [fact EXCEPT !.supersededBy = row].supersededBy = row
         /\ [fact EXCEPT !.supersededBy = row].forgotten = fact.forgotten
BY DEF Fact

LEMMA ForgottenFact ==
  ASSUME NEW fact \in Fact, NEW b \in BOOLEAN
  PROVE  /\ [fact EXCEPT !.forgotten = b] \in Fact
         /\ [fact EXCEPT !.forgotten = b].key = fact.key
         /\ [fact EXCEPT !.forgotten = b].value = fact.value
         /\ [fact EXCEPT !.forgotten = b].supersededBy = fact.supersededBy
         /\ [fact EXCEPT !.forgotten = b].forgotten = b
BY DEF Fact

\* There is room for the row a request under way will insert.
LEMMA RoomForWriter ==
  ASSUME MemoryInv, NEW r \in Writers
  PROVE  /\ Len(facts) + 1 <= MaxRows
         /\ Len(facts) + 1 + Cardinality(Writers \ {r}) <= MaxRows
         /\ IsFiniteSet(Writers) /\ Cardinality(Writers \ {r}) \in Nat
<1>1. IsFiniteSet(Writers)
  BY RequestAssumption, FS_Subset DEF Writers
<1>2. Cardinality(Writers \ {r}) = Cardinality(Writers) - 1 /\ IsFiniteSet(Writers \ {r})
  BY <1>1, FS_RemoveElement
<1>3. Cardinality(Writers) \in Nat /\ Cardinality(Writers \ {r}) \in Nat
  BY <1>1, <1>2, FS_CardinalityType
<1>4. Len(facts) \in Nat /\ Len(facts) + Cardinality(Writers) <= MaxRows
  BY FactsTyped DEF MemoryInv
<1> QED
  BY <1>1, <1>2, <1>3, <1>4, MaxRowsAssumption

LEMMA RetiresRows ==
  ASSUME MemoryInv, NEW r \in Writers
  PROVE  /\ Retired(r) \in Seq(Fact) /\ Len(Retired(r)) = Len(facts)
         /\ DOMAIN Retired(r) = DOMAIN facts
         /\ \A row \in DOMAIN facts :
              /\ Retired(r)[row].key = facts[row].key
              /\ Retired(r)[row].value = facts[row].value
              /\ Retired(r)[row].forgotten = facts[row].forgotten
              /\ Retired(r)[row].supersededBy =
                   IF row \in request[r].rows THEN Len(facts) + 1 ELSE facts[row].supersededBy
<1>t. /\ facts \in Seq(Fact) /\ Len(facts) \in Nat /\ DOMAIN facts = 1 .. Len(facts)
      /\ \A row \in DOMAIN facts : facts[row] \in Fact
  BY FactsTyped DEF MemoryInv
<1>1. Len(facts) + 1 \in Row
  <2>1. Len(facts) + 1 <= MaxRows
    BY RoomForWriter
  <2>2. MaxRows \in Nat
    BY MaxRowsAssumption
  <2> QED
    BY <1>t, <2>1, <2>2 DEF Row
<1>2. \A row \in DOMAIN facts :
        /\ Retired(r)[row] = IF row \in request[r].rows
                             THEN [facts[row] EXCEPT !.supersededBy = Len(facts) + 1]
                             ELSE facts[row]
        /\ Retired(r)[row] \in Fact
  BY <1>t, <1>1, RetiredFact DEF Retired
<1>3. Retired(r) \in [1 .. Len(facts) -> Fact]
  BY <1>t, <1>2 DEF Retired
<1>4. Retired(r) \in Seq(Fact) /\ Len(Retired(r)) = Len(facts)
  BY <1>t, <1>3, SeqDef
<1>5. ASSUME NEW row \in DOMAIN facts
      PROVE  /\ Retired(r)[row].key = facts[row].key
             /\ Retired(r)[row].value = facts[row].value
             /\ Retired(r)[row].forgotten = facts[row].forgotten
             /\ Retired(r)[row].supersededBy =
                  IF row \in request[r].rows THEN Len(facts) + 1 ELSE facts[row].supersededBy
  <2>1. CASE row \in request[r].rows
    <3>1. Retired(r)[row] = [facts[row] EXCEPT !.supersededBy = Len(facts) + 1]
      BY <1>2, <2>1
    <3>2. facts[row] \in Fact
      BY <1>t
    <3> QED
      BY <1>1, <2>1, <3>1, <3>2, RetiredFact
  <2>2. CASE row \notin request[r].rows
    BY <1>2, <2>2
  <2> QED
    BY <2>1, <2>2
<1> QED
  BY <1>3, <1>4, <1>5, <1>t

\* An insert into a table made from the stored one by retiring rows that a
\* supersede has read, or none.
LEMMA StoreStep ==
  ASSUME MemoryInv, NEW r \in Writers, NEW table \in Seq(Fact), Len(table) = Len(facts),
         \A row \in DOMAIN facts :
            /\ table[row].key = facts[row].key /\ table[row].value = facts[row].value
            /\ table[row].supersededBy = 0 /\ ~table[row].forgotten => Live(row)
            /\ Live(row) => \/ table[row].supersededBy = 0 /\ ~table[row].forgotten
                            \/ request[r].op = "supersede" /\ row \in request[r].rows
            /\ table[row].forgotten = facts[row].forgotten
            /\ table[row].supersededBy # facts[row].supersededBy =>
                  table[row].supersededBy = Len(facts) + 1 /\ row \in request[r].rows,
         StoreFact(r, table)
  PROVE  FactStep
<1>t. /\ facts \in Seq(Fact) /\ Len(facts) \in Nat /\ DOMAIN facts = 1 .. Len(facts)
  BY FactsTyped DEF MemoryInv
<1>d. DOMAIN table = 1 .. Len(facts)
  BY LenProperties
<1>w. r \in Request /\ request[r].value \in Value /\ request[r].keys \subseteq MEMORABLE
  BY AskingIsCall DEF MemoryInv, Writers, Call
<1>1. PICK key \in request[r].keys : facts' = InsertFact(table, key, request[r].value)
  BY DEF StoreFact
<1>o. \A row, other \in request[r].rows : row = other /\ facts[row].key = key
  BY <1>1 DEF MemoryInv, ReadOne
<1>2. CASE \E row \in DOMAIN table : table[row].key = key /\ table[row].supersededBy = 0
                                     /\ ~table[row].forgotten
  <2>1. facts' = facts
    BY <1>1, <1>2 DEF InsertFact
  <2> QED
    BY <2>1, FactsUntouched
<1>3. CASE \A row \in DOMAIN table : ~(table[row].key = key /\ table[row].supersededBy = 0
                                       /\ ~table[row].forgotten)
  <2>1. /\ facts' \in Seq(Fact)
        /\ DOMAIN facts' = 1 .. (Len(facts) + 1)
        /\ \A row \in DOMAIN table : facts'[row] = table[row]
        /\ facts'[Len(facts) + 1].key = key /\ facts'[Len(facts) + 1].supersededBy = 0
    BY <1>1, <1>3, <1>w, InsertMakes
  <2>2. ASSUME NEW row \in DOMAIN facts
        PROVE  /\ row \in DOMAIN facts'
               /\ facts'[row].key = facts[row].key /\ facts'[row].value = facts[row].value
               /\ Live(row)' => Live(row)
               /\ facts[row].forgotten => facts'[row].forgotten
    BY <1>t, <1>d, <2>1 DEF Live
  <2>4. ASSUME NEW row \in DOMAIN facts, facts'[row].supersededBy # facts[row].supersededBy
        PROVE  /\ row \in request[r].rows
               /\ facts'[row].supersededBy = Len(facts) + 1
               /\ Len(facts) + 1 \in DOMAIN facts'
               /\ facts'[Len(facts) + 1].key = facts[row].key
    <3>1. facts'[row] = table[row]
      BY <1>t, <1>d, <2>1
    <3>2. row \in request[r].rows /\ facts'[row].supersededBy = Len(facts) + 1
      BY <2>4, <3>1
    <3> QED
      BY <1>t, <1>o, <2>1, <3>2
  <2>3. ASSUME NEW new \in DOMAIN facts' \ DOMAIN facts
        PROVE  /\ new = Len(facts) + 1
               /\ facts'[new].supersededBy = 0
               /\ \A row \in LiveRows(facts'[new].key) :
                    /\ ~Live(row)'
                    /\ \E q \in Request : request[q].op = "supersede" /\ row \in request[q].rows
    <3>1. new = Len(facts) + 1
      BY <1>t, <2>1
    <3>2. ASSUME NEW row \in LiveRows(key)
          PROVE  /\ ~Live(row)'
                 /\ request[r].op = "supersede" /\ row \in request[r].rows
      <4>1. row \in DOMAIN facts /\ facts[row].key = key /\ Live(row)
        BY DEF LiveRows
      <4>2. ~(table[row].supersededBy = 0 /\ ~table[row].forgotten)
        BY <1>3, <1>d, <1>t, <4>1
      <4> QED
        BY <1>d, <1>t, <2>1, <4>1, <4>2 DEF Live
    <3> QED
      BY <1>w, <2>1, <3>1, <3>2
  <2> QED
    BY <1>o, <2>1, <2>2, <2>3, <2>4 DEF FactStep
<1> QED
  BY <1>2, <1>3

\* A forget leaves its tombstones and nothing else.
LEMMA ForgetStep ==
  ASSUME MemoryInv, NEW r \in Request, Forget(r)
  PROVE  FactStep /\ Len(facts') = Len(facts)
<1>t. /\ facts \in Seq(Fact) /\ Len(facts) \in Nat /\ DOMAIN facts = 1 .. Len(facts)
      /\ \A row \in DOMAIN facts : facts[row] \in Fact
  BY FactsTyped DEF MemoryInv
<1>1. ASSUME NEW row \in DOMAIN facts
      PROVE  /\ facts'[row] \in Fact
             /\ facts'[row].key = facts[row].key /\ facts'[row].value = facts[row].value
             /\ Live(row)' => Live(row)
             /\ facts[row].forgotten => facts'[row].forgotten
             /\ facts'[row].supersededBy = facts[row].supersededBy
  <2> DEFINE b == facts[row].forgotten \/ row \in request[r].rows
  <2>1. facts'[row] = [facts[row] EXCEPT !.forgotten = b]
    BY DEF Forget
  <2>2. b \in BOOLEAN /\ facts[row] \in Fact /\ facts[row].forgotten \in BOOLEAN
    BY <1>t DEF Fact
  <2>3. /\ facts'[row] \in Fact
        /\ facts'[row].key = facts[row].key /\ facts'[row].value = facts[row].value
        /\ facts'[row].supersededBy = facts[row].supersededBy
        /\ facts'[row].forgotten = b
    <3> HIDE DEF b
    <3> QED
      BY <2>1, <2>2, ForgottenFact
  <2> QED
    BY <2>2, <2>3 DEF Live
<1>2. facts' \in [1 .. Len(facts) -> Fact]
  <2>1. facts' = [row \in DOMAIN facts |->
                    [facts[row] EXCEPT !.forgotten = @ \/ row \in request[r].rows]]
    BY DEF Forget
  <2>2. \A row \in DOMAIN facts :
          [facts[row] EXCEPT !.forgotten = @ \/ row \in request[r].rows] \in Fact
    BY <1>1, <2>1
  <2> HIDE DEF Fact
  <2> QED
    BY <1>t, <2>1, <2>2
<1>3. facts' \in Seq(Fact) /\ Len(facts') = Len(facts) /\ DOMAIN facts' = DOMAIN facts
  BY <1>t, <1>2, SeqDef
<1> QED
  BY <1>1, <1>3 DEF FactStep

\* A request that is done, or whose insert is, no longer counts.
LEMMA DoneStep ==
  ASSUME MemoryInv, NEW r \in Request, Done(r)
  PROVE  /\ request' \in [Request -> {NotAsking} \cup Call]
         /\ Writers' = Writers \ {r}
         /\ \A q \in Writers' : request'[q].value \in Value
         /\ FactStep => \A q \in Writers' : ReadOne(q)'
<1>1. request \in [Request -> {NotAsking} \cup Call]
  BY DEF MemoryInv, MemoryTypeOK, Call
<1>2. /\ request' \in [Request -> {NotAsking} \cup Call] /\ Writers' = Writers \ {r}
      /\ \A q \in Writers' : q \in Writers /\ request'[q] = request[q]
  BY <1>1 DEF Done, Writers
<1>3. \A q \in Writers' : request'[q].value \in Value
  BY <1>2 DEF MemoryInv
<1>4. ASSUME FactStep, NEW q \in Writers'
      PROVE  ReadOne(q)'
  <2>1. ReadOne(q) /\ request'[q] = request[q]
    BY <1>2 DEF MemoryInv
  <2>2. \A row \in DOMAIN facts : row \in DOMAIN facts' /\ facts'[row].key = facts[row].key
    BY <1>4 DEF FactStep
  <2> QED
    BY <2>1, <2>2 DEF ReadOne
<1> QED
  BY <1>2, <1>3, <1>4

\* An insert takes up the room that was kept for it.
LEMMA WriterStep ==
  ASSUME MemoryInv, NEW r \in Request, RememberNew(r) \/ Supersede(r)
  PROVE  FactStep /\ Done(r) /\ r \in Writers /\ Len(facts') \in {Len(facts), Len(facts) + 1}
<1>t. facts \in Seq(Fact) /\ DOMAIN facts = 1 .. Len(facts) /\ Len(facts) \in Nat
  BY FactsTyped DEF MemoryInv
<1>w. r \in Writers
  BY DEF RememberNew, Supersede, Writers, NotAsking
<1>1. request[r].value \in Value /\ request[r].keys \subseteq MEMORABLE
  BY <1>w, AskingIsCall DEF MemoryInv, Writers, Call
<1>2. PICK table \in Seq(Fact) :
        /\ Len(table) = Len(facts) /\ StoreFact(r, table)
        /\ \A row \in DOMAIN facts :
            /\ table[row].key = facts[row].key /\ table[row].value = facts[row].value
            /\ table[row].supersededBy = 0 /\ ~table[row].forgotten => Live(row)
            /\ Live(row) => \/ table[row].supersededBy = 0 /\ ~table[row].forgotten
                            \/ request[r].op = "supersede" /\ row \in request[r].rows
            /\ table[row].forgotten = facts[row].forgotten
            /\ table[row].supersededBy # facts[row].supersededBy =>
                  table[row].supersededBy = Len(facts) + 1 /\ row \in request[r].rows
  <2>1. CASE RememberNew(r)
    BY <1>t, <2>1 DEF RememberNew, Live
  <2>2. CASE Supersede(r)
    <3>1. StoreFact(r, Retired(r)) /\ request[r].op = "supersede"
      BY <2>2 DEF Supersede, Retired
    <3>2. /\ Retired(r) \in Seq(Fact) /\ Len(Retired(r)) = Len(facts)
          /\ \A row \in DOMAIN facts :
              /\ Retired(r)[row].key = facts[row].key
              /\ Retired(r)[row].value = facts[row].value
              /\ Retired(r)[row].forgotten = facts[row].forgotten
              /\ Retired(r)[row].supersededBy =
                   IF row \in request[r].rows THEN Len(facts) + 1 ELSE facts[row].supersededBy
      BY <1>w, RetiresRows
    <3>3. Len(facts) + 1 # 0
      BY <1>t
    <3>4. \A row \in DOMAIN facts :
            /\ Retired(r)[row].supersededBy = 0 /\ ~Retired(r)[row].forgotten => Live(row)
            /\ Live(row) => \/ Retired(r)[row].supersededBy = 0 /\ ~Retired(r)[row].forgotten
                            \/ request[r].op = "supersede" /\ row \in request[r].rows
      BY <3>1, <3>2, <3>3 DEF Live
    <3>5. \A row \in DOMAIN facts :
            Retired(r)[row].supersededBy # facts[row].supersededBy =>
              Retired(r)[row].supersededBy = Len(facts) + 1 /\ row \in request[r].rows
      BY <3>2
    <3> QED
      BY <3>1, <3>2, <3>4, <3>5
  <2> QED
    BY <2>1, <2>2
<1>3. FactStep
  BY <1>w, <1>2, StoreStep
<1>4. Len(facts') \in {Len(facts), Len(facts) + 1}
  <2>1. PICK key \in request[r].keys : facts' = InsertFact(table, key, request[r].value)
    BY <1>2 DEF StoreFact
  <2>2. facts' = facts \/ Len(facts') = Len(table) + 1
    BY <1>1, <2>1, InsertMakes DEF InsertFact
  <2> QED
    BY <1>2, <2>2
<1> QED
  BY <1>w, <1>2, <1>3, <1>4 DEF StoreFact

\* What is recalled is the last row of its key, so there is one at most.
LEMMA LiveIsLast ==
  ASSUME MemoryTypeOK, HistoryLeadsOn, NEW key \in MEMORABLE,
         NEW row \in LiveRows(key), NEW other \in LiveRows(key)
  PROVE  row = other
<1>1. Len(facts) \in Nat /\ DOMAIN facts = 1 .. Len(facts)
  BY FactsTyped
<1>2. /\ row \in DOMAIN facts /\ facts[row].key = key
      /\ other \in DOMAIN facts /\ facts[other].key = key
      /\ Between(row, Len(facts) + 1) = {} /\ Between(other, Len(facts) + 1) = {}
  BY DEF LiveRows, HistoryLeadsOn
<1>3. CASE row < other
  <2>1. other \in Between(row, Len(facts) + 1)
    BY <1>1, <1>2, <1>3 DEF Between
  <2> QED
    BY <1>2, <2>1
<1>4. CASE other < row
  <2>1. row \in Between(other, Len(facts) + 1)
    BY <1>1, <1>2, <1>4 DEF Between
  <2> QED
    BY <1>2, <2>1
<1> QED
  BY <1>1, <1>2, <1>3, <1>4

\* A request that begins finds room for the row it may insert.
LEMMA BeginStep ==
  ASSUME MemoryInv, NEW r \in Request, ReadLive(r) \/ ReadAll(r)
  PROVE  /\ UNCHANGED facts
         /\ request' \in [Request -> {NotAsking} \cup Call]
         /\ Len(facts) + Cardinality(Writers') <= MaxRows
         /\ \A q \in Writers' : request'[q].value \in Value /\ ReadOne(q)'
<1>t. facts \in Seq(Fact) /\ DOMAIN facts = 1 .. Len(facts) /\ Len(facts) \in Nat
      /\ Len(facts) <= MaxRows
  BY FactsTyped DEF MemoryInv
<1>1. PICK op \in Op, keys \in SUBSET MEMORABLE, value \in Value \cup {Nothing} :
        /\ Begin(r, op, keys, value)
        /\ op # "forget" => value \in Value /\ \E key \in MEMORABLE : keys = {key}
  BY DEF ReadLive, ReadAll, Op
<1> DEFINE call == [op |-> op, keys |-> keys, value |-> value,
                    rows |-> UNION {LiveRows(k) : k \in keys}]
<1>2. request' = [request EXCEPT ![r] = call] /\ request[r] = NotAsking /\ UNCHANGED facts
  BY <1>1 DEF Begin
<1>3. call \in Call
  <2>1. \A k \in keys : LiveRows(k) \subseteq 1 .. MaxRows
    BY <1>t, MaxRowsAssumption DEF LiveRows
  <2> QED
    BY <2>1 DEF Call
<1>4. /\ call.op = op /\ call.value = value /\ call # NotAsking /\ call.keys = keys
      /\ call.rows = UNION {LiveRows(k) : k \in keys}
  BY DEF NotAsking
<1>5. request \in [Request -> {NotAsking} \cup Call]
  BY DEF MemoryInv, MemoryTypeOK, Call
<1> HIDE DEF call
<1>6. request' \in [Request -> {NotAsking} \cup Call]
  BY <1>2, <1>3, <1>5
<1>7. Writers' = IF op = "forget" THEN Writers ELSE Writers \cup {r}
  BY <1>2, <1>4, <1>5 DEF Writers
<1>8. \A q \in Writers' : request'[q].value \in Value
  BY <1>1, <1>2, <1>4, <1>5, <1>7 DEF MemoryInv, Writers
<1>10. ASSUME NEW q \in Writers'
       PROVE  ReadOne(q)'
  <2>1. CASE q # r
    <3>1. q \in Writers /\ request'[q] = request[q]
      BY <1>2, <1>5, <1>7, <2>1 DEF Writers
    <3>2. ReadOne(q)
      BY <3>1 DEF MemoryInv
    <3> QED
      BY <1>2, <3>1, <3>2 DEF ReadOne
  <2>2. CASE q = r
    <3>1. op # "forget" /\ request'[r] = call
      BY <1>2, <1>4, <1>5, <2>2 DEF Writers
    <3>2. PICK key \in MEMORABLE : keys = {key}
      BY <1>1, <3>1
    <3>3. request'[r].keys = {key} /\ request'[r].rows = LiveRows(key)
      BY <1>4, <3>1, <3>2
    <3>4. \A row, other \in LiveRows(key) : row = other
      BY LiveIsLast DEF MemoryInv
    <3>5. LiveRows(key) \subseteq {row \in DOMAIN facts : facts[row].key = key}
      BY DEF LiveRows
    <3> QED
      BY <1>2, <2>2, <3>3, <3>4, <3>5 DEF ReadOne
  <2> QED
    BY <2>1, <2>2
<1>9. Len(facts) + Cardinality(Writers') <= MaxRows
  <2>1. CASE op = "forget"
    BY <1>7, <2>1 DEF MemoryInv
  <2>2. CASE op # "forget"
    <3>1. Len(facts) + Cardinality(Asking) < MaxRows
      BY <1>1, <2>2 DEF Begin, Asking
    <3>2. IsFiniteSet(Asking) /\ Writers \in SUBSET Asking /\ r \notin Writers
      BY <1>2, RequestAssumption, FS_Subset DEF Asking, Writers
    <3>3. /\ Cardinality(Writers) <= Cardinality(Asking) /\ IsFiniteSet(Writers)
      BY <3>2, FS_Subset
    <3>4. Cardinality(Writers \cup {r}) = Cardinality(Writers) + 1
      BY <3>2, <3>3, FS_AddElement
    <3>5. Cardinality(Writers) \in Nat /\ Cardinality(Asking) \in Nat
      BY <3>2, <3>3, FS_CardinalityType
    <3>6. Cardinality(Writers') = Cardinality(Writers) + 1
      BY <1>7, <2>2, <3>4
    <3> QED
      BY <1>t, <3>1, <3>3, <3>5, <3>6, MaxRowsAssumption
  <2> QED
    BY <2>1, <2>2
<1> QED
  BY <1>2, <1>6, <1>8, <1>9, <1>10

\* Every step of the memory keeps to what a step may do to the table.
LEMMA FactsKept ==
  ASSUME MemoryInv, [MemoryNext]_memoryVars
  PROVE  FactStep
<1>1. CASE UNCHANGED facts
  BY <1>1, FactsUntouched
<1>2. UNCHANGED memoryVars => UNCHANGED facts
  BY DEF memoryVars
<1>3. ASSUME NEW r \in Request, ReadLive(r) \/ ReadAll(r) \/ RememberKnown(r)
      PROVE  UNCHANGED facts
  BY <1>3 DEF ReadLive, ReadAll, Begin, RememberKnown
<1> QED
  BY <1>1, <1>2, <1>3, ForgetStep, WriterStep DEF MemoryNext

\* A row that is superseded while it is not the last of its key has a forgotten
\* one after it: the last one is neither recalled nor superseded.
LEMMA ForgottenBetween ==
  ASSUME MemoryInv, FactStep, NEW row \in DOMAIN facts,
         facts'[row].supersededBy # facts[row].supersededBy,
         Between(row, Len(facts) + 1) # {}
  PROVE  \E other \in Between(row, Len(facts) + 1) : facts'[other].forgotten
<1> DEFINE later == Between(row, Len(facts) + 1)
           last == Max(later)
<1>t. Len(facts) \in Nat /\ DOMAIN facts = 1 .. Len(facts)
      /\ \A r \in DOMAIN facts : facts[r] \in Fact
  BY FactsTyped DEF MemoryInv
<1>1. later \in SUBSET (1 .. Len(facts))
  BY <1>t DEF Between
<1>2. last \in later /\ \A y \in later : y <= last
  <2>1. later # {}
    OBVIOUS
  <2> HIDE DEF later
  <2> QED
    BY <1>t, <1>1, <2>1, GreatestIn
<1> HIDE DEF last
<1>3. /\ last \in DOMAIN facts /\ last \in Nat /\ row < last /\ last <= Len(facts)
      /\ facts[last].key = facts[row].key
  BY <1>t, <1>2 DEF Between
<1>4. ~(facts'[last].supersededBy = 0 /\ ~facts'[last].forgotten)
  <2>1. /\ Len(facts) + 1 \in DOMAIN facts' \ DOMAIN facts
        /\ facts'[Len(facts) + 1].key = facts[row].key
    BY <1>t DEF FactStep
  <2>2. CASE Live(last)
    <3>1. last \in LiveRows(facts[row].key)
      BY <1>3, <2>2 DEF LiveRows
    <3>2. \A new \in DOMAIN facts' \ DOMAIN facts : \A old \in LiveRows(facts'[new].key) :
            ~(facts'[old].supersededBy = 0 /\ ~facts'[old].forgotten)
      BY DEF FactStep, Live
    <3> QED
      BY <2>1, <3>1, <3>2
  <2>3. CASE ~Live(last)
    BY <1>3, <2>3 DEF FactStep, Live
  <2> QED
    BY <2>2, <2>3
<1>5. facts'[last].supersededBy = facts[last].supersededBy
  BY <1>t, <1>3 DEF FactStep
<1>6. facts[last].supersededBy = 0
  <2> SUFFICES ASSUME facts[last].supersededBy # 0 PROVE FALSE
    OBVIOUS
  <2> DEFINE next == facts[last].supersededBy
  <2>1. next \in DOMAIN facts /\ last < next /\ facts[next].key = facts[last].key
    BY <1>3 DEF MemoryInv, HistoryLeadsOn
  <2> HIDE DEF next
  <2>2. next \in later
    BY <1>t, <1>3, <2>1 DEF Between
  <2> QED
    BY <1>t, <1>2, <1>3, <2>1, <2>2
<1>7. facts'[last].forgotten
  BY <1>4, <1>5, <1>6
<1> QED
  BY <1>2, <1>7

\* No step breaks off the history of a key.
LEMMA HistoryKept ==
  ASSUME MemoryInv, FactStep
  PROVE  HistoryLeadsOn'
<1>t. Len(facts) \in Nat /\ DOMAIN facts = 1 .. Len(facts)
  BY FactsTyped DEF MemoryInv
<1>u. Len(facts') \in Nat /\ DOMAIN facts' = 1 .. Len(facts')
  BY LenProperties DEF FactStep
<1>n. /\ \A row \in DOMAIN facts :
            /\ row \in DOMAIN facts' /\ facts'[row].key = facts[row].key
            /\ Live(row)' => Live(row)
            /\ facts[row].forgotten => facts'[row].forgotten
            /\ facts'[row].supersededBy # facts[row].supersededBy =>
                  /\ facts'[row].supersededBy = Len(facts) + 1
                  /\ Len(facts) + 1 \in DOMAIN facts'
                  /\ facts'[Len(facts) + 1].key = facts[row].key
      /\ \A new \in DOMAIN facts' \ DOMAIN facts :
            /\ new = Len(facts) + 1 /\ facts'[new].supersededBy = 0
            /\ \A row \in LiveRows(facts'[new].key) : ~Live(row)'
  BY DEF FactStep
<1>l. Len(facts') \in {Len(facts), Len(facts) + 1}
  <2>1. Len(facts') >= Len(facts)
    <3>1. CASE Len(facts) = 0
      BY <1>u, <3>1
    <3>2. CASE Len(facts) # 0
      <4>1. Len(facts) \in DOMAIN facts'
        BY <1>t, <1>n, <3>2
      <4> QED
        BY <1>t, <1>u, <4>1
    <3> QED
      BY <3>1, <3>2
  <2>2. CASE Len(facts') > Len(facts)
    <3>1. Len(facts') \in DOMAIN facts' \ DOMAIN facts
      BY <1>t, <1>u, <2>2
    <3>2. Len(facts') = Len(facts) + 1
      BY <1>n, <3>1
    <3> QED
      BY <3>2
  <2>3. Len(facts') = Len(facts) \/ Len(facts') > Len(facts)
    <3> DEFINE old == Len(facts)
               new == Len(facts')
    <3>1. old \in Nat /\ new \in Nat /\ new >= old
      BY <1>t, <1>u, <2>1
    <3> HIDE DEF old, new
    <3>2. new = old \/ new > old
      BY <3>1
    <3> QED
      BY <3>2 DEF old, new
  <2> QED
    BY <2>2, <2>3
<1>1. ASSUME NEW row \in DOMAIN facts', facts'[row].supersededBy # 0
      PROVE  /\ facts'[row].supersededBy \in DOMAIN facts' /\ row < facts'[row].supersededBy
             /\ facts'[facts'[row].supersededBy].key = facts'[row].key
             /\ Between(row, facts[row].supersededBy)' # {} =>
                  \E other \in Between(row, facts[row].supersededBy)' : facts'[other].forgotten
  <2>1. row \in DOMAIN facts
    BY <1>1, <1>n
  <2>2. CASE facts'[row].supersededBy = facts[row].supersededBy
    <3> DEFINE next == facts[row].supersededBy
    <3>1. next \in DOMAIN facts /\ row < next /\ facts[next].key = facts[row].key
          /\ (Between(row, next) # {} =>
                \E other \in Between(row, next) : facts[other].forgotten)
      BY <1>1, <2>1, <2>2 DEF MemoryInv, HistoryLeadsOn
    <3>2. Between(row, next) \subseteq DOMAIN facts
      BY DEF Between
    <3>3. Between(row, facts[row].supersededBy)' = Between(row, next)
      <4>1. next \in DOMAIN facts
        BY <3>1
      <4> QED
        BY <1>t, <1>n, <2>1, <2>2, <4>1 DEF Between
    <3>4. \A other \in Between(row, next) : facts[other].forgotten => facts'[other].forgotten
      BY <1>n, <3>2
    <3>5. facts'[next].key = facts[next].key /\ facts'[row].key = facts[row].key
          /\ next \in DOMAIN facts'
      BY <1>n, <2>1, <3>1
    <3> QED
      BY <2>2, <3>1, <3>3, <3>4, <3>5
  <2>3. CASE facts'[row].supersededBy # facts[row].supersededBy
    <3>1. /\ facts'[row].supersededBy = Len(facts) + 1 /\ Len(facts) + 1 \in DOMAIN facts'
          /\ facts'[Len(facts) + 1].key = facts'[row].key
      BY <1>n, <2>1, <2>3
    <3>2. Between(row, facts[row].supersededBy)' = Between(row, Len(facts) + 1)
      BY <1>t, <1>n, <2>1, <3>1 DEF Between
    <3>3. row < Len(facts) + 1
      BY <1>t, <2>1
    <3> QED
      BY <2>1, <2>3, <3>1, <3>2, <3>3, ForgottenBetween
  <2> QED
    BY <2>2, <2>3
<1>2. ASSUME NEW row \in DOMAIN facts', Live(row)'
      PROVE  Between(row, Len(facts) + 1)' = {}
  <2> SUFFICES ASSUME NEW other, other \in DOMAIN facts', facts'[other].key = facts'[row].key,
                      other \in row + 1 .. Len(facts')
               PROVE  FALSE
    BY <1>u DEF Between
  <2>1. row \in DOMAIN facts
    <3> SUFFICES ASSUME row \notin DOMAIN facts PROVE FALSE
      OBVIOUS
    <3>1. row = Len(facts) + 1
      BY <1>n
    <3> QED
      <4> DEFINE old == Len(facts)
                 new == Len(facts')
      <4>1. old \in Nat /\ (new = old \/ new = old + 1) /\ other \in row + 1 .. new /\ row = old + 1
        BY <1>l, <1>t, <3>1
      <4> HIDE DEF old, new
      <4> QED
        BY <4>1
  <2>2. Live(row) /\ Between(row, Len(facts) + 1) = {}
    BY <1>2, <1>n, <2>1 DEF MemoryInv, HistoryLeadsOn
  <2>3. CASE other \in DOMAIN facts
    <3>1. facts[other].key = facts[row].key /\ other \in row + 1 .. Len(facts)
      BY <1>n, <1>t, <1>u, <2>1, <2>3
    <3> QED
      BY <1>t, <2>1, <2>2, <2>3, <3>1 DEF Between
  <2>4. CASE other \notin DOMAIN facts
    <3>1. row \in LiveRows(facts'[other].key)
      BY <1>n, <2>1, <2>2 DEF LiveRows
    <3> QED
      BY <1>2, <1>n, <2>4, <3>1
  <2> QED
    BY <2>3, <2>4
<1> QED
  BY <1>1, <1>2 DEF HistoryLeadsOn

\* However requests overlap, the memory's invariant holds.
LEMMA MemoryKept ==
  ASSUME MemoryInv, [MemoryNext]_memoryVars
  PROVE  MemoryInv'
<1>s. FactStep /\ HistoryLeadsOn'
  BY FactsKept, HistoryKept
<1>t. Len(facts) \in Nat /\ Len(facts) <= MaxRows /\ IsFiniteSet(Writers) /\ MaxRows \in Nat
  <2>1. IsFiniteSet(Writers)
    BY RequestAssumption, FS_Subset DEF Writers
  <2> QED
    BY <2>1, FactsTyped, MaxRowsAssumption DEF MemoryInv
<1> DEFINE Rest == /\ request' \in [Request -> {NotAsking} \cup Call]
                   /\ Len(facts') <= MaxRows
                   /\ Len(facts') + Cardinality(Writers') <= MaxRows
                   /\ \A q \in Writers' : request'[q].value \in Value /\ ReadOne(q)'
<1>1. SUFFICES Rest
  BY <1>s DEF MemoryInv, MemoryTypeOK, FactStep, Call
<1>2. CASE UNCHANGED memoryVars
  BY <1>2, <1>t DEF memoryVars, MemoryInv, MemoryTypeOK, Writers, Call, ReadOne
<1>3. ASSUME NEW r \in Request, ReadLive(r) \/ ReadAll(r)
      PROVE  Rest
  BY <1>3, <1>t, BeginStep
<1>4. ASSUME NEW r \in Request, RememberKnown(r) \/ Forget(r)
      PROVE  Rest
  <2>1. Done(r) /\ Len(facts') = Len(facts)
    BY <1>4, ForgetStep DEF RememberKnown, Forget
  <2>2. /\ request' \in [Request -> {NotAsking} \cup Call] /\ Writers' = Writers \ {r}
        /\ \A q \in Writers' : request'[q].value \in Value /\ ReadOne(q)'
    BY <1>s, <2>1, DoneStep
  <2>3. Writers' \in SUBSET Writers
    BY <2>2
  <2>4. Cardinality(Writers') <= Cardinality(Writers)
        /\ Cardinality(Writers') \in Nat /\ Cardinality(Writers) \in Nat
    BY <1>t, <2>3, FS_Subset, FS_CardinalityType
  <2>5. Len(facts) + Cardinality(Writers) <= MaxRows
    BY DEF MemoryInv
  <2> QED
    BY <1>t, <2>1, <2>2, <2>4, <2>5
<1>5. ASSUME NEW r \in Request, RememberNew(r) \/ Supersede(r)
      PROVE  Rest
  <2>1. Done(r) /\ r \in Writers /\ Len(facts') \in {Len(facts), Len(facts) + 1}
    BY <1>5, WriterStep
  <2>2. /\ request' \in [Request -> {NotAsking} \cup Call] /\ Writers' = Writers \ {r}
        /\ \A q \in Writers' : request'[q].value \in Value /\ ReadOne(q)'
    BY <1>s, <2>1, DoneStep
  <2>3. /\ Len(facts) + 1 <= MaxRows
        /\ Len(facts) + 1 + Cardinality(Writers') <= MaxRows /\ Cardinality(Writers') \in Nat
    BY <2>1, <2>2, RoomForWriter
  <2> QED
    BY <1>t, <2>1, <2>2, <2>3
<1> QED
  BY <1>2, <1>3, <1>4, <1>5 DEF MemoryNext

(***************************************************************************)
(* The values under review                                                 *)
(***************************************************************************)

Patching == [doing : {"patching"}, read : Variables, values : Variables]
Analysing == [doing : {"analysing"}, read : Variables, overtaken : BOOLEAN]
Recording == [doing : {"recording"}, read : Variables, values : Variables,
              overtaken : BOOLEAN]

\* A call that no commit has overtaken works with the values as they are.
DeskInv ==
    /\ DeskTypeOK
    /\ StaleOnlyIfOvertaken
    /\ \A p \in Page : page[p].doing = "analysing" /\ ~page[p].overtaken =>
          page[p].read = ResolveVariables(variables)
    /\ recording # AtRest /\ ~recording.overtaken => recording.read = variables

\* What is stored can be read, resolved and merged, and stays what is stored.
LEMMA VariablesTyped ==
  /\ Unset \in Variables
  /\ \A v \in Variables : ResolveVariables(v) \in Variables
  /\ \A v, w \in Variables : Over(v, w) \in Variables
<1>v. \A v : v \in Variables <=>
        /\ v \in [Name -> {0} \cup Date \cup Years \cup TermEnd]
        /\ v["effective_date"] \in {0} \cup Date
        /\ v["duration_years"] \in {0} \cup Years
        /\ v["term_end_date"] \in {0} \cup TermEnd
  BY DEF Variables
<1>n. /\ "effective_date" \in Name /\ "duration_years" \in Name /\ "term_end_date" \in Name
      /\ \A n \in Name : n \in {"effective_date", "duration_years", "term_end_date"}
  BY DEF Name
<1>1. Unset \in Variables
  BY <1>v, <1>n DEF Unset
<1>2. ASSUME NEW v \in Variables PROVE ResolveVariables(v) \in Variables
  <2>1. CASE /\ v["term_end_date"] = 0
             /\ v["effective_date"] # 0 /\ v["duration_years"] # 0
    <3> DEFINE end == v["effective_date"] + v["duration_years"]
    <3>1. end \in TermEnd
      BY <1>v, <2>1 DEF TermEnd
    <3>2. ResolveVariables(v) = [v EXCEPT !["term_end_date"] = end]
      BY <2>1 DEF ResolveVariables
    <3> HIDE DEF end
    <3> QED
      BY <1>v, <1>n, <3>1, <3>2
  <2>2. CASE ~(/\ v["term_end_date"] = 0
               /\ v["effective_date"] # 0 /\ v["duration_years"] # 0)
    BY <2>2 DEF ResolveVariables
  <2> QED
    BY <2>1, <2>2
<1>3. ASSUME NEW v \in Variables, NEW w \in Variables PROVE Over(v, w) \in Variables
  BY <1>v, <1>n DEF Over
<1> QED
  BY <1>1, <1>2, <1>3

\* What a commit makes of the other calls under way.
LEMMA OvertakenTyped ==
  ASSUME DeskTypeOK, NEW p \in Page
  PROVE  /\ Overtake(p) \in {AtRest} \cup Patching \cup [doing : {"cleared"}] \cup Analysing
         /\ Overtake(p).doing = page[p].doing
         /\ Overtake(p).doing = "analysing" => Overtake(p).overtaken
<1>1. page[p] \in {AtRest} \cup Patching \cup [doing : {"cleared"}] \cup Analysing
  BY DEF DeskTypeOK, Patching, Analysing
<1>2. CASE page[p].doing = "analysing"
  <2>1. page[p] \in Analysing
    BY <1>1, <1>2 DEF AtRest, Patching, Analysing
  <2> QED
    BY <1>2, <2>1 DEF Overtake, Analysing
<1>3. CASE page[p].doing # "analysing"
  BY <1>1, <1>3 DEF Overtake
<1> QED
  BY <1>2, <1>3

LEMMA PagesTyped ==
  ASSUME DeskTypeOK, NEW p \in Page
  PROVE  /\ page[p].doing = "patching" => page[p] \in Patching
         /\ page[p].doing = "analysing" => page[p] \in Analysing
         /\ recording # AtRest => recording \in Recording /\ recording.doing = "recording"
BY DEF DeskTypeOK, AtRest, Patching, Analysing, Recording

\* PatchCommit overtakes every call under way, and owes the cache a clearing.
LEMMA PatchKept ==
  ASSUME DeskInv, NEW p \in Page, PatchCommit(p)
  PROVE  DeskInv'
<1>1. /\ variables' = Over(page[p].values, page[p].read)
      /\ page' = [q \in Page |-> IF q = p THEN [doing |-> "cleared"] ELSE Overtake(q)]
      /\ recording' = IF recording = AtRest THEN AtRest ELSE [recording EXCEPT !.overtaken = TRUE]
      /\ UNCHANGED <<analysis, cached>> /\ page[p] \in Patching
  BY PagesTyped DEF PatchCommit, DeskInv
<1>2. variables' \in Variables
  BY <1>1, VariablesTyped DEF Patching
<1>3. page' \in [Page -> {AtRest} \cup Patching \cup [doing : {"cleared"}] \cup Analysing]
  BY <1>1, OvertakenTyped DEF DeskInv
<1>4. /\ recording' \in {AtRest} \cup Recording
      /\ recording' # AtRest => recording'.overtaken
  <2>1. CASE recording = AtRest
    BY <1>1, <2>1
  <2>2. CASE recording # AtRest
    <3>1. recording \in Recording
      BY <2>2 DEF DeskInv, DeskTypeOK, Recording
    <3> QED
      BY <1>1, <2>2, <3>1 DEF Recording
  <2> QED
    BY <2>1, <2>2
<1>5. DeskTypeOK'
  BY <1>1, <1>2, <1>3, <1>4 DEF DeskInv, DeskTypeOK, Patching, Analysing, Recording
<1>6. page'[p].doing = "cleared"
  BY <1>1
<1>7. \A q \in Page : page'[q].doing = "analysing" => page'[q].overtaken
  BY <1>1, OvertakenTyped DEF DeskInv
<1> QED
  BY <1>4, <1>5, <1>6, <1>7 DEF DeskInv, StaleOnlyIfOvertaken

\* RecordCommit overtakes every analysis: the one cached, and those under way.
LEMMA RecordKept ==
  ASSUME DeskInv, RecordCommit
  PROVE  DeskInv'
<1>1. /\ recording # AtRest /\ recording' = AtRest
      /\ variables' = Over(recording.read, recording.values)
      /\ page' = [p \in Page |-> Overtake(p)]
      /\ analysis' = [analysis EXCEPT !.overtaken = cached]
      /\ UNCHANGED cached
  BY DEF RecordCommit
<1>2. recording \in Recording /\ analysis \in [saw : Variables, overtaken : BOOLEAN]
      /\ cached \in BOOLEAN
  BY <1>1 DEF DeskInv, DeskTypeOK, Recording
<1>3. variables' \in Variables
  BY <1>1, <1>2, VariablesTyped DEF Recording
<1>4. page' \in [Page -> {AtRest} \cup Patching \cup [doing : {"cleared"}] \cup Analysing]
  BY <1>1, OvertakenTyped DEF DeskInv
<1>5. /\ analysis' \in [saw : Variables, overtaken : BOOLEAN]
      /\ cached' => analysis'.overtaken
  BY <1>1, <1>2
<1>6. DeskTypeOK'
  BY <1>1, <1>2, <1>3, <1>4, <1>5 DEF DeskTypeOK, Patching, Analysing, Recording
<1>7. \A q \in Page : page'[q].doing = "analysing" => page'[q].overtaken
  BY <1>1, OvertakenTyped DEF DeskInv
<1> QED
  BY <1>1, <1>5, <1>6, <1>7 DEF DeskInv, StaleOnlyIfOvertaken

\* The requests that change no value.
LEMMA RequestKept ==
  ASSUME DeskInv, NEW p \in Page,
         PatchRead(p) \/ InvalidateCache(p) \/ AnalyseMiss(p) \/ Analysed(p)
  PROVE  DeskInv'
<1>t. /\ page \in [Page -> {AtRest} \cup Patching \cup [doing : {"cleared"}] \cup Analysing]
      /\ variables \in Variables
      /\ analysis \in [saw : Variables, overtaken : BOOLEAN] /\ cached \in BOOLEAN
  BY DEF DeskInv, DeskTypeOK, Patching, Analysing
<1>u. UNCHANGED <<variables, recording>>
  BY DEF PatchRead, InvalidateCache, AnalyseMiss, Analysed
<1>1. CASE PatchRead(p)
  <2>1. PICK values \in Stated :
          page' = [page EXCEPT ![p] = [doing |-> "patching", read |-> variables,
                                       values |-> ResolveVariables(values)]]
    BY <1>1 DEF PatchRead
  <2>2. ResolveVariables(values) \in Variables
    BY VariablesTyped DEF Stated
  <2>3. page[p] = AtRest /\ UNCHANGED <<analysis, cached>>
    BY <1>1 DEF PatchRead
  <2>4. /\ page' \in [Page -> {AtRest} \cup Patching \cup [doing : {"cleared"}] \cup Analysing]
        /\ page'[p].doing = "patching" /\ page[p].doing = "idle"
        /\ \A q \in Page \ {p} : page'[q] = page[q]
    BY <1>t, <2>1, <2>2, <2>3 DEF Patching, AtRest
  <2> QED
    BY <1>t, <1>u, <2>3, <2>4
       DEF DeskInv, DeskTypeOK, StaleOnlyIfOvertaken, Patching, Analysing
<1>2. CASE InvalidateCache(p)
  <2>1. /\ page' = [page EXCEPT ![p] = AtRest] /\ cached' = FALSE
        /\ analysis' = [saw |-> Unset, overtaken |-> FALSE]
    BY <1>2 DEF InvalidateCache
  <2>2. analysis' \in [saw : Variables, overtaken : BOOLEAN]
    BY <2>1, VariablesTyped
  <2>3. /\ page' \in [Page -> {AtRest} \cup Patching \cup [doing : {"cleared"}] \cup Analysing]
        /\ page'[p].doing = "idle" /\ \A q \in Page \ {p} : page'[q] = page[q]
    BY <1>t, <2>1 DEF AtRest
  <2> QED
    BY <1>t, <1>u, <2>1, <2>2, <2>3
       DEF DeskInv, DeskTypeOK, StaleOnlyIfOvertaken, Patching, Analysing
<1>3. CASE AnalyseMiss(p)
  <2>1. /\ page' = [page EXCEPT ![p] = [doing |-> "analysing",
                      read |-> ResolveVariables(variables), overtaken |-> FALSE]]
        /\ UNCHANGED <<analysis, cached>> /\ ~cached
    BY <1>3 DEF AnalyseMiss
  <2>2. ResolveVariables(variables) \in Variables
    BY <1>t, VariablesTyped
  <2>3. /\ page' \in [Page -> {AtRest} \cup Patching \cup [doing : {"cleared"}] \cup Analysing]
        /\ page'[p].read = ResolveVariables(variables)
        /\ \A q \in Page \ {p} : page'[q] = page[q]
    BY <1>t, <2>1, <2>2 DEF Analysing
  <2> QED
    BY <1>t, <1>u, <2>1, <2>3
       DEF DeskInv, DeskTypeOK, StaleOnlyIfOvertaken, Patching, Analysing
<1>4. CASE Analysed(p)
  <2>1. page[p] \in Analysing /\ page' = [page EXCEPT ![p] = AtRest]
    BY <1>4, PagesTyped DEF Analysed, DeskInv
  <2>2. /\ page' \in [Page -> {AtRest} \cup Patching \cup [doing : {"cleared"}] \cup Analysing]
        /\ page'[p].doing = "idle" /\ \A q \in Page \ {p} : page'[q] = page[q]
    BY <1>t, <2>1 DEF AtRest
  <2>3. CASE UNCHANGED <<analysis, cached>>
    BY <1>4, <1>t, <1>u, <2>2, <2>3
       DEF DeskInv, DeskTypeOK, StaleOnlyIfOvertaken, Patching, Analysing, Analysed
  <2>4. CASE /\ cached' = TRUE
             /\ analysis' = [saw |-> page[p].read, overtaken |-> page[p].overtaken]
    <3>1. analysis' \in [saw : Variables, overtaken : BOOLEAN]
      BY <2>1, <2>4 DEF Analysing
    <3>2. ~analysis'.overtaken => analysis'.saw = ResolveVariables(variables)
      BY <1>4, <2>4 DEF Analysed, DeskInv
    <3> QED
      BY <1>t, <1>u, <2>2, <2>4, <3>1, <3>2
         DEF DeskInv, DeskTypeOK, StaleOnlyIfOvertaken, Patching, Analysing
  <2> QED
    BY <1>4, <2>3, <2>4 DEF Analysed
<1> QED
  BY <1>1, <1>2, <1>3, <1>4

\* No order of the calls leaves an analysis stale that nothing has overtaken.
LEMMA DeskKept ==
  ASSUME DeskInv, [DeskNext]_deskVars
  PROVE  DeskInv'
<1>1. CASE UNCHANGED deskVars
  BY <1>1 DEF deskVars, DeskInv, DeskTypeOK, StaleOnlyIfOvertaken
<1>2. CASE RecordRead
  <2>1. PICK values \in Stated :
          recording' = [doing |-> "recording", read |-> variables,
                        values |-> ResolveVariables(values), overtaken |-> FALSE]
    BY <1>2 DEF RecordRead
  <2>2. ResolveVariables(values) \in Variables /\ variables \in Variables
    BY VariablesTyped DEF Stated, DeskInv, DeskTypeOK
  <2>3. recording' \in Recording /\ recording'.read = variables
    BY <2>1, <2>2 DEF Recording
  <2>4. UNCHANGED <<variables, page, analysis, cached>>
    BY <1>2 DEF RecordRead
  <2> QED
    BY <2>3, <2>4 DEF DeskInv, DeskTypeOK, StaleOnlyIfOvertaken, Recording
<1>3. CASE ExpireCache
  <2>1. /\ cached' = FALSE /\ analysis' = [saw |-> Unset, overtaken |-> FALSE]
        /\ UNCHANGED <<variables, page, recording>>
    BY <1>3 DEF ExpireCache
  <2>2. analysis' \in [saw : Variables, overtaken : BOOLEAN]
    BY <2>1, VariablesTyped
  <2> QED
    BY <2>1, <2>2 DEF DeskInv, DeskTypeOK, StaleOnlyIfOvertaken
<1> QED
  BY <1>1, <1>2, <1>3, PatchKept, RecordKept, RequestKept DEF DeskNext

\* What was stored before the run's record outlives it, unless they overlapped.
LEMMA RecordKeeps ==
  ASSUME DeskInv, [DeskNext]_deskVars, recording # AtRest, recording' = AtRest,
         ~recording.overtaken, NEW n \in Name, variables[n] # 0
  PROVE  variables'[n] = variables[n]
<1>1. CASE RecordCommit
  <2>1. variables' = Over(recording.read, recording.values) /\ recording.read = variables
    BY <1>1 DEF RecordCommit, DeskInv
  <2> QED
    BY <2>1 DEF Over
<1>2. ASSUME NEW p \in Page, PatchCommit(p) PROVE FALSE
  <2>1. recording' = [recording EXCEPT !.overtaken = TRUE] /\ recording \in Recording
    BY <1>2, PagesTyped DEF PatchCommit, DeskInv
  <2>2. recording'.doing = "recording"
    BY <2>1 DEF Recording
  <2> QED
    BY <2>2 DEF AtRest
<1>3. ~RecordRead
  BY DEF RecordRead
<1>4. ASSUME \/ ExpireCache \/ UNCHANGED deskVars
             \/ \E p \in Page : PatchRead(p) \/ InvalidateCache(p) \/ AnalyseMiss(p) \/ Analysed(p)
      PROVE  FALSE
  BY <1>4 DEF ExpireCache, deskVars, PatchRead, InvalidateCache, AnalyseMiss, Analysed
<1> QED
  BY <1>1, <1>2, <1>3, <1>4 DEF DeskNext

(***************************************************************************)
(* The stores together                                                     *)
(***************************************************************************)

StoresInv == LibraryInv /\ PolicyInv /\ MemoryInv /\ DeskInv

\* What a step does to each of the stores.
LEMMA StepsOfStores ==
  ASSUME [Next]_<<store, libraryVars, playbookVars, memoryVars, deskVars>>
  PROVE  /\ [LibraryNext]_libraryVars /\ [PlaybookNext]_playbookVars
         /\ [MemoryNext]_memoryVars /\ [DeskNext]_deskVars
BY DEF Next

\* Every store begins in its invariant.
LEMMA InitiallyStoresInv == Init => StoresInv
<1> SUFFICES ASSUME Init PROVE StoresInv
  OBVIOUS
<1>1. LibraryInv
  <2>1. NoLibrary \in Library /\ DOMAIN NoLibrary = {}
    BY DEF NoLibrary, Library
  <2>2. files \in Library
    <3>1. CASE store = "library"
      <4>1. PICK D \in SUBSET Clause :
              files \in [D -> [version : {1}, order : Position, required : BOOLEAN]]
        BY <3>1 DEF Init, LibraryInit
      <4>2. \A c \in D : files[c] \in File
        BY <4>1, VersionAssumption DEF File
      <4>3. files \in [D -> File]
        BY <4>1, <4>2
      <4> QED
        BY <4>3 DEF Library
    <3>2. CASE store # "library"
      BY <2>1, <3>2 DEF Init, NoLibrary
    <3> QED
      BY <3>1, <3>2
  <2>3. cache = NoLibrary /\ draft = Untouched
    BY DEF Init, LibraryInit
  <2> QED
    BY <2>1, <2>2, <2>3
       DEF LibraryInv, LibraryTypeOK, CacheIsDisk, DraftOrderTotal, SelectedHasRequired,
           Untouched
<1>2. PolicyInv
  <2>1. loaded = {} /\ gathered = [rules |-> <<>>, file |-> <<>>]
    BY DEF Init, PlaybookInit
  <2>2. Accepted(<<>>)
    BY DEF Accepted
  <2>3. Accepted(rules)
    BY <2>2 DEF Init, PlaybookInit
  <2>4. <<>> \in RuleList /\ rules \in RuleList
    <3>1. <<>> \in [1 .. 0 -> Rule]
      OBVIOUS
    <3>2. <<>> \in RuleList
      BY <3>1, MaxRulesAssumption, SMT DEF RuleList
    <3> QED
      BY <3>2 DEF Init, PlaybookInit
  <2> QED
    BY <2>1, <2>2, <2>3, <2>4 DEF PolicyInv, PolicyInForce, PlaybookTypeOK
<1>3. MemoryInv
  <2>1. facts = <<>> /\ request = [r \in Request |-> NotAsking]
    BY DEF Init, MemoryInit
  <2>2. Writers = {}
    BY <2>1 DEF Writers
  <2>3. facts \in Seq(Fact) /\ Len(facts) = 0 /\ DOMAIN facts = {}
    BY <2>1, EmptySeq
  <2>4. Cardinality(Writers) = 0
    BY <2>2, FS_EmptySet
  <2> QED
    BY <2>1, <2>2, <2>3, <2>4, MaxRowsAssumption
       DEF MemoryInv, MemoryTypeOK, HistoryLeadsOn
<1>4. DeskInv
  BY VariablesTyped DEF Init, DeskInit, DeskInv, DeskTypeOK, StaleOnlyIfOvertaken, AtRest
<1> QED
  BY <1>1, <1>2, <1>3, <1>4 DEF StoresInv

LEMMA AlwaysStoresInv == Spec => []StoresInv
<1>1. StoresInv /\ [Next]_<<store, libraryVars, playbookVars, memoryVars, deskVars>> => StoresInv'
  BY StepsOfStores, LibraryKept, PolicyKept, MemoryKept, DeskKept DEF StoresInv
<1> QED
  BY <1>1, InitiallyStoresInv, PTL DEF Spec

(***************************************************************************)
(* What the stores promise                                                 *)
(***************************************************************************)

\* The variables of every store keep their types: no version passes its bound, the
\* playbook stays a list of rules whatever is added, replaced or removed, every
\* retired row points at a row there is, and every value on the page is one that was
\* stated or follows from what was.
THEOREM StoresTyped == Spec => []TypeOK
<1>1. StoresInv => TypeOK
  BY DEF StoresInv, LibraryInv, PolicyInv, MemoryInv, DeskInv, TypeOK
<1> QED
  BY <1>1, AlwaysStoresInv, PTL

\* What readers get from the cache is what is on disk: no request leaves an older
\* library behind (clauselib/writer.py).
THEOREM CacheFollowsDisk == Spec => []CacheIsDisk
<1>1. StoresInv => CacheIsDisk
  BY DEF StoresInv, LibraryInv
<1> QED
  BY <1>1, AlwaysStoresInv, PTL

\* A draft is assembled from clauses whose order is total (clauselib/loader.py).
THEOREM DraftsAreOrdered == Spec => []DraftOrderTotal
<1>1. StoresInv => DraftOrderTotal
  BY DEF StoresInv, LibraryInv
<1> QED
  BY <1>1, AlwaysStoresInv, PTL

\* Replacing a clause of a library that can be read raises its version
\* (writer.upsert_clause).
THEOREM EditsBump == Spec => EditsBumpVersion
<1>1. StoresInv /\ [Next]_<<store, libraryVars, playbookVars, memoryVars, deskVars>> =>
        [\A c \in DOMAIN files \cap DOMAIN files' :
            Loads(files) /\ files'[c] # files[c] =>
                files'[c].version = files[c].version + 1]_libraryVars
  BY StepsOfStores, WriteBumps DEF StoresInv
<1> QED
  BY <1>1, AlwaysStoresInv, PTL DEF Spec, EditsBumpVersion

\* A contract that becomes final has every clause required at that moment, also
\* those approved after it was rendered, but for the ones written between the check
\* and the commit of finalize_contract (tools/finalize_tool.py).
THEOREM FinalsHaveRequired == Spec => FinalHasRequired
<1>1. StoresInv /\ [Next]_<<store, libraryVars, playbookVars, memoryVars, deskVars>> =>
        [draft.progress # "final" /\ draft'.progress = "final" =>
            Required(files) \subseteq DOMAIN draft.clauses \cup draft.written]_libraryVars
  BY StepsOfStores, FinalIsChecked DEF StoresInv
<1> QED
  BY <1>1, AlwaysStoresInv, PTL DEF Spec, FinalHasRequired

\* A run is handed the rules in the file, none of which carries clause text
\* (routers/playbook.py, knowledge/providers/playbook.py).
THEOREM RunsFollowPolicy == Spec => []PolicyInForce
<1>1. StoresInv => PolicyInForce
  BY DEF StoresInv, PolicyInv
<1> QED
  BY <1>1, AlwaysStoresInv, PTL

\* However requests overlap, the history of a key leads on: a superseded row points
\* at a later row of its key, past another only if a fact in between was forgotten,
\* and what is recalled was told last (memory/store.py, memory/models.py).
THEOREM HistoryIsKept == Spec => []HistoryLeadsOn
<1>1. StoresInv => HistoryLeadsOn
  BY DEF StoresInv, MemoryInv
<1> QED
  BY <1>1, AlwaysStoresInv, PTL

\* Retired rows stay retired, and no row is rewritten (memory/models.py).
THEOREM RetiredForGood == Spec => RetiredStaysRetired
<1>1. ASSUME MemoryInv, FactStep
      PROVE  \A row \in DOMAIN facts :
                /\ row \in DOMAIN facts'
                /\ facts'[row].key = facts[row].key /\ facts'[row].value = facts[row].value
                /\ ~Live(row) => ~(facts'[row].supersededBy = 0 /\ ~facts'[row].forgotten)
  BY <1>1 DEF FactStep, Live
<1>2. StoresInv /\ [Next]_<<store, libraryVars, playbookVars, memoryVars, deskVars>> =>
        [\A row \in DOMAIN facts :
            /\ row \in DOMAIN facts'
            /\ facts'[row].key = facts[row].key /\ facts'[row].value = facts[row].value
            /\ ~Live(row) => ~(facts'[row].supersededBy = 0 /\ ~facts'[row].forgotten)
        ]_memoryVars
  BY <1>1, StepsOfStores, FactsKept DEF StoresInv
<1> QED
  BY <1>2, AlwaysStoresInv, PTL DEF Spec, RetiredStaysRetired

\* A fact gives way to another only through a supersede that has read it
\* (memory/store.py, "a conflict, not an update").
THEOREM ReplacedOnlyKnowingly == Spec => ReplacedKnowingly
<1>1. ASSUME FactStep
      PROVE  \A key \in MEMORABLE : \A row \in LiveRows(key) :
                (\E new \in DOMAIN facts' \ DOMAIN facts : facts'[new].key = key) =>
                    \E r \in Request :
                        request[r].op = "supersede" /\ row \in request[r].rows
  BY <1>1 DEF FactStep
<1>2. StoresInv /\ [Next]_<<store, libraryVars, playbookVars, memoryVars, deskVars>> =>
        [\A key \in MEMORABLE : \A row \in LiveRows(key) :
            (\E new \in DOMAIN facts' \ DOMAIN facts : facts'[new].key = key) =>
                \E r \in Request :
                    request[r].op = "supersede" /\ row \in request[r].rows]_memoryVars
  BY <1>1, StepsOfStores, FactsKept DEF StoresInv
<1> QED
  BY <1>2, AlwaysStoresInv, PTL DEF Spec, ReplacedKnowingly

\* The cached analysis is of the current values, unless they changed while the
\* model was asked or were recorded by the run (phase_b/intelligence.py).
THEOREM StaleOnlyWhenOvertaken == Spec => []StaleOnlyIfOvertaken
<1>1. StoresInv => StaleOnlyIfOvertaken
  BY DEF StoresInv, DeskInv
<1> QED
  BY <1>1, AlwaysStoresInv, PTL

\* A confirmed value outlives the run's own record, unless the two overlapped
\* (api/pipeline_adapter.py, "existing values win").
THEOREM ConfirmedIsKept == Spec => RunKeepsConfirmed
<1>1. StoresInv /\ [Next]_<<store, libraryVars, playbookVars, memoryVars, deskVars>> =>
        [recording # AtRest /\ recording' = AtRest /\ ~recording.overtaken =>
            \A n \in Name : variables[n] # 0 => variables'[n] = variables[n]]_deskVars
  BY StepsOfStores, RecordKeeps DEF StoresInv
<1> QED
  BY <1>1, AlwaysStoresInv, PTL DEF Spec, RunKeepsConfirmed
=============================================================================
