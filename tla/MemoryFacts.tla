---------------------------- MODULE MemoryFacts ----------------------------
(***************************************************************************)
(* What the system remembers about its user (memory/store.py), as the       *)
(* agent's tools (tools/memory_tool.py) and the memory page                 *)
(* (routers/memory.py) read and change it: an append-only table in which    *)
(* at most one row per key is live.                                         *)
(*                                                                         *)
(* A request reads the live row and writes later, in the same transaction.  *)
(* Under READ COMMITTED another request may commit in between; the write    *)
(* itself is one step, as it locks the row it retires until the commit and  *)
(* the unique index makes an insert wait for one that is under way.         *)
(***************************************************************************)
EXTENDS Naturals, Sequences, FiniteSets

CONSTANTS
    Request,    \* the requests under way at a time: tool calls and page calls
    MEMORABLE,  \* the keys on the allow-list
    Value,
    MaxRows     \* bound on the rows of the table

ASSUME MaxRowsAssumption == MaxRows \in Nat \ {0}
ASSUME RequestAssumption == IsFiniteSet(Request)

VARIABLES
    facts,      \* memory_facts, in the order of their inserts
    request     \* each request: what it does, and the rows it has read

memoryVars == <<facts, request>>

Row == 0 .. MaxRows         \* 0: no row

Fact == [key : MEMORABLE, value : Value, supersededBy : Row,
         forgotten : BOOLEAN]

Op == {"remember", "supersede", "forget"}
NotAsking == [op |-> "idle"]
Nothing == "none"

Live(row) == facts[row].supersededBy = 0 /\ ~facts[row].forgotten
LiveRows(key) == {row \in DOMAIN facts : facts[row].key = key /\ Live(row)}

MemoryTypeOK ==
    /\ facts \in Seq(Fact) /\ Len(facts) <= MaxRows
    /\ request \in [Request -> {NotAsking} \cup
            [op : Op, keys : SUBSET MEMORABLE, value : Value \cup {Nothing}, rows : SUBSET (1 .. MaxRows)]]

-----------------------------------------------------------------------------
MemoryInit ==
    /\ facts = <<>>
    /\ request = [r \in Request |-> NotAsking]

\* Mutant: the select has lost its key.
BeginOfAnyKey(r, op, keys, value) ==
    /\ request[r] = NotAsking
    /\ op # "forget" =>
        Len(facts) + Cardinality({q \in Request : request[q] # NotAsking}) < MaxRows
    /\ request' = [request EXCEPT ![r] =
            [op |-> op, keys |-> keys, value |-> value,
             rows |-> {row \in DOMAIN facts : Live(row)}]]
    /\ UNCHANGED facts

Begin(r, op, keys, value) ==
    /\ request[r] = NotAsking
    /\ op # "forget" =>
        Len(facts) + Cardinality({q \in Request : request[q] # NotAsking}) < MaxRows
    /\ request' = [request EXCEPT ![r] =
            [op |-> op, keys |-> keys, value |-> value,
             rows |-> UNION {LiveRows(k) : k \in keys}]]
    /\ UNCHANGED facts

\* _check_writable, then _live: a key off the allow-list is refused before
\* anything is read, and a forget finds no row for one.
ReadLive(r) ==
    \E op \in Op, key \in MEMORABLE, value \in Value \cup {Nothing} :
        /\ (op = "forget") = (value = Nothing)
        /\ Begin(r, op, {key}, value)

\* forget_all reads every live row.
ReadAll(r) == Begin(r, "forget", MEMORABLE, Nothing)

Done(r) == request' = [request EXCEPT ![r] = NotAsking]

\* _insert, in a table whose unique index allows one live row per key: the new
\* table, or the old one when the index refuses and the transaction rolls back.
InsertFact(table, key, value) ==
    IF \E row \in DOMAIN table :
        table[row].key = key /\ table[row].supersededBy = 0 /\ ~table[row].forgotten
    THEN facts
    ELSE Append(table, [key |-> key, value |-> value, supersededBy |-> 0,
                        forgotten |-> FALSE])

\* The insert of a request that names one key, and the commit
StoreFact(r, table) ==
    /\ \E key \in request[r].keys : facts' = InsertFact(table, key, request[r].value)
    /\ Done(r)

\* Mutant: what is told last wins.
RememberLast(r) ==
    /\ request[r].op = "remember"
    /\ StoreFact(r, [row \in DOMAIN facts |->
                    IF row \in request[r].rows
                    THEN [facts[row] EXCEPT !.supersededBy = Len(facts) + 1]
                    ELSE facts[row]])

\* remember, when it has found no live fact
RememberNew(r) ==
    /\ request[r].op = "remember" /\ request[r].rows = {}
    /\ StoreFact(r, facts)

\* remember, when a live fact holds the same value or another: nothing is written
RememberKnown(r) ==
    /\ request[r].op = "remember" /\ request[r].rows # {}
    /\ UNCHANGED facts
    /\ Done(r)

\* Mutant: the row it has read is rewritten in place.
SupersedeInPlace(r) ==
    /\ request[r].op = "supersede"
    /\ facts' = [row \in DOMAIN facts |->
                    IF row \in request[r].rows
                    THEN [facts[row] EXCEPT !.value = request[r].value]
                    ELSE facts[row]]
    /\ Done(r)

\* supersede: the row it has read is retired by its id, whatever has become of
\* it, and points at the one inserted next.
Supersede(r) ==
    /\ request[r].op = "supersede"
    /\ StoreFact(r, [row \in DOMAIN facts |->
                    IF row \in request[r].rows
                    THEN [facts[row] EXCEPT !.supersededBy = Len(facts) + 1]
                    ELSE facts[row]])

\* forget and forget_all: a tombstone on the rows it has read
Forget(r) ==
    /\ request[r].op = "forget"
    /\ facts' = [row \in DOMAIN facts |->
                    [facts[row] EXCEPT !.forgotten = @ \/ row \in request[r].rows]]
    /\ Done(r)

MemoryNext ==
    \E r \in Request :
        \/ ReadLive(r) \/ ReadAll(r) \/ RememberNew(r) \/ RememberKnown(r)
        \/ Supersede(r) \/ Forget(r)

MemorySpec == MemoryInit /\ [][MemoryNext]_memoryVars
-----------------------------------------------------------------------------
(***************************************************************************)
(* Properties                                                              *)
(***************************************************************************)

\* The rows of its key between a row and a later one
Between(row, later) ==
    {other \in row + 1 .. later - 1 :
        other \in DOMAIN facts /\ facts[other].key = facts[row].key}

\* The history of a key can be followed however requests overlap and fail: a
\* superseded row points at a later row of its key, past another one only if a
\* fact in between was forgotten, and what is recalled is the fact told last
\* (memory/models.py, "What the system believed, and when, is recoverable").
HistoryLeadsOn ==
    \A row \in DOMAIN facts :
        LET next == facts[row].supersededBy IN
        /\ next # 0 =>
            /\ next \in DOMAIN facts /\ row < next /\ facts[next].key = facts[row].key
            /\ Between(row, next) # {} =>
                    \E other \in Between(row, next) : facts[other].forgotten
        /\ Live(row) => Between(row, Len(facts) + 1) = {}

\* Retired rows stay for audit and never come back, and no row is rewritten: a
\* request that works from a stale read cannot revive what was forgotten
\* (memory/models.py, "append-only").
RetiredStaysRetired ==
    [][\A row \in DOMAIN facts :
        /\ row \in DOMAIN facts'
        /\ facts'[row].key = facts[row].key /\ facts'[row].value = facts[row].value
        /\ ~Live(row) => ~(facts'[row].supersededBy = 0 /\ ~facts'[row].forgotten)
      ]_memoryVars

\* A fact that is recalled gives way to another only through the supersede that
\* has read that very fact; two that overlap never stack up, and a plain
\* remember never wins over what is held (store.py, "a conflict, not an update").
ReplacedKnowingly ==
    [][\A key \in MEMORABLE : \A row \in LiveRows(key) :
        (\E new \in DOMAIN facts' \ DOMAIN facts : facts'[new].key = key) =>
            \E r \in Request :
                request[r].op = "supersede" /\ row \in request[r].rows]_memoryVars
=============================================================================
