--------------------------- MODULE ClauseLibrary ---------------------------
(***************************************************************************)
(* The approved clauses: Markdown files under clauses/<type>/, edited       *)
(* through the API (routers/clauses.py, clauselib/writer.py) and read as    *)
(* one validated, cached library (clauselib/loader.py) by whatever drafts.  *)
(*                                                                         *)
(* A clause handler runs without an await, so each is one step.  A writer   *)
(* parses the one clause it is given; only a load looks at them together.   *)
(* finalize_contract awaits the database between its check and its commit,  *)
(* and is two steps.                                                        *)
(***************************************************************************)
EXTENDS Naturals, FiniteSets

CONSTANTS
    Clause,         \* clause ids, in their canonical lower-case spelling
    NDA,            \* those filed under the type that is drafted here
    Position,       \* the values of `order`
    MaxVersion      \* bound on the version of a clause

ASSUME NDAAssumption == NDA \subseteq Clause
ASSUME VersionAssumption == MaxVersion \in Nat \ {0}

VARIABLES
    files,      \* the clause files on disk, by id
    cache,      \* what load_library has cached
    draft       \* a drafting run: its progress, the clauses it has rendered, and
                \* those written by editors while its final commit is under way

libraryVars == <<files, cache, draft>>

NoLibrary == <<>>   \* not loaded, or not loadable: a library is never empty
File == [version : 1 .. MaxVersion, order : Position, required : BOOLEAN]
Library == UNION {[D -> File] : D \in SUBSET Clause}

TypeOf(c) == IF c \in NDA THEN "nda" ELSE "service"

\* Mutant: the order of the clauses is taken as it is found.
LoadsUnordered(lib) == DOMAIN lib # {}

\* _reject_order_collisions, and the refusal of an empty library.  Ids cannot
\* repeat: a file's path is its id.
Loads(lib) ==
    /\ DOMAIN lib # {}
    /\ \A c, d \in DOMAIN lib :
        c # d /\ TypeOf(c) = TypeOf(d) => lib[c].order # lib[d].order

\* What load_library leaves in its cache: an exception is not cached.
Loaded(lib) == IF Loads(lib) THEN lib ELSE NoLibrary

\* What a reader sees: the cached library, or a fresh load.
ReadLibrary == IF cache # NoLibrary THEN cache ELSE Loaded(files)

Exists(c) == c \in DOMAIN ReadLibrary

\* clauses_for and required_clause_ids, of the type that is drafted
ClausesFor(lib) == [c \in DOMAIN lib \cap NDA |-> lib[c]]
Required(lib) == {c \in DOMAIN lib \cap NDA : lib[c].required}

LibraryTypeOK ==
    /\ files \in Library
    /\ cache \in Library
    /\ draft \in [progress : {"idle", "rendered", "selected", "final", "blocked"},
                  clauses : Library, written : SUBSET Clause]

-----------------------------------------------------------------------------
Untouched == [progress |-> "idle", clauses |-> NoLibrary, written |-> {}]

LibraryInit ==
    /\ files \in {lib \in UNION {[D -> [version : {1}, order : Position,
                                        required : BOOLEAN]] :
                                 D \in SUBSET Clause} : Loads(lib)}
    /\ cache = NoLibrary
    /\ draft = Untouched

\* A request that changes nothing on disk: list_clauses and clause_text, a
\* create of a clause that exists (409), an update of one that does not (404) or
\* that renames it, a body that does not parse (422).  Each loads the library.
LookUp ==
    /\ cache' = ReadLibrary
    /\ UNCHANGED <<files, draft>>

\* Mutant: the version is looked up without loading the library.
CachedVersion(c) == IF c \in DOMAIN cache THEN cache[c].version + 1 ELSE 1

NextVersion(c) == IF Exists(c) THEN ReadLibrary[c].version + 1 ELSE 1

\* upsert_clause: the clause is parsed alone and promoted, the cache is
\* dropped, and re-reading the clause loads the library with it.
WriteClause(c, order, required) ==
    /\ NextVersion(c) <= MaxVersion
    /\ files' = [d \in DOMAIN files \cup {c} |->
                    IF d = c THEN [version |-> NextVersion(c), order |-> order,
                                   required |-> required]
                    ELSE files[d]]
    /\ cache' = Loaded(files')
    /\ draft' = IF draft.progress = "selected"
                THEN [draft EXCEPT !.written = @ \cup {c}] ELSE draft

\* create_clause.  The id is looked up as it was typed and written in lower
\* case, so a clause that exists is found in its canonical spelling only.
CreateClause ==
    \E c \in Clause, canonical \in BOOLEAN :
        /\ ~(canonical /\ Exists(c))
        /\ \E order \in Position, required \in BOOLEAN : WriteClause(c, order, required)

\* update_clause
UpdateClause ==
    \E c \in Clause :
        /\ Exists(c)
        /\ \E order \in Position, required \in BOOLEAN : WriteClause(c, order, required)

\* Mutant: the cache is not dropped.
RemoveCached ==
    \E c \in DOMAIN files :
        /\ files' = [d \in DOMAIN files \ {c} |-> files[d]]
        /\ UNCHANGED <<cache, draft>>

\* remove_clause goes by the path, so it works on a library that does not load.
RemoveClause ==
    \E c \in DOMAIN files :
        /\ files' = [d \in DOMAIN files \ {c} |-> files[d]]
        /\ cache' = NoLibrary
        /\ UNCHANGED draft

\* The agent's render_clauses: the approved clauses as they stand, if there are
\* any.  A run's calls come one after the other.
RenderClauses ==
    /\ draft.progress \in {"idle", "rendered", "blocked"}
    /\ DOMAIN ClausesFor(ReadLibrary) # {}
    /\ draft' = [draft EXCEPT !.progress = "rendered", !.clauses = ClausesFor(ReadLibrary)]
    /\ cache' = ReadLibrary
    /\ UNCHANGED files

\* Mutant: held against what was required when it was rendered
SelectAsRendered ==
    /\ draft.progress \in {"rendered", "blocked"}
    /\ ReadLibrary # NoLibrary
    /\ draft' = [draft EXCEPT !.progress =
                    IF Required(draft.clauses) \subseteq DOMAIN draft.clauses
                    THEN "selected" ELSE "blocked"]
    /\ cache' = ReadLibrary
    /\ UNCHANGED files

\* finalize_contract: the draft that reproduces what was rendered is held
\* against what the library requires by now, and blocked or selected ...
SelectDraft ==
    /\ draft.progress \in {"rendered", "blocked"}
    /\ ReadLibrary # NoLibrary
    /\ draft' = [draft EXCEPT !.progress =
                    IF Required(ReadLibrary) \subseteq DOMAIN draft.clauses
                    THEN "selected" ELSE "blocked"]
    /\ cache' = ReadLibrary
    /\ UNCHANGED files

\* ... and _commit makes the selected one final; it looks at no library.
CommitFinal ==
    /\ draft.progress = "selected"
    /\ draft' = [draft EXCEPT !.progress = "final", !.written = {}]
    /\ UNCHANGED <<files, cache>>

LibraryNext ==
    \/ LookUp \/ CreateClause \/ UpdateClause \/ RemoveClause
    \/ RenderClauses \/ SelectDraft \/ CommitFinal

LibrarySpec == LibraryInit /\ [][LibraryNext]_libraryVars

-----------------------------------------------------------------------------
(***************************************************************************)
(* Properties                                                              *)
(***************************************************************************)

\* What readers get from the cache is what is on disk: no write, refused or
\* not, leaves an older library behind (writer._invalidate).
CacheIsDisk == cache # NoLibrary => cache = files /\ Loads(files)

\* A draft is assembled from clauses whose order is total, whatever the editors
\* have left on disk meanwhile (loader: "Clause order must be total").
DraftOrderTotal ==
    \A c, d \in DOMAIN draft.clauses :
        c # d => draft.clauses[c].order # draft.clauses[d].order

\* While the library can be read, replacing a clause always raises its version,
\* also when a create names an existing clause in another spelling
\* (writer.upsert_clause, "Preserve and bump the version").
EditsBumpVersion ==
    [][\A c \in DOMAIN files \cap DOMAIN files' :
        Loads(files) /\ files'[c] # files[c] =>
            files'[c].version = files[c].version + 1]_libraryVars

\* A contract that becomes final has every clause that is required at that
\* moment, also those approved after its clauses were rendered, but for the ones
\* that an editor has written between finalize_contract's check and its commit.
FinalHasRequired ==
    [][draft.progress # "final" /\ draft'.progress = "final" =>
        Required(files) \subseteq DOMAIN draft.clauses \cup draft.written]_libraryVars

\* The library on disk is always one the drafting engine can read, the claim of
\* routers/clauses.py's create_clause; an order claimed twice is promoted
\* before the load that refuses it, and the last clause can be removed.
LibraryReadable == Loads(files)
=============================================================================
