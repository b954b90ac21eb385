----------------------------- MODULE KnowledgeIndex -----------------------------
(***************************************************************************)
(* services/knowledge.py, knowledge_retrieval_cache.py and cards.py: the   *)
(* rows of indexed documents, the full-text row beside each, the card a    *)
(* model writes about it, and the cache of search results.  Sync, upload,  *)
(* delete, card building (scripts/build_cards.py) and search run in        *)
(* sessions of their own.                                                  *)
(*                                                                         *)
(* A source has one document; its content is a version, 0 for none.        *)
(***************************************************************************)
EXTENDS Integers

CONSTANTS
    Sources,       \* names of knowledge sources
    Uploads,       \* those under knowledge_upload_root
    DefaultSource, \* knowledge_source_name
    CardSources,   \* bound: sources whose cards are built
    MaxVersions    \* bound: contents a file goes through

ASSUME KnowledgeAssumption ==
    /\ Uploads \subseteq Sources /\ CardSources \subseteq Sources
    /\ DefaultSource \in Sources \ Uploads /\ MaxVersions \in Nat \ {0}

VARIABLES
    disk,       \* the file of each source
    version,    \* contents so far
    document,   \* its row
    fts,        \* its full-text row
    card,       \* its card: the content it is about, and content_hash
    cardJob,    \* a card being generated: the document as it was read, and whether it is gone
    sync,       \* the sync that runs
    cache,      \* by source name: no result, or one with the sources it may cite
    search      \* the search that runs

indexVars == <<disk, version, document, fts, card, cardJob, sync, cache, search>>

Versions == 0..MaxVersions
Contents == [Sources -> Versions]
Nothing == [s \in Sources |-> 0]
NoCard == [about |-> 0, hash |-> 0]
NoJob == [of |-> 0, gone |-> FALSE]
NoSync == [phase |-> "none", source |-> DefaultSource, file |-> 0, row |-> 0, gone |-> FALSE]
Unscoped == "all sources"
NoSearch == [phase |-> "none", scope |-> Unscoped, result |-> {}]

IndexTypeOK ==
    /\ disk \in Contents /\ document \in Contents /\ fts \in Contents /\ version \in Versions
    /\ card \in [Sources -> [about : Versions, hash : Versions]]
    /\ cardJob \in [Sources -> [of : Versions, gone : BOOLEAN]]
    /\ sync \in [phase : {"none", "read", "synced"}, source : Sources,
                 file : Versions, row : Versions, gone : BOOLEAN]
    /\ cache \in [Sources -> SUBSET SUBSET Sources]
    /\ search \in [phase : {"none", "missed", "found"},
                   scope : Sources \cup {Unscoped}, result : SUBSET Sources]

IndexInit ==
    /\ disk = [s \in Sources |-> IF s \in Uploads THEN 0 ELSE 1] /\ version = 1
    /\ document = Nothing /\ fts = Nothing
    /\ card = [s \in Sources |-> NoCard] /\ cardJob = [s \in Sources |-> NoJob]
    /\ sync = NoSync
    /\ cache = [s \in Sources |-> {}]
    /\ search = NoSearch

-----------------------------------------------------------------------------
(* Mutant: only the row is written. *)
IndexedRow(s, v) ==
    /\ document' = [document EXCEPT ![s] = v]
    /\ card' = IF v # document[s] THEN [card EXCEPT ![s] = NoCard] ELSE card
    /\ cardJob' = [cardJob EXCEPT ![s].gone = @ \/ (v = 0 /\ cardJob[s].of # 0)]
    /\ UNCHANGED fts

(* What a session writes about a document: row, full-text row and no card. *)
Indexed(s, v) ==
    /\ document' = [document EXCEPT ![s] = v]
    /\ fts' = [fts EXCEPT ![s] = v]
    /\ card' = IF v # document[s] THEN [card EXCEPT ![s] = NoCard] ELSE card
    /\ cardJob' = [cardJob EXCEPT ![s].gone = @ \/ (v = 0 /\ cardJob[s].of # 0)]

(* Somebody edits or removes a file of a repository; an older content may come back. *)
EditFile(s, v) ==
    /\ s \notin Uploads /\ v \in 0..(version + 1) \cap Versions /\ v # disk[s]
    /\ disk' = [disk EXCEPT ![s] = v]
    /\ version' = IF v > version THEN v ELSE version
    /\ UNCHANGED <<document, fts, card, cardJob, sync, cache, search>>

(* The file is written first, then its rows in one commit, which may fail. *)
Upload(s) ==
    /\ s \in Uploads /\ version < MaxVersions
    /\ version' = version + 1
    /\ disk' = [disk EXCEPT ![s] = version']
    /\ Indexed(s, version') \/ UNCHANGED <<document, fts, card, cardJob>>
    /\ UNCHANGED <<sync, cache, search>>

(* The file of an upload is removed before the commit that removes its rows. *)
DeleteDocument(s) ==
    /\ document[s] # 0
    /\ disk' = IF s \in Uploads THEN [disk EXCEPT ![s] = 0] ELSE disk
    /\ \/ Indexed(s, 0) /\ sync' = [sync EXCEPT !.gone = @ \/ (sync.phase = "read" /\ sync.source = s)]
       \/ UNCHANGED <<document, fts, card, cardJob, sync>>
    /\ UNCHANGED <<version, cache, search>>

-----------------------------------------------------------------------------
(* sync_repositories: rows and files are read, the difference is committed, and then *)
(* the entries of the source are dropped from the cache.                              *)
SyncReads(s) ==
    /\ sync.phase = "none"
    /\ sync' = [phase |-> "read", source |-> s, file |-> disk[s], row |-> document[s],
                gone |-> FALSE]
    /\ UNCHANGED <<disk, version, document, fts, card, cardJob, cache, search>>

(* A row that another session inserted meanwhile breaks the unique constraint, an      *)
(* update of a row that is gone finds no row: the sync raises and writes nothing.       *)
SyncConflicts ==
    /\ sync.file \notin {0, sync.row}
    /\ IF sync.row = 0 THEN document[sync.source] # 0 ELSE sync.gone

(* A row whose file is gone is removed by its path, its full-text row by its id. *)
SyncRemoves(s) ==
    /\ document' = [document EXCEPT ![s] = 0]
    /\ fts' = IF sync.gone THEN fts ELSE [fts EXCEPT ![s] = 0]
    /\ card' = [card EXCEPT ![s] = NoCard]
    /\ cardJob' = [cardJob EXCEPT ![s].gone = cardJob[s].of # 0]

SyncCommits ==
    /\ sync.phase = "read"
    /\ sync' = IF SyncConflicts THEN NoSync
               ELSE [NoSync EXCEPT !.phase = "synced", !.source = sync.source]
    /\ IF SyncConflicts \/ sync.file = sync.row THEN UNCHANGED <<document, fts, card, cardJob>>
       ELSE IF sync.file = 0 THEN SyncRemoves(sync.source)
       ELSE Indexed(sync.source, sync.file)
    /\ UNCHANGED <<disk, version, cache, search>>

SyncInvalidates ==
    /\ sync.phase = "synced"
    /\ cache' = [cache EXCEPT ![sync.source] = {}]
    /\ sync' = NoSync
    /\ UNCHANGED <<disk, version, document, fts, card, cardJob, search>>

-----------------------------------------------------------------------------
(* build_cards: the document is read, a model writes about it, the card is committed *)
(* with the full-text row of the document as it was read.  A document that is gone    *)
(* fails the foreign key, and nothing is written.                                     *)
CardBegins(s) ==
    /\ s \in CardSources /\ document[s] # 0 /\ cardJob[s] = NoJob
    /\ cardJob' = [cardJob EXCEPT ![s] = [of |-> document[s], gone |-> FALSE]]
    /\ UNCHANGED <<disk, version, document, fts, card, sync, cache, search>>

(* Mutant: the card is given the hash of the document as it is now. *)
CardCommitsNow(s) ==
    /\ cardJob[s] # NoJob /\ cardJob[s].of # 0
    /\ LET v == cardJob[s].of IN
       IF cardJob[s].gone THEN UNCHANGED <<fts, card>>
       ELSE /\ card' = [card EXCEPT ![s] = [about |-> v, hash |-> document[s]]]
            /\ fts' = [fts EXCEPT ![s] = v]
    /\ cardJob' = [cardJob EXCEPT ![s] = NoJob]
    /\ UNCHANGED <<disk, version, document, sync, cache, search>>

CardCommits(s) ==
    /\ cardJob[s] # NoJob /\ cardJob[s].of # 0
    /\ LET v == cardJob[s].of IN
       IF cardJob[s].gone THEN UNCHANGED <<fts, card>>
       ELSE /\ card' = [card EXCEPT ![s] = [about |-> v, hash |-> v]]
            /\ fts' = [fts EXCEPT ![s] = v]
    /\ cardJob' = [cardJob EXCEPT ![s] = NoJob]
    /\ UNCHANGED <<disk, version, document, sync, cache, search>>

-----------------------------------------------------------------------------
(* search_repositories. *)

(* The key of the cache; a search of all sources goes under the default one. *)
CacheKey(scope) == IF scope = Unscoped THEN DefaultSource ELSE scope

(* A hit is the answer.  It is recorded as an event of the task; without a task the event *)
(* has the empty task id, which fails the foreign key, and the search raises instead.       *)
SearchBegins(scope) ==
    /\ search.phase = "none"
    /\ cache[CacheKey(scope)] = {}
    /\ search' = [NoSearch EXCEPT !.phase = "missed", !.scope = scope]
    /\ UNCHANGED <<disk, version, document, fts, card, cardJob, sync, cache>>

(* Mutant: the router may go beyond the source that was asked for. *)
MayRouteAnywhere(routed) == routed # {}

(* A search of one source is routed to it, any other one to some sources. *)
MayRoute(routed) == IF search.scope = Unscoped THEN routed # {} ELSE routed = {search.scope}

(* ensure_repositories_ready syncs sources without documents, then the documents of the *)
(* sources the query is routed to are read.                                              *)
Unready == {s \in Sources : document[s] = 0 /\ disk[s] # 0}

SearchReads(routed) ==
    /\ search.phase = "missed"
    /\ MayRoute(routed)
    /\ document' = [s \in Sources |-> IF s \in Unready THEN disk[s] ELSE document[s]]
    /\ fts' = [s \in Sources |-> IF s \in Unready THEN disk[s] ELSE fts[s]]
    /\ cache' = [s \in Sources |-> IF s \in Unready THEN {} ELSE cache[s]]
    /\ search' = [search EXCEPT !.phase = "found",
                                !.result = routed]
    /\ UNCHANGED <<disk, version, card, cardJob, sync>>

(* Mutant: the search is put into the cache, not its result. *)
SearchPutsItself ==
    /\ search.phase = "found"
    /\ cache' = [cache EXCEPT ![CacheKey(search.scope)] = {search}]
    /\ search' = NoSearch
    /\ UNCHANGED <<disk, version, document, fts, card, cardJob, sync>>

(* Ranking and synthesis take their time; then the result is put into the cache. *)
SearchPuts ==
    /\ search.phase = "found"
    /\ cache' = [cache EXCEPT ![CacheKey(search.scope)] = {search.result}]
    /\ search' = NoSearch
    /\ UNCHANGED <<disk, version, document, fts, card, cardJob, sync>>

(* An entry older than its time to live is none; the oldest may have to go. *)
Expires(s) ==
    /\ cache' = [cache EXCEPT ![s] = {}]
    /\ UNCHANGED <<disk, version, document, fts, card, cardJob, sync, search>>

-----------------------------------------------------------------------------
IndexNext ==
    \/ \E s \in Sources : \/ \E v \in Versions : EditFile(s, v)
                          \/ Upload(s) \/ DeleteDocument(s) \/ SyncReads(s)
                          \/ CardBegins(s) \/ CardCommits(s) \/ Expires(s)
    \/ SyncCommits \/ SyncInvalidates
    \/ \E scope \in Sources \cup {Unscoped} : SearchBegins(scope)
    \/ (\E routed \in SUBSET Sources : SearchReads(routed)) \/ SearchPuts

IndexSpec == IndexInit /\ [][IndexNext]_indexVars

-----------------------------------------------------------------------------
(* Every document has its full-text row, whatever syncs, deletes and card builders do to *)
(* each other: the lexical search passes over none.                                        *)
EveryDocumentIsFound == \A s \in Sources : document[s] # 0 => fts[s] # 0

(* Where card building has left the full-text row of an older content, the card is not  *)
(* taken for fresh, so the next build corrects both; and a fresh card is about the       *)
(* content of its document.                                                              *)
LagIsFound ==
    \A s \in Sources :
        document[s] # 0 /\ card[s].hash = document[s] =>
            card[s].about = document[s] /\ fts[s] = document[s]

(* Results cached for a source other than the default cite no document of another. *)
ScopedResults ==
    \A s \in Sources \ {DefaultSource} :
        \A result \in cache[s] : result \subseteq {s}
=============================================================================
