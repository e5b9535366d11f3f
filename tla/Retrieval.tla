----------------------------- MODULE Retrieval -----------------------------
(***************************************************************************)
(* The retrieval store: scripts/contextual-prefix.py cuts pages into chunk *)
(* files, scripts/bm25-index.py builds one index over them, and            *)
(* scripts/retrieve.py answers from index, chunks and pages.               *)
(*                                                                         *)
(* The chunker and the builder run under the vault's mutation lock, so one *)
(* job runs at a time; it may die between two writes.  A query takes no    *)
(* lock, and a person edits pages at any time.  A hash stands for what it  *)
(* hashes: page_body_hash for the content of the page, body_hash for the   *)
(* text of the chunk.  A synthetic address stands for its page.            *)
(***************************************************************************)
EXTENDS Integers, Sequences, FiniteSets

CONSTANTS
  WikiPages, Contents,
  AddressIn,     \* the address line of a content, or NoAddressLine
  ChunksIn,      \* the texts its body is cut into
  NoAddressLine,
  PathRank,      \* directories and pages are gone through in sorted order
  Missing,       \* no page, no chunk, no index
  Unread,        \* a page that is not in a process' hash cache
  MaxEdits       \* bound: what the person edits

MostChunks == 2
Dirs       == WikiPages \cup ({AddressIn[c] : c \in Contents} \ {NoAddressLine})
ChunkKeys  == Dirs \X (1..MostChunks)
ChunkTexts == UNION {{ChunksIn[c][i] : i \in 1..Len(ChunksIn[c])} : c \in Contents}
Chunks     == [page : WikiPages, content : Contents, text : ChunkTexts]
Entries    == [content : Contents, text : ChunkTexts]
Indexes    == [ChunkKeys -> Entries \cup {Missing}]
Hashes     == [WikiPages -> Contents \cup {Missing, Unread}]
Jobs       == [at : {"idle", "work", "invalidate", "scan"},
               all : BOOLEAN, rebuild : BOOLEAN,
               todo : SUBSET WikiPages, page : WikiPages, content : Contents,
               writes : SUBSET ChunkKeys, stale : SUBSET ChunkKeys,
               active : SUBSET ChunkKeys, done : SUBSET WikiPages, calm : BOOLEAN,
               left : SUBSET ChunkKeys, cache : Hashes, found : Indexes]
Searches   == [at : {"idle", "chunk", "page"}, hits : Indexes,
               left : SUBSET ChunkKeys, key : ChunkKeys, chunk : Chunks \cup {Missing},
               cache : Hashes, results : SUBSET [chunk : Chunks, hit : Entries],
               seen : [WikiPages -> SUBSET Contents]]

ASSUME RetrievalAssumption ==
  /\ WikiPages # {} /\ Contents # {}
  /\ \A c \in Contents : Len(ChunksIn[c]) \in 0..MostChunks
  /\ \A c \in Contents : AddressIn[c] \notin WikiPages
  /\ {Missing, Unread} \cap Contents = {} /\ Missing # Unread
  /\ PathRank \in [Dirs -> Nat]
  /\ Missing \notin Chunks \cup Entries \cup Indexes
  /\ MaxEdits \in Nat

VARIABLES
  wiki,     \* the pages
  chunks,   \* .vault-meta/chunks
  index,    \* .vault-meta/bm25/index.json
  job,      \* the chunker or builder that holds the lock
  search,   \* the query
  edits

retrievalVars == <<wiki, chunks, index, job, search, edits>>

RetrievalTypeOK ==
  /\ wiki \in [WikiPages -> Contents \cup {Missing}]
  /\ chunks \in [ChunkKeys -> Chunks \cup {Missing}]
  /\ index \in Indexes \cup {Missing}
  /\ job \in Jobs
  /\ search \in Searches
  /\ edits \in 0..MaxEdits

EmptyIndex == [k \in ChunkKeys |-> Missing]
NoHashes   == [p \in WikiPages |-> Unread]
NoJob      == [at |-> "idle", all |-> FALSE, rebuild |-> FALSE, todo |-> {},
               page |-> CHOOSE p \in WikiPages : TRUE,
               content |-> CHOOSE c \in Contents : TRUE,
               writes |-> {}, stale |-> {}, active |-> {}, done |-> {},
               calm |-> TRUE, left |-> {}, cache |-> NoHashes, found |-> EmptyIndex]
NoSearch   == [at |-> "idle", hits |-> EmptyIndex, left |-> {},
               key |-> CHOOSE k \in ChunkKeys : TRUE, chunk |-> Missing,
               cache |-> NoHashes, results |-> {}, seen |-> [p \in WikiPages |-> {}]]

RetrievalInit ==
  /\ wiki \in [WikiPages -> Contents]
  /\ chunks = EmptyIndex
  /\ index = Missing
  /\ job = NoJob
  /\ search = NoSearch
  /\ edits = 0

-----------------------------------------------------------------------------
(***************************************************************************)
(* The chunker                                                             *)
(***************************************************************************)
Dir(p, c)    == IF AddressIn[c] = NoAddressLine THEN p ELSE AddressIn[c]
KeysFor(p, c) == {Dir(p, c)} \X (1..Len(ChunksIn[c]))
\* contextualized_text, which the index scores, and raw_text, which body_hash is of:
\* the synthetic prefix before the text follows from the content and is left out.
ChunkOf(p, c, k) == [page |-> p, content |-> c, text |-> ChunksIn[c][k[2]]]

Sooner(k, l)  == \/ PathRank[k[1]] < PathRank[l[1]]
                 \/ k[1] = l[1] /\ k[2] <= l[2]

\* preflight_unique_addresses, over all pages.
AddressesDiffer ==
  \A p, q \in WikiPages :
    wiki[p] # Missing /\ wiki[q] # Missing /\ Dir(p, wiki[p]) = Dir(q, wiki[q]) => p = q

\* Wrong variant: what is left under an address of before stays.
StaleInDirectory(p, c) ==
  {k \in ChunkKeys \ KeysFor(p, c) : chunks[k] # Missing /\ k[1] = Dir(p, c)}
\* stale_chunks_for_page: what is left in the page's directory, and the page's
\* chunks under an address it had before.
StaleFor(p, c) ==
  {k \in ChunkKeys \ KeysFor(p, c) :
     chunks[k] # Missing /\ (k[1] = Dir(p, c) \/ chunks[k].page = p)}

\* main and process_selection: one page or all, once no address is used twice.
StartChunking(pages, all, rebuild) ==
  /\ job.at = "idle"
  /\ AddressesDiffer
  /\ job' = [NoJob EXCEPT !.at = "work", !.all = all, !.rebuild = rebuild,
                          !.todo = pages]
  /\ UNCHANGED <<wiki, chunks, index, search, edits>>

ChunkAll    == \E r \in BOOLEAN :
                 StartChunking({p \in WikiPages : wiki[p] # Missing}, TRUE, r)
ChunkOne(p) == /\ wiki[p] # Missing
               /\ \E r \in BOOLEAN : StartChunking({p}, FALSE, r)

\* Wrong variant: removals leave the index.
ThenWhenWriting(writes, stale) == IF writes = {} THEN "work" ELSE "invalidate"
\* The index goes before the first chunk changes.
Then(writes, stale) == IF writes \cup stale = {} THEN "work" ELSE "invalidate"

\* process_page: the page is read once more, and the run ends when it is gone.
ReadPage(p) ==
  /\ job.at = "work" /\ job.writes = {} /\ job.stale = {}
  /\ p \in job.todo /\ \A q \in job.todo : PathRank[p] <= PathRank[q]
  /\ IF wiki[p] = Missing
     THEN job' = NoJob
     ELSE LET c      == wiki[p]
              writes == {k \in KeysFor(p, c) :
                           job.rebuild \/ chunks[k] # ChunkOf(p, c, k)}
              stale  == StaleFor(p, c)
          IN  job' = [job EXCEPT !.at = Then(writes, stale),
                                 !.todo = @ \ {p}, !.done = @ \cup {p},
                                 !.page = p, !.content = c,
                                 !.writes = writes, !.stale = stale,
                                 !.active = @ \cup KeysFor(p, c)]
  /\ UNCHANGED <<wiki, chunks, index, search, edits>>

InvalidateIndex ==
  /\ job.at = "invalidate"
  /\ index' = Missing
  /\ job' = [job EXCEPT !.at = "work"]
  /\ UNCHANGED <<wiki, chunks, search, edits>>

WriteChunk ==
  /\ job.at = "work"
  /\ \E k \in job.writes :
       /\ \A l \in job.writes : Sooner(k, l)
       /\ chunks' = [chunks EXCEPT ![k] = ChunkOf(job.page, job.content, k)]
       /\ job' = [job EXCEPT !.writes = @ \ {k}]
  /\ UNCHANGED <<wiki, index, search, edits>>

RemoveChunk ==
  /\ job.at = "work" /\ job.writes = {}
  /\ \E k \in job.stale :
       /\ \A l \in job.stale : Sooner(k, l)
       /\ chunks' = [chunks EXCEPT ![k] = Missing]
       /\ job' = [job EXCEPT !.stale = @ \ {k}]
  /\ UNCHANGED <<wiki, index, search, edits>>

\* reconcile_chunk_store, after all pages only; else the run is over.
FinishChunking ==
  /\ job.at = "work" /\ job.writes = {} /\ job.stale = {} /\ job.todo = {}
  /\ IF job.all
     THEN LET stale == {k \in ChunkKeys : chunks[k] # Missing} \ job.active
          IN  job' = [job EXCEPT !.at = Then({}, stale), !.all = FALSE, !.stale = stale]
     ELSE job' = NoJob
  /\ UNCHANGED <<wiki, chunks, index, search, edits>>

-----------------------------------------------------------------------------
(***************************************************************************)
(* The builder                                                             *)
(***************************************************************************)
StartBuild ==
  /\ job.at = "idle"
  /\ job' = [NoJob EXCEPT !.at = "scan", !.left = {k \in ChunkKeys : chunks[k] # Missing}]
  /\ UNCHANGED <<wiki, chunks, index, search, edits>>

\* source_page_is_current: a page is read once for all its chunks.
HashIn(cache, p) == IF cache[p] = Unread THEN wiki[p] ELSE cache[p]

ScanChunk(k) ==
  /\ job.at = "scan"
  /\ k \in job.left /\ \A l \in job.left : Sooner(k, l)
  /\ LET r == chunks[k]
         h == HashIn(job.cache, r.page)
     IN  job' = [job EXCEPT
           !.left = @ \ {k}, !.cache[r.page] = h,
           !.found[k] = IF h = r.content
                        THEN [content |-> r.content, text |-> r.text] ELSE Missing]
  /\ UNCHANGED <<wiki, chunks, index, search, edits>>

PublishIndex ==
  /\ job.at = "scan" /\ job.left = {}
  /\ index' = job.found
  /\ job' = NoJob
  /\ UNCHANGED <<wiki, chunks, search, edits>>

\* The process dies; whoever comes next takes the lock over.
JobDies ==
  /\ job.at # "idle"
  /\ job' = NoJob
  /\ UNCHANGED <<wiki, chunks, index, search, edits>>

-----------------------------------------------------------------------------
(***************************************************************************)
(* The query, and the person                                               *)
(***************************************************************************)
Ask ==
  /\ search.at = "idle" /\ index # Missing
  /\ search' = [NoSearch EXCEPT
       !.at = "chunk", !.hits = index, !.left = {k \in ChunkKeys : index[k] # Missing},
       !.seen = [p \in WikiPages |-> {wiki[p]} \ {Missing}]]
  /\ UNCHANGED <<wiki, chunks, index, job, edits>>

ReadHit(k) ==
  /\ search.at = "chunk" /\ k \in search.left
  /\ search' = [search EXCEPT !.left = @ \ {k}, !.key = k, !.chunk = chunks[k],
                  !.at = IF chunks[k] = Missing THEN "chunk" ELSE "page"]
  /\ UNCHANGED <<wiki, chunks, index, job, edits>>

\* Wrong variant: the page is not asked.
ChunkMatchesHit(hit, chunk, hash) ==
  hit = [content |-> chunk.content, text |-> chunk.text]
\* chunk_is_current: index, chunk and page agree.
ChunkIsCurrent(hit, chunk, hash) ==
  /\ hit = [content |-> chunk.content, text |-> chunk.text]
  /\ hash = chunk.content

JudgeHit ==
  /\ search.at = "page"
  /\ LET r   == search.chunk
         hit == search.hits[search.key]
     IN  IF wiki[r.page] = Missing
         THEN search' = [search EXCEPT !.at = "chunk", !.chunk = Missing]
         ELSE LET h == HashIn(search.cache, r.page)
              IN  search' = [search EXCEPT
                    !.at = "chunk", !.chunk = Missing, !.cache[r.page] = h,
                    !.results = IF ChunkIsCurrent(hit, r, h)
                                THEN @ \cup {[chunk |-> r, hit |-> hit]} ELSE @]
  /\ UNCHANGED <<wiki, chunks, index, job, edits>>

Answer ==
  /\ search.at = "chunk" /\ search.left = {}
  /\ search' = NoSearch
  /\ UNCHANGED <<wiki, chunks, index, job, edits>>

EditPage(p) ==
  /\ edits < MaxEdits
  /\ \E c \in Contents \cup {Missing} :
       /\ c # wiki[p]
       /\ wiki' = [wiki EXCEPT ![p] = c]
       /\ search' = IF search.at = "idle" THEN search
                    ELSE [search EXCEPT !.seen[p] = @ \cup ({c} \ {Missing})]
  /\ edits' = edits + 1
  /\ job' = IF job.at = "idle" THEN job ELSE [job EXCEPT !.calm = FALSE]
  /\ UNCHANGED <<chunks, index>>

RetrievalNext ==
  \/ ChunkAll
  \/ \E p \in WikiPages : ChunkOne(p) \/ ReadPage(p) \/ EditPage(p)
  \/ InvalidateIndex \/ WriteChunk \/ RemoveChunk \/ FinishChunking
  \/ StartBuild
  \/ \E k \in ChunkKeys : ScanChunk(k) \/ ReadHit(k)
  \/ PublishIndex \/ JobDies \/ Ask \/ JudgeHit \/ Answer

RetrievalSpec == RetrievalInit /\ [][RetrievalNext]_retrievalVars

-----------------------------------------------------------------------------
\* While there is an index, every chunk it names is on disk as it was indexed:
\* whatever dies between two chunk writes, no index outlives the chunks it is of.
IndexMatchesChunks ==
  index # Missing =>
    \A k \in ChunkKeys :
      index[k] # Missing =>
        chunks[k] # Missing /\ index[k] = [content |-> chunks[k].content,
                                           text |-> chunks[k].text]

\* A returned chunk is of a content that its page had during the query, and its
\* score was computed from the same text.
ResultIsCurrent ==
  \A r \in search.results : /\ r.chunk.content \in search.seen[r.chunk.page]
                            /\ r.hit.text = r.chunk.text

\* When no page changes meanwhile, a run leaves of every page it has been through
\* exactly the chunks of that page: none missing, none of an older text, and none
\* under an address that the page used to have.
ChunkedExactly ==
  job.at = "work" /\ job.writes = {} /\ job.stale = {} /\ job.calm =>
    \A p \in job.done :
      /\ \A k \in KeysFor(p, wiki[p]) : chunks[k] = ChunkOf(p, wiki[p], k)
      /\ \A k \in ChunkKeys \ KeysFor(p, wiki[p]) :
           chunks[k] # Missing => chunks[k].page # p

-----------------------------------------------------------------------------
(***************************************************************************)
(* The inductive invariant behind the three.                               *)
(***************************************************************************)
Indexed(k) == [content |-> chunks[k].content, text |-> chunks[k].text]

\* A chunker writes the chunks of its page, and no index is there while it has
\* something to write or remove; a builder has indexed what is on disk.
JobInv ==
  /\ job.writes \subseteq KeysFor(job.page, job.content)
  /\ job.at = "work" /\ job.writes \cup job.stale # {} => index = Missing
  /\ job.at = "scan" =>
       /\ \A k \in job.left : chunks[k] # Missing
       /\ \A k \in ChunkKeys : job.found[k] # Missing =>
            chunks[k] # Missing /\ job.found[k] = Indexed(k)

\* What a query knows of a page, the page has been since it was asked.
SearchInv ==
  search.at # "idle" =>
    /\ \A p \in WikiPages :
         /\ wiki[p] # Missing => wiki[p] \in search.seen[p]
         /\ search.cache[p] # Unread => search.cache[p] \in search.seen[p]
    /\ search.at = "page" => search.chunk # Missing

\* While nobody edits, every page that the run has been through has exactly its
\* chunks, but for those that the run still has to write or to remove.
DoneInv ==
  job.at \in {"work", "invalidate"} /\ job.calm =>
    /\ AddressesDiffer
    /\ job.writes # {} => job.page \in job.done /\ job.content = wiki[job.page]
    /\ \A p \in job.done :
         /\ wiki[p] # Missing
         /\ \A k \in KeysFor(p, wiki[p]) :
              /\ chunks[k] = ChunkOf(p, wiki[p], k) \/ k \in job.writes
              /\ k \notin job.stale
              /\ job.all => k \in job.active
         /\ \A k \in ChunkKeys \ KeysFor(p, wiki[p]) :
              chunks[k] # Missing /\ chunks[k].page = p => k \in job.stale

RetrievalInv == /\ RetrievalTypeOK /\ JobInv /\ SearchInv /\ DoneInv
                /\ IndexMatchesChunks /\ ResultIsCurrent
=============================================================================
