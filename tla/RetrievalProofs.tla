--------------------------- MODULE RetrievalProofs ---------------------------
(***************************************************************************)
(* For every set of pages, contents and addresses: no index outlives the   *)
(* chunks it is of, a query answers with what its pages were meanwhile,    *)
(* and an undisturbed run leaves exactly the chunks of its pages.          *)
(***************************************************************************)
EXTENDS Retrieval, TLAPS

\* What the assumption says of the constants.
LEMMA RetrievalFacts ==
  /\ WikiPages # {} /\ Contents # {}
  /\ Missing \notin Contents /\ Unread \notin Contents /\ Missing # Unread
  /\ Missing \notin Chunks /\ Missing \notin Entries /\ Missing \notin Indexes
  /\ MaxEdits \in Nat /\ WikiPages \subseteq Dirs
  BY RetrievalAssumption DEF Dirs

\* The chunk files of a page are chunk files, under its directory.
LEMMA KeyFacts ==
  ASSUME NEW p \in WikiPages, NEW c \in Contents
  PROVE  /\ Dir(p, c) \in Dirs
         /\ KeysFor(p, c) \subseteq ChunkKeys
         /\ \A k \in KeysFor(p, c) : /\ k[1] = Dir(p, c)
                                     /\ ChunkOf(p, c, k) \in Chunks
                                     /\ ChunkOf(p, c, k).page = p
<1>1. Dir(p, c) \in Dirs
  BY DEF Dir, Dirs
<1>2. Len(ChunksIn[c]) \in 0..MostChunks
  BY RetrievalAssumption
<1> DEFINE last == Len(ChunksIn[c])
<1>3. 1..last \subseteq 1..MostChunks
  <2> HIDE DEF last
  <2> SUFFICES ASSUME last \in 0..2 PROVE 1..last \subseteq 1..2
    BY <1>2 DEF last, MostChunks
  <2> QED
    OBVIOUS
<1>4. KeysFor(p, c) \subseteq ChunkKeys
  BY <1>1, <1>3 DEF KeysFor, ChunkKeys
<1>5. ASSUME NEW k \in KeysFor(p, c)
      PROVE  /\ k[1] = Dir(p, c) /\ ChunkOf(p, c, k) \in Chunks
             /\ ChunkOf(p, c, k).page = p
  <2>1. k[1] = Dir(p, c) /\ k[2] \in 1..last
    BY <1>5 DEF KeysFor
  <2>2. ChunksIn[c][k[2]] \in ChunkTexts
    BY <2>1 DEF ChunkTexts
  <2> QED
    BY <2>1, <2>2 DEF ChunkOf, Chunks
<1> QED
  BY <1>1, <1>4, <1>5

\* There is a chunk file, and an empty index is an index.
LEMMA EmptyFacts ==
  /\ EmptyIndex \in Indexes /\ EmptyIndex \in [ChunkKeys -> Chunks \cup {Missing}]
  /\ NoHashes \in Hashes
  /\ \A k \in ChunkKeys : EmptyIndex[k] = Missing
  /\ \A p \in WikiPages : NoHashes[p] = Unread
  BY DEF EmptyIndex, Indexes, NoHashes, Hashes

\* At rest there is a job without work, and a query without hits.
LEMMA NoJobFacts ==
  /\ NoJob \in Jobs
  /\ NoJob.at = "idle" /\ NoJob.writes = {} /\ NoJob.stale = {} /\ NoJob.done = {}
  /\ NoJob.found = EmptyIndex /\ NoJob.cache = NoHashes /\ NoJob.calm = TRUE
<1>1. (CHOOSE p \in WikiPages : TRUE) \in WikiPages
  BY RetrievalFacts
<1>2. (CHOOSE c \in Contents : TRUE) \in Contents
  BY RetrievalFacts
<1> QED
  BY <1>1, <1>2, EmptyFacts DEF NoJob, Jobs

LEMMA NoSearchFacts ==
  /\ NoSearch \in Searches /\ NoSearch.at = "idle" /\ NoSearch.results = {}
  /\ NoSearch.cache = NoHashes
<1>1. ChunkKeys # {}
  <2>1. PICK p \in WikiPages : TRUE
    BY RetrievalFacts
  <2>2. <<p, 1>> \in ChunkKeys
    BY <2>1, RetrievalFacts DEF ChunkKeys, MostChunks
  <2> QED
    BY <2>2
<1>2. (CHOOSE k \in ChunkKeys : TRUE) \in ChunkKeys
  BY <1>1
<1> QED
  BY <1>2, EmptyFacts DEF NoSearch, Searches

\* What the types say of a job, a query and a chunk.
LEMMA JobTypes ==
  ASSUME RetrievalTypeOK
  PROVE  /\ job \in Jobs
         /\ job.at \in {"idle", "work", "invalidate", "scan"}
         /\ job.all \in BOOLEAN /\ job.rebuild \in BOOLEAN /\ job.calm \in BOOLEAN
         /\ job.todo \subseteq WikiPages /\ job.done \subseteq WikiPages
         /\ job.page \in WikiPages /\ job.content \in Contents
         /\ job.writes \subseteq ChunkKeys /\ job.stale \subseteq ChunkKeys
         /\ job.active \subseteq ChunkKeys /\ job.left \subseteq ChunkKeys
         /\ job.cache \in Hashes /\ job.found \in Indexes
  BY DEF RetrievalTypeOK, Jobs

LEMMA SearchTypes ==
  ASSUME RetrievalTypeOK
  PROVE  /\ search \in Searches /\ search.at \in {"idle", "chunk", "page"}
         /\ search.hits \in Indexes /\ search.left \subseteq ChunkKeys
         /\ search.key \in ChunkKeys /\ search.chunk \in Chunks \cup {Missing}
         /\ search.cache \in Hashes
         /\ search.results \subseteq [chunk : Chunks, hit : Entries]
         /\ search.seen \in [WikiPages -> SUBSET Contents]
  BY DEF RetrievalTypeOK, Searches

LEMMA ChunkTypes ==
  ASSUME NEW r \in Chunks
  PROVE  /\ r.page \in WikiPages /\ r.content \in Contents
         /\ [content |-> r.content, text |-> r.text] \in Entries
  BY DEF Chunks, Entries

\* A hash is that of a page, or tells that there is none.
LEMMA HashType ==
  ASSUME RetrievalTypeOK, NEW cache \in Hashes, NEW p \in WikiPages
  PROVE  HashIn(cache, p) \in Contents \cup {Missing}
  BY DEF HashIn, Hashes, RetrievalTypeOK

-----------------------------------------------------------------------------
(***************************************************************************)
(* What each step makes of the job.                                        *)
(***************************************************************************)
\* A run starts with nothing to write or to remove.
LEMMA StartFacts ==
  ASSUME RetrievalTypeOK, NEW pages \in SUBSET WikiPages, NEW all \in BOOLEAN,
         NEW r \in BOOLEAN, StartChunking(pages, all, r)
  PROVE  /\ job' \in Jobs /\ AddressesDiffer /\ job.at = "idle"
         /\ job'.at = "work" /\ job'.writes = {} /\ job'.stale = {} /\ job'.done = {}
  BY NoJobFacts DEF StartChunking, Jobs

\* What process_page is about to write and to remove.
WritesFor(p) == {k \in KeysFor(p, wiki[p]) :
                   job.rebuild \/ chunks[k] # ChunkOf(p, wiki[p], k)}

LEMMA ReadFacts ==
  ASSUME RetrievalTypeOK, NEW p \in WikiPages, ReadPage(p), wiki[p] # Missing
  PROVE  /\ job' \in Jobs
         /\ job'.at = Then(WritesFor(p), StaleFor(p, wiki[p]))
         /\ job'.page = p /\ job'.content = wiki[p] /\ job'.done = job.done \cup {p}
         /\ job'.writes = WritesFor(p) /\ job'.stale = StaleFor(p, wiki[p])
         /\ job'.active = job.active \cup KeysFor(p, wiki[p])
         /\ job'.all = job.all /\ job'.calm = job.calm
         /\ Then(WritesFor(p), StaleFor(p, wiki[p])) \in {"work", "invalidate"}
<1> DEFINE c == wiki[p]
           w == WritesFor(p)
           s == StaleFor(p, c)
           a == Then(w, s)
           active == job.active \cup KeysFor(p, c)
           done == job.done \cup {p}
           todo == job.todo \ {p}
<1>1. c \in Contents
  BY DEF RetrievalTypeOK
<1>2. w \subseteq ChunkKeys /\ s \subseteq ChunkKeys /\ active \subseteq ChunkKeys
  BY <1>1, KeyFacts, JobTypes DEF WritesFor, StaleFor
<1>3. a \in {"work", "invalidate"}
  BY DEF Then
<1>4. done \subseteq WikiPages /\ todo \subseteq WikiPages
  BY JobTypes
<1>5. job' = [job EXCEPT !.at = a, !.todo = todo, !.done = done, !.page = p, !.content = c,
                         !.writes = w, !.stale = s, !.active = active]
  BY JobTypes DEF ReadPage, WritesFor, Jobs
<1> HIDE DEF c, w, s, a, active, done, todo
<1>6. job' \in Jobs
  BY <1>1, <1>2, <1>3, <1>4, <1>5, JobTypes DEF Jobs
<1>7. /\ job'.at = a /\ job'.page = p /\ job'.content = c /\ job'.done = done
      /\ job'.writes = w /\ job'.stale = s /\ job'.active = active
      /\ job'.all = job.all /\ job'.calm = job.calm
  BY <1>5, JobTypes DEF Jobs
<1> QED
  BY <1>3, <1>6, <1>7 DEF c, w, s, a, active, done

\* The steps of a chunker that has work change where it is, or what is to do.
LEMMA InvalidateFacts ==
  ASSUME RetrievalTypeOK, InvalidateIndex
  PROVE  /\ job' \in Jobs /\ job'.at = "work"
         /\ job'.page = job.page /\ job'.content = job.content /\ job'.done = job.done
         /\ job'.writes = job.writes /\ job'.stale = job.stale
         /\ job'.active = job.active /\ job'.all = job.all /\ job'.calm = job.calm
  BY JobTypes DEF InvalidateIndex, Jobs

Wrote(k) ==
  /\ k \in job.writes /\ job.at = "work"
  /\ chunks' = [chunks EXCEPT ![k] = ChunkOf(job.page, job.content, k)]
  /\ job' \in Jobs /\ job'.at = "work"
  /\ job'.page = job.page /\ job'.content = job.content /\ job'.done = job.done
  /\ job'.writes = job.writes \ {k} /\ job'.stale = job.stale
  /\ job'.active = job.active /\ job'.all = job.all /\ job'.calm = job.calm

LEMMA WroteFacts ==
  ASSUME RetrievalTypeOK, WriteChunk
  PROVE  \E k \in ChunkKeys : Wrote(k)
<1>1. PICK k \in job.writes :
        /\ chunks' = [chunks EXCEPT ![k] = ChunkOf(job.page, job.content, k)]
        /\ job' = [job EXCEPT !.writes = @ \ {k}]
  BY DEF WriteChunk
<1>2. job.at = "work" /\ k \in ChunkKeys
  BY JobTypes DEF WriteChunk
<1>3. job.writes \ {k} \subseteq ChunkKeys
  BY JobTypes
<1>4. Wrote(k)
  BY <1>1, <1>2, <1>3, JobTypes DEF Wrote, Jobs
<1> QED
  BY <1>2, <1>4

Removed(k) ==
  /\ k \in job.stale /\ job.at = "work" /\ job.writes = {}
  /\ chunks' = [chunks EXCEPT ![k] = Missing]
  /\ job' \in Jobs /\ job'.at = "work"
  /\ job'.page = job.page /\ job'.content = job.content /\ job'.done = job.done
  /\ job'.writes = {} /\ job'.stale = job.stale \ {k}
  /\ job'.active = job.active /\ job'.all = job.all /\ job'.calm = job.calm

LEMMA RemovedFacts ==
  ASSUME RetrievalTypeOK, RemoveChunk
  PROVE  \E k \in ChunkKeys : Removed(k)
<1>1. PICK k \in job.stale : /\ chunks' = [chunks EXCEPT ![k] = Missing]
                             /\ job' = [job EXCEPT !.stale = @ \ {k}]
  BY DEF RemoveChunk
<1>2. job.at = "work" /\ job.writes = {} /\ k \in ChunkKeys
  BY JobTypes DEF RemoveChunk
<1>3. job.stale \ {k} \subseteq ChunkKeys
  BY JobTypes
<1>4. Removed(k)
  BY <1>1, <1>2, <1>3, JobTypes DEF Removed, Jobs
<1> QED
  BY <1>2, <1>4

\* reconcile_chunk_store: every chunk that no page has claimed.
Unclaimed == {k \in ChunkKeys : chunks[k] # Missing} \ job.active

LEMMA FinishFacts ==
  ASSUME RetrievalTypeOK, FinishChunking, job.all
  PROVE  /\ job' \in Jobs /\ job'.at = Then({}, Unclaimed)
         /\ job'.at \in {"work", "invalidate"}
         /\ job'.page = job.page /\ job'.content = job.content /\ job'.done = job.done
         /\ job'.writes = {} /\ job'.stale = Unclaimed /\ job'.all = FALSE
         /\ job'.calm = job.calm
<1> DEFINE s == Unclaimed
           a == Then({}, s)
<1>1. a \in {"work", "invalidate"} /\ s \subseteq ChunkKeys
  BY DEF Then, Unclaimed
<1>2. job' = [job EXCEPT !.at = a, !.all = FALSE, !.stale = s]
  BY DEF FinishChunking, Unclaimed
<1>3. job.writes = {}
  BY DEF FinishChunking
<1> HIDE DEF s, a
<1> QED
  BY <1>1, <1>2, <1>3, JobTypes DEF Jobs, s, a

LEMMA ScanStartFacts ==
  ASSUME RetrievalTypeOK, StartBuild
  PROVE  /\ job' \in Jobs /\ job'.at = "scan" /\ job'.writes = {} /\ job'.stale = {}
         /\ job'.left = {k \in ChunkKeys : chunks[k] # Missing}
         /\ job'.found = EmptyIndex
  BY NoJobFacts DEF StartBuild, Jobs

Scanned(k) ==
  /\ job' \in Jobs /\ job'.at = "scan" /\ job.at = "scan" /\ k \in job.left
  /\ job'.writes = job.writes /\ job'.page = job.page /\ job'.content = job.content
  /\ job'.left = job.left \ {k}
  /\ job'.found \in {[job.found EXCEPT ![k] = Indexed(k)], [job.found EXCEPT ![k] = Missing]}

LEMMA ScannedFacts ==
  ASSUME RetrievalTypeOK, JobInv, NEW k \in ChunkKeys, ScanChunk(k)
  PROVE  Scanned(k)
<1> DEFINE r == chunks[k]
           h == HashIn(job.cache, r.page)
           entry == IF h = r.content THEN Indexed(k) ELSE Missing
           cache == [job.cache EXCEPT ![r.page] = h]
           found == [job.found EXCEPT ![k] = entry]
           left == job.left \ {k}
<1>1. job.at = "scan" /\ k \in job.left
  BY DEF ScanChunk
<1>2. r \in Chunks
  BY <1>1 DEF JobInv, RetrievalTypeOK
<1>3. entry \in Entries \cup {Missing}
  BY <1>2, ChunkTypes DEF Indexed
<1>4. cache \in Hashes
  <2>1. r.page \in WikiPages
    BY <1>2, ChunkTypes
  <2>2. h \in Contents \cup {Missing, Unread}
    BY <2>1, HashType, JobTypes
  <2> HIDE DEF h
  <2> QED
    BY <2>1, <2>2, JobTypes DEF Hashes
<1>5. found \in Indexes /\ left \subseteq ChunkKeys
  <2> HIDE DEF entry
  <2> QED
    BY <1>3, JobTypes DEF Indexes
<1>6. job' = [job EXCEPT !.left = left, !.cache = cache, !.found = found]
  BY JobTypes DEF ScanChunk, Jobs, Indexed
<1>7. found \in {[job.found EXCEPT ![k] = Indexed(k)], [job.found EXCEPT ![k] = Missing]}
  OBVIOUS
<1> HIDE DEF cache, found, left
<1>8. /\ job' \in Jobs /\ job'.at = job.at /\ job'.writes = job.writes
      /\ job'.page = job.page /\ job'.content = job.content
      /\ job'.left = left /\ job'.found = found
  BY <1>4, <1>5, <1>6, JobTypes DEF Jobs
<1> QED
  BY <1>1, <1>7, <1>8 DEF Scanned, left

\* An edit only tells a job under way that the vault is not calm.
LEMMA EditFacts ==
  ASSUME RetrievalTypeOK, NEW p \in WikiPages, EditPage(p)
  PROVE  /\ job' \in Jobs /\ job'.at = job.at
         /\ job.at # "idle" => ~job'.calm
         /\ job'.writes = job.writes /\ job'.stale = job.stale
         /\ job'.page = job.page /\ job'.content = job.content
         /\ job'.left = job.left /\ job'.found = job.found
<1>1. CASE job.at = "idle"
  BY <1>1, JobTypes DEF EditPage
<1>2. CASE job.at # "idle"
  <2>1. job' = [job EXCEPT !.calm = FALSE]
    BY <1>2 DEF EditPage
  <2> QED
    BY <1>2, <2>1, JobTypes DEF Jobs
<1> QED
  BY <1>1, <1>2

-----------------------------------------------------------------------------
(***************************************************************************)
(* What each step makes of the query.                                      *)
(***************************************************************************)
LEMMA AskFacts ==
  ASSUME RetrievalTypeOK, Ask
  PROVE  /\ search' \in Searches /\ search'.at = "chunk" /\ search'.results = {}
         /\ search'.cache = NoHashes /\ search'.seen = [p \in WikiPages |-> {wiki[p]} \ {Missing}]
<1> DEFINE left == {k \in ChunkKeys : index[k] # Missing}
           seen == [p \in WikiPages |-> {wiki[p]} \ {Missing}]
<1>1. left \subseteq ChunkKeys /\ seen \in [WikiPages -> SUBSET Contents] /\ index \in Indexes
  BY DEF Ask, RetrievalTypeOK
<1>2. search' = [NoSearch EXCEPT !.at = "chunk", !.hits = index, !.left = left, !.seen = seen]
  BY DEF Ask
<1> HIDE DEF left, seen
<1>3. /\ search' \in Searches /\ search'.at = "chunk" /\ search'.results = {}
      /\ search'.cache = NoHashes /\ search'.seen = seen
  BY <1>1, <1>2, NoSearchFacts DEF Searches
<1> QED
  BY <1>3 DEF seen

LEMMA HitFacts ==
  ASSUME RetrievalTypeOK, NEW k \in ChunkKeys, ReadHit(k)
  PROVE  /\ search' \in Searches /\ search'.chunk = chunks[k] /\ search.at # "idle"
         /\ search'.at = IF chunks[k] = Missing THEN "chunk" ELSE "page"
         /\ search'.results = search.results /\ search'.cache = search.cache
         /\ search'.seen = search.seen
<1> DEFINE a == IF chunks[k] = Missing THEN "chunk" ELSE "page"
           left == search.left \ {k}
           r == chunks[k]
<1>1. a \in {"chunk", "page"} /\ left \subseteq ChunkKeys /\ r \in Chunks \cup {Missing}
  BY SearchTypes DEF RetrievalTypeOK
<1>2. search' = [search EXCEPT !.left = left, !.key = k, !.chunk = r, !.at = a]
  BY DEF ReadHit
<1>3. search.at # "idle"
  BY DEF ReadHit
<1> HIDE DEF a, left, r
<1>4. /\ search' \in Searches /\ search'.chunk = r /\ search'.at = a
      /\ search'.results = search.results /\ search'.cache = search.cache
      /\ search'.seen = search.seen
  BY <1>1, <1>2, SearchTypes DEF Searches
<1> QED
  BY <1>3, <1>4 DEF a, r

\* A hit is judged by the hash of its page, which the query keeps.
Judged(r, h) ==
  /\ search.at = "page"
  /\ search' \in Searches /\ search'.at = "chunk" /\ search'.seen = search.seen
  /\ \/ search'.cache = search.cache /\ search'.results = search.results
     \/ /\ wiki[r.page] # Missing /\ h = HashIn(search.cache, r.page)
        /\ search'.cache = [search.cache EXCEPT ![r.page] = h]
        /\ \/ search'.results = search.results
           \/ /\ r.content = h
              /\ search'.results = search.results \cup
                   {[chunk |-> r, hit |-> [content |-> r.content, text |-> r.text]]}

LEMMA JudgedFacts ==
  ASSUME RetrievalTypeOK, SearchInv, JudgeHit
  PROVE  search.chunk \in Chunks /\ Judged(search.chunk, HashIn(search.cache, search.chunk.page))
<1> DEFINE r   == search.chunk
           hit == search.hits[search.key]
           h   == HashIn(search.cache, r.page)
           own == [content |-> r.content, text |-> r.text]
           cache == [search.cache EXCEPT ![r.page] = h]
           found == search.results \cup {[chunk |-> r, hit |-> own]}
           results == IF ChunkIsCurrent(hit, r, h) THEN found ELSE search.results
<1>1. search.at = "page"
  BY DEF JudgeHit
<1>2. r \in Chunks /\ r.page \in WikiPages
  BY <1>1, SearchTypes, ChunkTypes DEF SearchInv
<1>3. h \in Contents \cup {Missing}
  BY <1>2, HashType, SearchTypes
<1>4. cache \in Hashes
  <2> HIDE DEF h
  <2> QED
    BY <1>2, <1>3, SearchTypes DEF Hashes
<1>5. own \in Entries
  BY <1>2, ChunkTypes
<1>6. found \subseteq [chunk : Chunks, hit : Entries]
  <2> HIDE DEF own, r
  <2> QED
    BY <1>2, <1>5, SearchTypes
<1>7. ChunkIsCurrent(hit, r, h) => hit = own /\ h = r.content
  BY DEF ChunkIsCurrent
<1>8. results \subseteq [chunk : Chunks, hit : Entries]
  BY <1>6, SearchTypes
<1>9. results = search.results \/ (h = r.content /\ results = found)
  BY <1>7
<1>10. CASE wiki[r.page] = Missing
  <2>1. search' = [search EXCEPT !.at = "chunk", !.chunk = Missing]
    BY <1>10 DEF JudgeHit
  <2>2. /\ search' \in Searches /\ search'.at = "chunk" /\ search'.seen = search.seen
        /\ search'.cache = search.cache /\ search'.results = search.results
    BY <2>1, SearchTypes DEF Searches
  <2> QED
    BY <1>1, <1>2, <2>2 DEF Judged
<1>11. CASE wiki[r.page] # Missing
  <2>1. search' = [search EXCEPT !.at = "chunk", !.chunk = Missing, !.cache = cache,
                                 !.results = results]
    BY <1>7, <1>11, SearchTypes DEF JudgeHit, Searches
  <2> HIDE DEF cache, results
  <2>2. /\ search' \in Searches /\ search'.at = "chunk" /\ search'.seen = search.seen
        /\ search'.cache = cache /\ search'.results = results
    BY <1>4, <1>8, <2>1, SearchTypes DEF Searches
  <2> QED
    BY <1>1, <1>2, <1>9, <1>11, <2>2 DEF Judged, cache
<1> QED
  BY <1>10, <1>11

LEMMA EditSearchFacts ==
  ASSUME RetrievalTypeOK, NEW p \in WikiPages, EditPage(p)
  PROVE  /\ search' \in Searches /\ search'.at = search.at
         /\ search'.chunk = search.chunk /\ search'.results = search.results
         /\ search'.cache = search.cache
         /\ wiki' \in [WikiPages -> Contents \cup {Missing}]
         /\ \A q \in WikiPages :
              /\ search.seen[q] \subseteq search'.seen[q]
              /\ wiki'[q] = wiki[q] \/ wiki'[q] = Missing
                 \/ search.at = "idle" \/ wiki'[q] \in search'.seen[q]
<1>1. PICK c \in Contents \cup {Missing} :
        /\ wiki' = [wiki EXCEPT ![p] = c]
        /\ search' = IF search.at = "idle" THEN search
                     ELSE [search EXCEPT !.seen[p] = @ \cup ({c} \ {Missing})]
  BY DEF EditPage
<1>2. wiki' \in [WikiPages -> Contents \cup {Missing}]
      /\ \A q \in WikiPages : wiki'[q] = IF q = p THEN c ELSE wiki[q]
  BY <1>1 DEF RetrievalTypeOK
<1>3. CASE search.at = "idle"
  BY <1>1, <1>2, <1>3, SearchTypes
<1>4. CASE search.at # "idle"
  <2> DEFINE seen == [search.seen EXCEPT ![p] = search.seen[p] \cup ({c} \ {Missing})]
  <2>1. seen \in [WikiPages -> SUBSET Contents]
    BY SearchTypes
  <2>2. \A q \in WikiPages : seen[q] = IF q = p THEN search.seen[p] \cup ({c} \ {Missing})
                                       ELSE search.seen[q]
    BY SearchTypes
  <2>3. search' = [search EXCEPT !.seen = seen]
    BY <1>1, <1>4, SearchTypes DEF Searches
  <2> HIDE DEF seen
  <2>4. /\ search' \in Searches /\ search'.at = search.at /\ search'.seen = seen
        /\ search'.chunk = search.chunk /\ search'.results = search.results
        /\ search'.cache = search.cache
    BY <2>1, <2>3, SearchTypes DEF Searches
  <2> QED
    BY <1>2, <2>2, <2>4
<1> QED
  BY <1>3, <1>4

-----------------------------------------------------------------------------
\* The variables keep their types initially, and in every step.
LEMMA RetrievalTypeInit == RetrievalInit => RetrievalTypeOK
<1> SUFFICES ASSUME RetrievalInit PROVE RetrievalTypeOK
  OBVIOUS
<1>1. wiki \in [WikiPages -> Contents \cup {Missing}] /\ edits \in 0..MaxEdits
  BY RetrievalFacts DEF RetrievalInit
<1>2. /\ chunks \in [ChunkKeys -> Chunks \cup {Missing}] /\ index \in Indexes \cup {Missing}
      /\ job \in Jobs /\ search \in Searches
  BY EmptyFacts, NoJobFacts, NoSearchFacts DEF RetrievalInit
<1> QED
  BY <1>1, <1>2 DEF RetrievalTypeOK

\* The chunk a chunker writes is a chunk.
LEMMA WrittenType ==
  ASSUME RetrievalTypeOK, JobInv, NEW k \in job.writes
  PROVE  /\ ChunkOf(job.page, job.content, k) \in Chunks
         /\ ChunkOf(job.page, job.content, k).page = job.page
<1>1. k \in KeysFor(job.page, job.content)
  BY DEF JobInv
<1> QED
  BY <1>1, JobTypes, KeyFacts

LEMMA RetrievalTypeStep ==
  ASSUME RetrievalTypeOK, JobInv, SearchInv, [RetrievalNext]_retrievalVars
  PROVE  RetrievalTypeOK'
<1>1. ASSUME NEW pages \in SUBSET WikiPages, NEW all \in BOOLEAN, NEW r \in BOOLEAN,
             StartChunking(pages, all, r)
      PROVE  RetrievalTypeOK'
  BY <1>1, StartFacts DEF StartChunking, RetrievalTypeOK
<1>2. CASE ChunkAll
  <2>1. {p \in WikiPages : wiki[p] # Missing} \in SUBSET WikiPages
    OBVIOUS
  <2> QED
    BY <1>1, <1>2, <2>1 DEF ChunkAll
<1>3. ASSUME NEW p \in WikiPages, ChunkOne(p) PROVE RetrievalTypeOK'
  <2>1. {p} \in SUBSET WikiPages
    OBVIOUS
  <2> QED
    BY <1>1, <1>3, <2>1 DEF ChunkOne
<1>4. ASSUME NEW p \in WikiPages, ReadPage(p) PROVE RetrievalTypeOK'
  <2>1. job' \in Jobs
    BY <1>4, ReadFacts, NoJobFacts DEF ReadPage
  <2>2. UNCHANGED <<wiki, chunks, index, search, edits>>
    BY <1>4 DEF ReadPage
  <2> QED
    BY <2>1, <2>2 DEF RetrievalTypeOK
<1>5. CASE InvalidateIndex
  BY <1>5, InvalidateFacts DEF InvalidateIndex, RetrievalTypeOK
<1>6. CASE WriteChunk
  <2>1. PICK k \in ChunkKeys : Wrote(k)
    BY <1>6, WroteFacts
  <2>2. chunks' \in [ChunkKeys -> Chunks \cup {Missing}]
    BY <2>1, WrittenType DEF Wrote, RetrievalTypeOK
  <2> QED
    BY <1>6, <2>1, <2>2 DEF WriteChunk, Wrote, RetrievalTypeOK
<1>7. CASE RemoveChunk
  <2>1. PICK k \in ChunkKeys : Removed(k)
    BY <1>7, RemovedFacts
  <2>2. chunks' \in [ChunkKeys -> Chunks \cup {Missing}]
    BY <2>1 DEF Removed, RetrievalTypeOK
  <2> QED
    BY <1>7, <2>1, <2>2 DEF RemoveChunk, Removed, RetrievalTypeOK
<1>8. CASE FinishChunking
  <2>1. job' \in Jobs
    BY <1>8, FinishFacts, NoJobFacts DEF FinishChunking
  <2> QED
    BY <1>8, <2>1 DEF FinishChunking, RetrievalTypeOK
<1>9. CASE StartBuild
  BY <1>9, ScanStartFacts DEF StartBuild, RetrievalTypeOK
<1>10. ASSUME NEW k \in ChunkKeys, ScanChunk(k) PROVE RetrievalTypeOK'
  <2>1. job' \in Jobs
    BY <1>10, ScannedFacts DEF Scanned
  <2>2. UNCHANGED <<wiki, chunks, index, search, edits>>
    BY <1>10 DEF ScanChunk
  <2> QED
    BY <2>1, <2>2 DEF RetrievalTypeOK
<1>11. CASE PublishIndex
  BY <1>11, NoJobFacts, JobTypes DEF PublishIndex, RetrievalTypeOK
<1>12. CASE JobDies
  BY <1>12, NoJobFacts DEF JobDies, RetrievalTypeOK
<1>13. CASE Ask
  BY <1>13, AskFacts DEF Ask, RetrievalTypeOK
<1>14. ASSUME NEW k \in ChunkKeys, ReadHit(k) PROVE RetrievalTypeOK'
  <2>1. search' \in Searches
    BY <1>14, HitFacts
  <2> QED
    BY <1>14, <2>1 DEF ReadHit, RetrievalTypeOK
<1>15. CASE JudgeHit
  <2>1. search' \in Searches
    BY <1>15, JudgedFacts DEF Judged
  <2>2. UNCHANGED <<wiki, chunks, index, job, edits>>
    BY <1>15 DEF JudgeHit
  <2> QED
    BY <2>1, <2>2 DEF RetrievalTypeOK
<1>16. CASE Answer
  BY <1>16, NoSearchFacts DEF Answer, RetrievalTypeOK
<1>17. ASSUME NEW p \in WikiPages, EditPage(p) PROVE RetrievalTypeOK'
  <2>1. edits' \in 0..MaxEdits
    BY <1>17, RetrievalFacts DEF EditPage, RetrievalTypeOK
  <2>2. UNCHANGED <<chunks, index>>
    BY <1>17 DEF EditPage
  <2> QED
    BY <1>17, <2>1, <2>2, EditFacts, EditSearchFacts DEF RetrievalTypeOK
<1>18. CASE UNCHANGED retrievalVars
  BY <1>18 DEF retrievalVars, RetrievalTypeOK
<1> QED
  BY <1>2, <1>3, <1>4, <1>5, <1>6, <1>7, <1>8, <1>9, <1>10, <1>11, <1>12, <1>13, <1>14,
     <1>15, <1>16, <1>17, <1>18 DEF RetrievalNext

-----------------------------------------------------------------------------
(***************************************************************************)
(* JobInv and IndexMatchesChunks.                                          *)
(***************************************************************************)
\* The steps by who takes them.
ChunkerSteps == \/ ChunkAll \/ (\E p \in WikiPages : ChunkOne(p) \/ ReadPage(p))
                \/ InvalidateIndex \/ WriteChunk \/ RemoveChunk \/ FinishChunking
BuilderSteps == StartBuild \/ (\E k \in ChunkKeys : ScanChunk(k)) \/ PublishIndex
QuerySteps   == Ask \/ (\E k \in ChunkKeys : ReadHit(k)) \/ JudgeHit \/ Answer

LEMMA RetrievalNextCases ==
  ASSUME [RetrievalNext]_retrievalVars
  PROVE  \/ ChunkerSteps \/ BuilderSteps \/ QuerySteps \/ JobDies
         \/ (\E p \in WikiPages : EditPage(p)) \/ UNCHANGED retrievalVars
  BY DEF RetrievalNext, ChunkerSteps, BuilderSteps, QuerySteps

LEMMA QueryAlone ==
  ASSUME QuerySteps
  PROVE  UNCHANGED <<wiki, chunks, index, job>>
  BY DEF QuerySteps, Ask, ReadHit, JudgeHit, Answer

LEMMA ChunkerStart ==
  ASSUME RetrievalTypeOK, ChunkAll \/ \E p \in WikiPages : ChunkOne(p)
  PROVE  /\ job' \in Jobs /\ AddressesDiffer /\ job.at = "idle"
         /\ job'.at = "work" /\ job'.writes = {} /\ job'.stale = {} /\ job'.done = {}
         /\ UNCHANGED <<wiki, chunks, index>>
<1>1. PICK pages \in SUBSET WikiPages, all \in BOOLEAN, r \in BOOLEAN :
        StartChunking(pages, all, r)
  <2>1. CASE ChunkAll
    <3>1. {p \in WikiPages : wiki[p] # Missing} \in SUBSET WikiPages
      OBVIOUS
    <3> QED
      BY <2>1, <3>1 DEF ChunkAll
  <2>2. ASSUME NEW p \in WikiPages, ChunkOne(p)
        PROVE  \E pages \in SUBSET WikiPages, all \in BOOLEAN, r \in BOOLEAN :
                 StartChunking(pages, all, r)
    <3>1. {p} \in SUBSET WikiPages
      OBVIOUS
    <3> QED
      BY <2>2, <3>1 DEF ChunkOne
  <2> QED
    BY <2>1, <2>2
<1>2. UNCHANGED <<wiki, chunks, index>>
  BY <1>1 DEF StartChunking
<1> QED
  BY <1>1, <1>2, StartFacts

LEMMA JobStep ==
  ASSUME RetrievalTypeOK, JobInv, [RetrievalNext]_retrievalVars
  PROVE  JobInv'
<1>1. CASE UNCHANGED <<chunks, index, job>>
  BY <1>1 DEF JobInv, Indexed
<1>2. CASE job' = NoJob
  BY <1>2, NoJobFacts DEF JobInv
<1>3. CASE ChunkAll \/ \E p \in WikiPages : ChunkOne(p)
  BY <1>3, ChunkerStart DEF JobInv
<1>4. ASSUME NEW p \in WikiPages, ReadPage(p), wiki[p] # Missing PROVE JobInv'
  <2>1. WritesFor(p) \subseteq KeysFor(p, wiki[p])
    BY DEF WritesFor
  <2>2. job'.at = "work" => job'.writes \cup job'.stale = {}
    BY <1>4, ReadFacts DEF Then
  <2>3. job'.at # "scan" /\ job'.writes \subseteq KeysFor(job'.page, job'.content)
    BY <1>4, <2>1, ReadFacts
  <2> QED
    BY <2>2, <2>3 DEF JobInv
<1>5. CASE InvalidateIndex
  <2>1. index' = Missing
    BY <1>5 DEF InvalidateIndex
  <2> QED
    BY <1>5, <2>1, InvalidateFacts DEF JobInv
<1>6. CASE WriteChunk
  <2>1. PICK k \in ChunkKeys : Wrote(k)
    BY <1>6, WroteFacts
  <2>2. index' = index /\ index = Missing
    BY <1>6, <2>1 DEF WriteChunk, Wrote, JobInv
  <2> QED
    BY <2>1, <2>2 DEF Wrote, JobInv
<1>7. CASE RemoveChunk
  <2>1. PICK k \in ChunkKeys : Removed(k)
    BY <1>7, RemovedFacts
  <2>2. index' = index /\ index = Missing
    BY <1>7, <2>1 DEF RemoveChunk, Removed, JobInv
  <2> QED
    BY <2>1, <2>2 DEF Removed, JobInv
<1>8. CASE FinishChunking /\ job.all
  <2>1. job'.at = "work" => job'.writes \cup job'.stale = {}
    BY <1>8, FinishFacts DEF Then
  <2> QED
    BY <1>8, <2>1, FinishFacts DEF JobInv
<1>9. CASE StartBuild
  <2>1. chunks' = chunks
    BY <1>9 DEF StartBuild
  <2> QED
    BY <1>9, <2>1, ScanStartFacts, EmptyFacts DEF JobInv
<1>10. ASSUME NEW k \in ChunkKeys, ScanChunk(k) PROVE JobInv'
  <2>1. Scanned(k) /\ chunks' = chunks
    BY <1>10, ScannedFacts DEF ScanChunk
  <2>2. /\ job'.at = "scan" /\ job.at = "scan" /\ k \in job.left
        /\ job'.writes = job.writes /\ job'.page = job.page /\ job'.content = job.content
        /\ job'.left = job.left \ {k}
    BY <2>1 DEF Scanned
  <2>3. ASSUME NEW l \in ChunkKeys, job'.found[l] # Missing
        PROVE  chunks[l] # Missing /\ job'.found[l] = Indexed(l)
    <3>1. job'.found[l] = job.found[l] \/ (l = k /\ job'.found[l] \in {Indexed(k), Missing})
      BY <2>1, JobTypes DEF Scanned, Indexes
    <3> QED
      BY <2>2, <2>3, <3>1 DEF JobInv
  <2>4. \A l \in ChunkKeys : Indexed(l)' = Indexed(l)
    BY <2>1 DEF Indexed
  <2> QED
    BY <2>1, <2>2, <2>3, <2>4 DEF JobInv
<1>11. ASSUME NEW p \in WikiPages, EditPage(p) PROVE JobInv'
  <2>1. UNCHANGED <<chunks, index>>
    BY <1>11 DEF EditPage
  <2> QED
    BY <1>11, <2>1, EditFacts DEF JobInv, Indexed
<1>12. CASE ChunkerSteps
  BY <1>2, <1>3, <1>4, <1>5, <1>6, <1>7, <1>8, <1>12
     DEF ChunkerSteps, ReadPage, FinishChunking
<1>13. CASE BuilderSteps
  BY <1>2, <1>9, <1>10, <1>13 DEF BuilderSteps, PublishIndex
<1>14. CASE QuerySteps \/ JobDies \/ UNCHANGED retrievalVars
  BY <1>1, <1>2, <1>14, QueryAlone DEF JobDies, retrievalVars
<1> QED
  BY <1>11, <1>12, <1>13, <1>14, RetrievalNextCases

\* No step leaves an index over chunks that it changes.
LEMMA IndexStep ==
  ASSUME RetrievalTypeOK, JobInv, IndexMatchesChunks, [RetrievalNext]_retrievalVars
  PROVE  IndexMatchesChunks'
<1>1. CASE UNCHANGED <<chunks, index>>
  BY <1>1 DEF IndexMatchesChunks
<1>2. CASE index' = Missing
  BY <1>2 DEF IndexMatchesChunks
<1>3. CASE WriteChunk
  <2>1. PICK k \in ChunkKeys : Wrote(k)
    BY <1>3, WroteFacts
  <2>2. index' = Missing
    BY <1>3, <2>1 DEF WriteChunk, Wrote, JobInv
  <2> QED
    BY <1>2, <2>2
<1>4. CASE RemoveChunk
  <2>1. PICK k \in ChunkKeys : Removed(k)
    BY <1>4, RemovedFacts
  <2>2. index' = Missing
    BY <1>4, <2>1 DEF RemoveChunk, Removed, JobInv
  <2> QED
    BY <1>2, <2>2
<1>5. CASE PublishIndex
  <2>1. chunks' = chunks /\ index' = job.found /\ job.at = "scan"
    BY <1>5 DEF PublishIndex
  <2> QED
    BY <2>1 DEF JobInv, IndexMatchesChunks, Indexed
<1>6. CASE ChunkerSteps
  BY <1>1, <1>2, <1>3, <1>4, <1>6, ChunkerStart
     DEF ChunkerSteps, ReadPage, InvalidateIndex, FinishChunking
<1>7. CASE BuilderSteps
  BY <1>1, <1>5, <1>7 DEF BuilderSteps, StartBuild, ScanChunk
<1>8. CASE QuerySteps \/ JobDies \/ (\E p \in WikiPages : EditPage(p)) \/ UNCHANGED retrievalVars
  BY <1>1, <1>8, QueryAlone DEF JobDies, EditPage, retrievalVars
<1> QED
  BY <1>6, <1>7, <1>8, RetrievalNextCases

-----------------------------------------------------------------------------
(***************************************************************************)
(* SearchInv and ResultIsCurrent.                                          *)
(***************************************************************************)
\* What a query knows of one page.
KnownOf(p) ==
  /\ wiki[p] # Missing => wiki[p] \in search.seen[p]
  /\ search.cache[p] # Unread => search.cache[p] \in search.seen[p]

\* A chunk that is judged current is of a content its page has had meanwhile.
LEMMA JudgeStep ==
  ASSUME RetrievalTypeOK, SearchInv, ResultIsCurrent, JudgeHit
  PROVE  SearchInv' /\ ResultIsCurrent'
<1> DEFINE r == search.chunk
           h == HashIn(search.cache, r.page)
<1>1. r \in Chunks /\ Judged(r, h) /\ r.page \in WikiPages
  BY JudgedFacts, ChunkTypes
<1>2. /\ search.at = "page" /\ search'.at = "chunk" /\ search'.seen = search.seen
      /\ wiki' = wiki
  BY <1>1 DEF Judged, JudgeHit
<1>3. \A p \in WikiPages : KnownOf(p)
  BY <1>2 DEF SearchInv, KnownOf
<1>4. CASE search'.cache = search.cache /\ search'.results = search.results
  BY <1>2, <1>3, <1>4 DEF SearchInv, ResultIsCurrent, KnownOf
<1>5. CASE /\ wiki[r.page] # Missing
           /\ search'.cache = [search.cache EXCEPT ![r.page] = h]
           /\ \/ search'.results = search.results
              \/ /\ r.content = h
                 /\ search'.results = search.results \cup
                      {[chunk |-> r, hit |-> [content |-> r.content, text |-> r.text]]}
  <2>1. h \in search.seen[r.page]
    BY <1>1, <1>3, <1>5 DEF HashIn, KnownOf
  <2>2. \A p \in WikiPages : search'.cache[p] = IF p = r.page THEN h ELSE search.cache[p]
    BY <1>5, SearchTypes DEF Hashes
  <2>3. SearchInv'
    BY <1>2, <1>3, <2>1, <2>2 DEF SearchInv, KnownOf
  <2>4. \A x \in search'.results : /\ x.chunk.content \in search.seen[x.chunk.page]
                                   /\ x.hit.text = x.chunk.text
    <3> HIDE DEF h, r
    <3> QED
      BY <1>5, <2>1 DEF ResultIsCurrent
  <2> QED
    BY <1>2, <2>3, <2>4 DEF ResultIsCurrent
<1> QED
  BY <1>1, <1>4, <1>5 DEF Judged

LEMMA SearchStep ==
  ASSUME RetrievalTypeOK, SearchInv, ResultIsCurrent, [RetrievalNext]_retrievalVars
  PROVE  SearchInv' /\ ResultIsCurrent'
<1>1. CASE UNCHANGED <<wiki, search>>
  BY <1>1 DEF SearchInv, ResultIsCurrent
<1>2. CASE Ask
  <2>1. wiki' = wiki
    BY <1>2 DEF Ask
  <2> QED
    BY <1>2, <2>1, AskFacts, EmptyFacts DEF SearchInv, ResultIsCurrent
<1>3. ASSUME NEW k \in ChunkKeys, ReadHit(k) PROVE SearchInv' /\ ResultIsCurrent'
  <2>1. wiki' = wiki
    BY <1>3 DEF ReadHit
  <2> QED
    BY <1>3, <2>1, HitFacts DEF SearchInv, ResultIsCurrent
<1>4. CASE JudgeHit
  BY <1>4, JudgeStep
<1>5. CASE Answer
  BY <1>5, NoSearchFacts DEF Answer, SearchInv, ResultIsCurrent
<1>6. ASSUME NEW p \in WikiPages, EditPage(p) PROVE SearchInv' /\ ResultIsCurrent'
  <2>1. /\ search'.at = search.at /\ search'.chunk = search.chunk
        /\ search'.results = search.results /\ search'.cache = search.cache
        /\ \A q \in WikiPages :
             /\ search.seen[q] \subseteq search'.seen[q]
             /\ wiki'[q] = wiki[q] \/ wiki'[q] = Missing
                \/ search.at = "idle" \/ wiki'[q] \in search'.seen[q]
    BY <1>6, EditSearchFacts
  <2>2. SearchInv'
    BY <2>1 DEF SearchInv
  <2>3. \A x \in search.results : x.chunk.page \in WikiPages
    BY SearchTypes, ChunkTypes
  <2>4. ResultIsCurrent'
    BY <2>1, <2>3 DEF ResultIsCurrent
  <2> QED
    BY <2>2, <2>4
<1>7. CASE ChunkerSteps \/ BuilderSteps \/ JobDies \/ UNCHANGED retrievalVars
  BY <1>1, <1>7
     DEF ChunkerSteps, ChunkAll, ChunkOne, StartChunking, ReadPage, InvalidateIndex, WriteChunk,
         RemoveChunk, FinishChunking, BuilderSteps, StartBuild, ScanChunk, PublishIndex,
         JobDies, retrievalVars
<1> QED
  BY <1>2, <1>3, <1>4, <1>5, <1>6, <1>7, RetrievalNextCases DEF QuerySteps

-----------------------------------------------------------------------------
(***************************************************************************)
(* DoneInv: page by page.                                                  *)
(***************************************************************************)
\* What DoneInv says of a page that the run has been through.
Clean(p) ==
  /\ wiki[p] # Missing
  /\ \A k \in KeysFor(p, wiki[p]) :
       /\ chunks[k] = ChunkOf(p, wiki[p], k) \/ k \in job.writes
       /\ k \notin job.stale
       /\ job.all => k \in job.active
  /\ \A k \in ChunkKeys \ KeysFor(p, wiki[p]) :
       chunks[k] # Missing /\ chunks[k].page = p => k \in job.stale

Chunking == job.at \in {"work", "invalidate"} /\ job.calm

DoneParts ==
  Chunking =>
    /\ AddressesDiffer
    /\ job.writes # {} => job.page \in job.done /\ job.content = wiki[job.page]
    /\ \A p \in job.done : Clean(p)

LEMMA DoneIsParts == DoneInv <=> DoneParts
  BY DEF DoneInv, DoneParts, Chunking, Clean

LEMMA PartsAreDone == DoneParts' => DoneInv'
  BY DEF DoneInv, DoneParts, Chunking, Clean

\* The chunk files of two pages differ, where the pages' directories do.
LEMMA OthersApart ==
  ASSUME RetrievalTypeOK, AddressesDiffer, NEW p \in WikiPages, NEW q \in WikiPages, p # q,
         wiki[p] # Missing, wiki[q] # Missing
  PROVE  \A k \in KeysFor(p, wiki[p]) : /\ k \notin KeysFor(q, wiki[q])
                                        /\ k[1] # Dir(q, wiki[q])
<1>1. Dir(p, wiki[p]) # Dir(q, wiki[q])
  BY DEF AddressesDiffer
<1>2. wiki[p] \in Contents /\ wiki[q] \in Contents
  BY DEF RetrievalTypeOK
<1> QED
  BY <1>1, <1>2, KeyFacts

\* A page that is read gets its own chunks to write and all others to remove, and
\* the pages before it lose none.
LEMMA ReadClean ==
  ASSUME RetrievalTypeOK, DoneParts, NEW p \in WikiPages, ReadPage(p), wiki[p] # Missing
  PROVE  DoneParts'
<1> SUFFICES ASSUME Chunking'
             PROVE  /\ AddressesDiffer'
                    /\ job'.writes # {} => job'.page \in job'.done
                                           /\ job'.content = wiki'[job'.page]
                    /\ \A q \in job'.done : Clean(q)'
  BY DEF DoneParts
<1>1. /\ job.at = "work" /\ job.writes = {} /\ job.stale = {}
      /\ UNCHANGED <<wiki, chunks>>
  BY DEF ReadPage
<1>2. /\ job'.page = p /\ job'.content = wiki[p] /\ job'.done = job.done \cup {p}
      /\ job'.writes = WritesFor(p) /\ job'.stale = StaleFor(p, wiki[p])
      /\ job'.active = job.active \cup KeysFor(p, wiki[p])
      /\ job'.all = job.all /\ job'.calm = job.calm
  BY ReadFacts
<1>3. AddressesDiffer /\ \A q \in job.done : Clean(q)
  BY <1>1, <1>2 DEF DoneParts, Chunking
<1>4. AddressesDiffer'
  BY <1>1, <1>3 DEF AddressesDiffer
<1>5. wiki[p] \in Contents /\ KeysFor(p, wiki[p]) \subseteq ChunkKeys
  BY KeyFacts DEF RetrievalTypeOK
<1>6. Clean(p)'
  <2>1. ASSUME NEW k \in KeysFor(p, wiki[p])
        PROVE  /\ chunks[k] = ChunkOf(p, wiki[p], k) \/ k \in WritesFor(p)
               /\ k \notin StaleFor(p, wiki[p])
               /\ k \in job'.active
    BY <1>2, <2>1 DEF WritesFor, StaleFor
  <2>2. ASSUME NEW k \in ChunkKeys \ KeysFor(p, wiki[p]), chunks[k] # Missing, chunks[k].page = p
        PROVE  k \in StaleFor(p, wiki[p])
    BY <2>2 DEF StaleFor
  <2>3. \A k \in KeysFor(p, wiki[p]) : ChunkOf(p, wiki[p], k)' = ChunkOf(p, wiki[p], k)
    BY <1>1 DEF ChunkOf
  <2>4. KeysFor(p, wiki[p])' = KeysFor(p, wiki[p])
    BY <1>1 DEF KeysFor, Dir
  <2> QED
    BY <1>1, <1>2, <2>1, <2>2, <2>3, <2>4 DEF Clean
<1>7. ASSUME NEW q \in job.done, q # p PROVE Clean(q)'
  <2>0. q \in WikiPages /\ Clean(q)
    BY <1>3, JobTypes
  <2>1. wiki[q] # Missing /\ wiki[q] \in Contents
    BY <2>0 DEF Clean, RetrievalTypeOK
  <2>2. ASSUME NEW k \in KeysFor(q, wiki[q])
        PROVE  /\ chunks[k] = ChunkOf(q, wiki[q], k)
               /\ k \notin StaleFor(p, wiki[p])
               /\ job.all => k \in job'.active
    <3>1. chunks[k] = ChunkOf(q, wiki[q], k) /\ (job.all => k \in job.active)
      BY <1>1, <2>0 DEF Clean
    <3>2. k[1] # Dir(p, wiki[p])
      BY <1>3, <1>7, <2>0, <2>1, OthersApart
    <3>3. chunks[k].page = q
      BY <2>0, <2>1, <3>1, KeyFacts
    <3> QED
      BY <1>2, <1>7, <3>1, <3>2, <3>3 DEF StaleFor
  <2>3. \A k \in ChunkKeys \ KeysFor(q, wiki[q]) : ~(chunks[k] # Missing /\ chunks[k].page = q)
    BY <1>1, <2>0 DEF Clean
  <2>4. \A k \in KeysFor(q, wiki[q]) : ChunkOf(q, wiki[q], k)' = ChunkOf(q, wiki[q], k)
    BY <1>1 DEF ChunkOf
  <2>5. KeysFor(q, wiki[q])' = KeysFor(q, wiki[q])
    BY <1>1 DEF KeysFor, Dir
  <2> QED
    BY <1>1, <1>2, <2>1, <2>2, <2>3, <2>4, <2>5 DEF Clean
<1> QED
  BY <1>1, <1>2, <1>4, <1>6, <1>7

\* A chunk is written to the page it is of, and stays off the others.
LEMMA WriteClean ==
  ASSUME RetrievalTypeOK, JobInv, DoneParts, NEW k \in ChunkKeys, Wrote(k), wiki' = wiki
  PROVE  DoneParts'
<1> SUFFICES ASSUME job.calm, NEW q \in job.done PROVE Clean(q)'
  BY DEF DoneParts, Wrote, Chunking, AddressesDiffer
<1> DEFINE p == job.page
           c == job.content
<1>1. /\ job.at = "work" /\ job.calm /\ k \in job.writes
      /\ job'.done = job.done /\ job'.all = job.all /\ job'.active = job.active
      /\ job'.stale = job.stale /\ job'.writes = job.writes \ {k}
  BY DEF Wrote
<1>2. AddressesDiffer /\ p \in job.done /\ c = wiki[p] /\ Clean(p) /\ Clean(q)
  BY <1>1 DEF DoneParts, Chunking
<1>3. p \in WikiPages /\ q \in WikiPages /\ wiki[p] # Missing /\ wiki[q] # Missing
  BY <1>2, JobTypes DEF Clean
<1>4. k \in KeysFor(p, wiki[p])
  BY <1>1, <1>2 DEF JobInv
<1>5. \A l \in ChunkKeys : chunks'[l] = IF l = k THEN ChunkOf(p, wiki[p], k) ELSE chunks[l]
  BY <1>2 DEF Wrote, RetrievalTypeOK
<1>6. wiki[p] \in Contents /\ wiki[q] \in Contents
  BY <1>3 DEF RetrievalTypeOK
<1>7. KeysFor(q, wiki[q]) \subseteq ChunkKeys /\ ChunkOf(p, wiki[p], k).page = p
  BY <1>3, <1>4, <1>6, KeyFacts
<1>8. p # q => k \notin KeysFor(q, wiki[q])
  BY <1>2, <1>3, <1>4, OthersApart
<1>9. ASSUME NEW l \in KeysFor(q, wiki[q])
      PROVE  /\ chunks'[l] = ChunkOf(q, wiki[q], l) \/ l \in job'.writes
             /\ l \notin job.stale
             /\ job.all => l \in job.active
  <2>1. CASE l = k
    BY <1>2, <1>5, <1>7, <1>8, <2>1 DEF Clean
  <2>2. CASE l # k
    BY <1>1, <1>2, <1>5, <1>7, <2>2 DEF Clean
  <2> QED
    BY <2>1, <2>2
<1>10. ASSUME NEW l \in ChunkKeys \ KeysFor(q, wiki[q]), chunks'[l] # Missing, chunks'[l].page = q
       PROVE  l \in job.stale
  <2>1. l # k
    BY <1>4, <1>5, <1>7, <1>10
  <2> QED
    BY <1>2, <1>5, <1>10, <2>1 DEF Clean
<1>11. \A l \in KeysFor(q, wiki[q]) : ChunkOf(q, wiki[q], l)' = ChunkOf(q, wiki[q], l)
  BY DEF ChunkOf
<1>12. KeysFor(q, wiki[q])' = KeysFor(q, wiki[q])
  BY DEF KeysFor, Dir
<1> QED
  BY <1>1, <1>3, <1>9, <1>10, <1>11, <1>12 DEF Clean

\* What is removed is no chunk of a page that the run has been through.
LEMMA RemoveClean ==
  ASSUME RetrievalTypeOK, DoneParts, NEW k \in ChunkKeys, Removed(k), wiki' = wiki
  PROVE  DoneParts'
<1> SUFFICES ASSUME job.calm, NEW q \in job.done PROVE Clean(q)'
  BY DEF DoneParts, Removed, Chunking, AddressesDiffer
<1>1. /\ job.at = "work" /\ job.calm /\ k \in job.stale /\ job.writes = {}
      /\ job'.done = job.done /\ job'.all = job.all /\ job'.active = job.active
      /\ job'.stale = job.stale \ {k} /\ job'.writes = {}
  BY DEF Removed
<1>2. Clean(q) /\ q \in WikiPages /\ wiki[q] # Missing
  BY <1>1, JobTypes DEF DoneParts, Chunking, Clean
<1>3. wiki[q] \in Contents
  BY <1>2 DEF RetrievalTypeOK
<1>4. KeysFor(q, wiki[q]) \subseteq ChunkKeys
  BY <1>2, <1>3, KeyFacts
<1>5. \A l \in ChunkKeys : chunks'[l] = IF l = k THEN Missing ELSE chunks[l]
  BY DEF Removed, RetrievalTypeOK
<1>6. ASSUME NEW l \in KeysFor(q, wiki[q])
      PROVE  /\ chunks'[l] = ChunkOf(q, wiki[q], l)
             /\ l \notin job'.stale
             /\ job.all => l \in job.active
  BY <1>1, <1>2, <1>4, <1>5 DEF Clean
<1>7. ASSUME NEW l \in ChunkKeys \ KeysFor(q, wiki[q]), chunks'[l] # Missing, chunks'[l].page = q
      PROVE  l \in job'.stale
  BY <1>1, <1>2, <1>5, <1>7 DEF Clean
<1>8. \A l \in KeysFor(q, wiki[q]) : ChunkOf(q, wiki[q], l)' = ChunkOf(q, wiki[q], l)
  BY DEF ChunkOf
<1>9. KeysFor(q, wiki[q])' = KeysFor(q, wiki[q])
  BY DEF KeysFor, Dir
<1> QED
  BY <1>1, <1>2, <1>6, <1>7, <1>8, <1>9 DEF Clean

\* What no page has claimed is no chunk of a page either.
LEMMA FinishClean ==
  ASSUME RetrievalTypeOK, DoneParts, FinishChunking, job.all
  PROVE  DoneParts'
<1>1. /\ job.at = "work" /\ job.writes = {} /\ job.stale = {}
      /\ UNCHANGED <<wiki, chunks>>
  BY DEF FinishChunking
<1>2. /\ job'.done = job.done /\ job'.writes = {} /\ job'.stale = Unclaimed
      /\ job'.all = FALSE /\ job'.calm = job.calm
  BY FinishFacts
<1> SUFFICES ASSUME job.calm, NEW q \in job.done PROVE Clean(q)'
  BY <1>1, <1>2 DEF DoneParts, Chunking, AddressesDiffer
<1>3. Clean(q)
  BY <1>1 DEF DoneParts, Chunking
<1>4. ASSUME NEW k \in KeysFor(q, wiki[q])
      PROVE  chunks[k] = ChunkOf(q, wiki[q], k) /\ k \notin Unclaimed
  BY <1>1, <1>3 DEF Clean, Unclaimed
<1>5. \A k \in ChunkKeys \ KeysFor(q, wiki[q]) : ~(chunks[k] # Missing /\ chunks[k].page = q)
  BY <1>1, <1>3 DEF Clean
<1>6. \A k \in KeysFor(q, wiki[q]) : ChunkOf(q, wiki[q], k)' = ChunkOf(q, wiki[q], k)
  BY <1>1 DEF ChunkOf
<1>7. KeysFor(q, wiki[q])' = KeysFor(q, wiki[q])
  BY <1>1 DEF KeysFor, Dir
<1>8. wiki[q] # Missing
  BY <1>3 DEF Clean
<1> QED
  BY <1>1, <1>2, <1>4, <1>5, <1>6, <1>7, <1>8 DEF Clean

LEMMA DoneStep ==
  ASSUME RetrievalTypeOK, JobInv, DoneInv, [RetrievalNext]_retrievalVars
  PROVE  DoneInv'
<1> SUFFICES DoneParts'
  BY PartsAreDone
<1>0. DoneParts
  BY DoneIsParts
<1>1. CASE UNCHANGED <<wiki, chunks, job>>
  BY <1>0, <1>1 DEF DoneParts, Chunking, AddressesDiffer, Clean
<1>2. CASE job'.at \notin {"work", "invalidate"}
  BY <1>2 DEF DoneParts, Chunking
<1>3. CASE ChunkAll \/ \E p \in WikiPages : ChunkOne(p)
  BY <1>3, ChunkerStart DEF DoneParts, AddressesDiffer
<1>4. ASSUME NEW p \in WikiPages, ReadPage(p), wiki[p] # Missing PROVE DoneParts'
  BY <1>0, <1>4, ReadClean
<1>5. CASE InvalidateIndex
  <2>1. job.at = "invalidate" /\ wiki' = wiki /\ chunks' = chunks
    BY <1>5 DEF InvalidateIndex
  <2> QED
    BY <1>0, <1>5, <2>1, InvalidateFacts DEF DoneParts, Chunking, AddressesDiffer, Clean
<1>6. CASE WriteChunk
  <2>1. wiki' = wiki
    BY <1>6 DEF WriteChunk
  <2> QED
    BY <1>0, <1>6, <2>1, WroteFacts, WriteClean
<1>7. CASE RemoveChunk
  <2>1. wiki' = wiki
    BY <1>7 DEF RemoveChunk
  <2> QED
    BY <1>0, <1>7, <2>1, RemovedFacts, RemoveClean
<1>8. CASE FinishChunking /\ job.all
  BY <1>0, <1>8, FinishClean
<1>9. CASE job' = NoJob
  BY <1>2, <1>9, NoJobFacts
<1>10. CASE ChunkerSteps
  BY <1>3, <1>4, <1>5, <1>6, <1>7, <1>8, <1>9, <1>10
     DEF ChunkerSteps, ReadPage, FinishChunking
<1>11. CASE BuilderSteps
  <2>1. ASSUME NEW k \in ChunkKeys, ScanChunk(k) PROVE job'.at = "scan"
    BY <2>1, ScannedFacts DEF Scanned
  <2> QED
    BY <1>2, <1>9, <1>11, <2>1, ScanStartFacts DEF BuilderSteps, PublishIndex
<1>12. ASSUME NEW p \in WikiPages, EditPage(p) PROVE DoneParts'
  BY <1>12, EditFacts DEF DoneParts, Chunking
<1>13. CASE QuerySteps \/ JobDies \/ UNCHANGED retrievalVars
  BY <1>1, <1>9, <1>13, QueryAlone DEF JobDies, retrievalVars
<1> QED
  BY <1>10, <1>11, <1>12, <1>13, RetrievalNextCases

-----------------------------------------------------------------------------
(***************************************************************************)
(* The theorems.                                                           *)
(***************************************************************************)
LEMMA RetrievalInvInit == RetrievalInit => RetrievalInv
<1> SUFFICES ASSUME RetrievalInit PROVE RetrievalInv
  OBVIOUS
<1>1. index = Missing /\ job = NoJob /\ search = NoSearch
  BY DEF RetrievalInit
<1>2. JobInv /\ SearchInv /\ DoneInv /\ IndexMatchesChunks /\ ResultIsCurrent
  BY <1>1, NoJobFacts, NoSearchFacts
     DEF JobInv, SearchInv, DoneInv, IndexMatchesChunks, ResultIsCurrent
<1> QED
  BY <1>2, RetrievalTypeInit DEF RetrievalInv

\* The invariant is inductive.
THEOREM RetrievalInductive == RetrievalSpec => []RetrievalInv
<1>1. RetrievalInv /\ [RetrievalNext]_retrievalVars => RetrievalInv'
  BY RetrievalTypeStep, JobStep, SearchStep, DoneStep, IndexStep DEF RetrievalInv
<1> QED
  BY <1>1, RetrievalInvInit, PTL DEF RetrievalSpec

\* The variables keep their types.
THEOREM RetrievalTypeCorrect == RetrievalSpec => []RetrievalTypeOK
<1>1. RetrievalInv => RetrievalTypeOK
  BY DEF RetrievalInv
<1> QED
  BY <1>1, RetrievalInductive, PTL

\* However many pages there are, and whenever the chunker dies between two of its
\* writes: an index that is there names chunks as they are on disk.
THEOREM NoIndexOutlivesChunks == RetrievalSpec => []IndexMatchesChunks
<1>1. RetrievalInv => IndexMatchesChunks
  BY DEF RetrievalInv
<1> QED
  BY <1>1, RetrievalInductive, PTL

\* A query, which takes no lock, returns only chunks of contents that their pages
\* have had since it was asked, whatever chunker, builder and person do meanwhile.
THEOREM AnswersAreCurrent == RetrievalSpec => []ResultIsCurrent
<1>1. RetrievalInv => ResultIsCurrent
  BY DEF RetrievalInv
<1> QED
  BY <1>1, RetrievalInductive, PTL

\* A run that nobody disturbs leaves of its pages exactly their chunks, whatever
\* chunks and addresses there were before.
THEOREM RunsLeaveExactChunks == RetrievalSpec => []ChunkedExactly
<1>1. ASSUME RetrievalInv PROVE ChunkedExactly
  <2>1. DoneInv
    BY <1>1 DEF RetrievalInv
  <2> QED
    BY <2>1 DEF DoneInv, ChunkedExactly
<1> QED
  BY <1>1, RetrievalInductive, PTL
=============================================================================
