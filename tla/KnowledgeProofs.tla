--------------------------- MODULE KnowledgeProofs ---------------------------
(***************************************************************************)
(* Theorems about Knowledge, for any writers, readers, documents, ACLs,    *)
(* graphs and limits, and for both stores.  Three facts carry them.  The   *)
(* rows of a source in the durable store are numbered without a gap        *)
(* (Numbered), so that a revision that is still free follows the row its   *)
(* writer read.  Every moment of a retrieve() call is in its window        *)
(* (Watched).  And every change of a collection's live chunks advances its *)
(* revision, so that a reader whose key is still current has seen one      *)
(* state of the collection only (OnCourse).  The graph is the tenant's and *)
(* has no revision: nothing is claimed, or needed, of what a walk finds.   *)
(***************************************************************************)
EXTENDS Knowledge, FiniteSetTheorems, FunctionTheorems, TLAPS

\* The rows of a source have different revisions, and one is the latest; in
\* the durable store none is missing.
Numbered(s) ==
    /\ \A d, e \in docs[s] : d.rev = e.rev => d = e
    /\ docs[s] # {} => \E d \in docs[s] : \A e \in docs[s] : e.rev <= d.rev
    /\ \A d \in docs[s] : d.rev # 0
    /\ durable => \A d \in docs[s] : \A n \in 1 .. d.rev : \E e \in docs[s] : e.rev = n

\* A writer about to publish has a document, and the row it read is still there.
WriterHolds ==
    \A w \in Writers : wpc[w] = "publish" =>
        /\ wdoc[w] \in Document
        /\ durable /\ wread[w] # None => wread[w] \in docs[wdoc[w].source]

\* A chunk is known by its id, and a durable one by the row it belongs to.
ChunksNamed ==
    /\ IsFiniteSet(chunks)
    /\ \A k, l \in chunks : Id(k) = Id(l) => k = l
    /\ durable => \A k \in chunks : \E d \in docs[k.source] : d.rev = k.rev

StoreInv ==
    /\ TypeOK
    /\ \A s \in Sources : Numbered(s)
    /\ WriterHolds
    /\ ChunksNamed
    /\ EmbeddingsAgree

\* A reader inside retrieve() asks for someone and of a collection, and its window
\* has the present; outside it there are no hits.
Watched ==
    \A r \in Readers :
        IF rpc[r] = "idle" THEN rhits[r] = {}
        ELSE /\ rwho[r] \in Principals
             /\ rcoll[r] \in Collections
             /\ LiveIn(rcoll[r]) \in window[r]

\* A reader whose key is its collection's current revision holds what the collection
\* as it is now would have given it, but for what the graph adds.
OnCourse(r) ==
    LET p == rwho[r]
        c == rcoll[r] IN
    rpc[r] # "idle" /\ rkey[r] = revision[c] =>
        /\ rpc[r] = "keyword" => rids[r] = SearchVector(c, p)
        /\ rpc[r] \in {"pre", "seeds", "walk", "edges", "cite", "expand"} =>
             rids[r] = Found(c, p)
        /\ rpc[r] = "post" => Found(c, p) \subseteq rids[r]
        /\ rpc[r] = "store" => Ids(rhits[r]) \in Answers(c, p)

\* No reader and no cache entry has a key from the future.
KeysPast ==
    /\ \A r \in Readers : rpc[r] # "idle" => rkey[r] <= revision[rcoll[r]]
    /\ \A p \in Principals, c \in Collections, n \in 0 .. MaxRevision :
         cache[<<p, c, n>>] # None => n <= revision[c]

CacheInv == KeysPast /\ (\A r \in Readers : OnCourse(r)) /\ CacheMatchesSearches

IInv == StoreInv /\ Watched /\ HitsWereLive /\ CacheInv

-----------------------------------------------------------------------------
(* What the store's methods return *)

\* An id is an id.
LEMMA IdTyped == \A k \in Chunk : Id(k) \in ChunkId
BY DEF Id, Chunk, ChunkId

\* The ids of live chunks are ids.
LEMMA LiveTyped ==
    ASSUME TypeOK
    PROVE  Live \subseteq chunks /\ Live \subseteq Chunk /\ Ids(Live) \subseteq ChunkId
<1>1. Live \subseteq chunks /\ chunks \subseteq Chunk
  BY DEF TypeOK, Live, LiveDurable, LiveInMemory
<1>2. QED
  BY <1>1, IdTyped DEF Ids

\* get_revision returns the latest row, or None for a source never seen.
LEMMA LatestRow ==
    ASSUME TypeOK, NEW s \in Sources, Numbered(s)
    PROVE  /\ docs[s] = {} => GetRevision(s) = None
           /\ docs[s] # {} =>
                /\ GetRevision(s) \in docs[s]
                /\ GetRevision(s) \in Row
                /\ \A e \in docs[s] : e.rev <= GetRevision(s).rev
<1>1. docs[s] \subseteq Row
  BY DEF TypeOK
<1>2. CASE docs[s] # {}
  <2>1. \E d \in docs[s] : \A e \in docs[s] : e.rev <= d.rev
    BY <1>2 DEF Numbered
  <2>2. GetRevision(s) = CHOOSE d \in docs[s] : \A e \in docs[s] : e.rev <= d.rev
    BY <1>2 DEF GetRevision
  <2>3. QED
    BY <1>1, <2>1, <2>2
<1>3. QED
  BY <1>2 DEF GetRevision

\* The number a source's next row takes.
Following(s) == IF docs[s] = {} THEN 1 ELSE GetRevision(s).rev + 1

\* Adding the next row, or replacing all rows in memory, keeps the numbering.
LEMMA AddRow ==
    ASSUME TypeOK, NEW s \in Sources, Numbered(s), NEW x \in Row, durable' = durable,
           IF durable THEN x.rev = Following(s) /\ docs'[s] = docs[s] \cup {x}
                      ELSE x.rev # 0 /\ docs'[s] = {x}
    PROVE  Numbered(s)'
<1>1. docs[s] \subseteq Row /\ x.rev \in Nat
  BY DEF TypeOK, Row
<1>2. CASE ~durable
  BY <1>1, <1>2 DEF Numbered
<1>3. CASE durable /\ docs[s] = {}
  BY <1>1, <1>3 DEF Numbered, Following
<1>4. CASE durable /\ docs[s] # {}
  <2> DEFINE m == GetRevision(s).rev
  <2>1. m \in Nat /\ x.rev = m + 1 /\ docs'[s] = docs[s] \cup {x}
    BY <1>4, LatestRow DEF Following, Row
  <2>2. \A e \in docs[s] : e.rev \in Nat /\ e.rev <= m /\ e.rev # 0
    BY <1>1, <1>4, LatestRow DEF Row, Numbered
  <2>3. \E e \in docs[s] : e.rev = m
    BY <1>4, LatestRow
  <2> HIDE DEF m
  <2>4. \A d, e \in docs'[s] : d.rev = e.rev => d = e
    BY <2>1, <2>2 DEF Numbered
  <2>5. \E d \in docs'[s] : \A e \in docs'[s] : e.rev <= d.rev
    BY <2>1, <2>2
  <2>6. \A d \in docs'[s] : d.rev # 0
    BY <2>1, <2>2
  <2>7. ASSUME NEW d \in docs'[s], NEW n \in 1 .. d.rev PROVE \E e \in docs'[s] : e.rev = n
    <3>1. CASE n = x.rev
      BY <2>1, <3>1
    <3>2. CASE n # x.rev
      <4>1. n \in 1 .. m
        BY <2>1, <2>2, <2>7, <3>2
      <4>2. \E e \in docs[s] : e.rev = n
        BY <1>4, <2>3, <4>1 DEF Numbered
      <4>3. QED
        BY <2>1, <4>2
    <3>3. QED
      BY <3>1, <3>2
  <2>8. QED
    BY <2>4, <2>5, <2>6, <2>7 DEF Numbered
<1>5. QED
  BY <1>2, <1>3, <1>4

\* A free revision follows the row the writer read, which is the latest.
LEMMA FreeRevisionIsNext ==
    ASSUME StoreInv, durable, NEW w \in Writers, wpc[w] = "publish", ~RevisionTaken(w)
    PROVE  /\ wread[w] = GetRevision(wdoc[w].source)
           /\ NextRevision(w) = Following(wdoc[w].source)
<1> DEFINE s == wdoc[w].source
<1>1. s \in Sources
  BY DEF StoreInv, WriterHolds, Document
<1>2. TypeOK /\ Numbered(s) /\ docs[s] \subseteq Row
  BY <1>1 DEF StoreInv, TypeOK
<1>3. \A d \in docs[s] : d.rev # NextRevision(w)
  BY DEF RevisionTaken
<1>4. wread[w] # None => wread[w] \in docs[s]
  BY DEF StoreInv, WriterHolds
<1> HIDE DEF s
<1>5. CASE docs[s] = {}
  <2>1. wread[w] = None /\ GetRevision(s) = None
    BY <1>1, <1>2, <1>4, <1>5, LatestRow
  <2>2. QED
    BY <2>1, <1>5 DEF NextRevision, Following, s
<1>6. CASE docs[s] # {}
  <2>1. GetRevision(s) \in docs[s] /\ GetRevision(s) \in Row
        /\ \A e \in docs[s] : e.rev <= GetRevision(s).rev
    BY <1>1, <1>2, <1>6, LatestRow
  <2> DEFINE g == GetRevision(s)
             m == g.rev
  <2>2. m \in Nat /\ m # 0 /\ g \in docs[s]
    BY <1>2, <2>1 DEF Row, Numbered
  <2>3. \A n \in 1 .. m : \E e \in docs[s] : e.rev = n
    BY <1>2, <2>2 DEF Numbered
  <2>4. \A e \in docs[s] : e.rev \in Nat /\ e.rev <= m
    BY <1>2, <2>1 DEF Row
  <2> HIDE DEF m, g
  <2>5. NextRevision(w) \notin 1 .. m
    BY <1>3, <2>3
  <2>6. wread[w] # None
    BY <2>2, <2>5 DEF NextRevision
  <2>7. wread[w] \in docs[s] /\ NextRevision(w) = wread[w].rev + 1
    BY <1>4, <2>6 DEF NextRevision
  <2>8. wread[w].rev = m
    BY <2>2, <2>4, <2>5, <2>7
  <2>9. wread[w] = g
    BY <1>2, <2>2, <2>7, <2>8 DEF Numbered, m
  <2>10. QED
    BY <1>6, <2>7, <2>8, <2>9 DEF Following, g, m, s
<1>7. QED
  BY <1>5, <1>6 DEF s

-----------------------------------------------------------------------------
(* The writers *)

\* publish_revision writes the next row of the source and one chunk.
LEMMA PublishStep ==
    ASSUME StoreInv, NEW w \in Writers, wpc[w] = "publish", ProfileAccepted(w),
           revision[Home(w)] < MaxRevision, ~RevisionTaken(w), Publish(w)
    PROVE  /\ docs' \in [Sources -> SUBSET Row]
           /\ chunks' \subseteq Chunk
           /\ graph' \in [Items -> SUBSET ChunkId]
           /\ revision' \in [Collections -> 0 .. MaxRevision]
           /\ profile' \in [Collections -> Profiles \cup {None}]
           /\ \A s \in Sources : Numbered(s)'
           /\ durable => \A s \in Sources : docs[s] \subseteq docs'[s]
           /\ ChunksNamed'
           /\ EmbeddingsAgree'
<1> DEFINE s == wdoc[w].source
           x == NewRow(w)
           c == NewChunk(w)
           h == CollectionOf[s]
<1>1. TypeOK /\ wdoc[w] \in Document
  BY DEF StoreInv, WriterHolds
<1>2. NextRevision(w) \in Nat \ {0}
  BY <1>1 DEF TypeOK, NextRevision, Row
<1>3. x \in Row /\ x.rev = NextRevision(w) /\ x.rev # 0
  BY <1>1, <1>2 DEF NewRow, Row, Document
<1>4. /\ c \in Chunk /\ c.source = s /\ c.rev = x.rev
      /\ c.profile = wdoc[w].profile /\ c.profile \in Profiles
  BY <1>1, <1>2 DEF NewRow, NewChunk, Chunk, Document
<1>5. s \in Sources /\ Numbered(s) /\ docs \in [Sources -> SUBSET Row] /\ chunks \subseteq Chunk
  BY <1>1 DEF StoreInv, Document, TypeOK
<1>6. durable' = durable /\ durable \in BOOLEAN
  BY <1>1 DEF Publish, TypeOK
<1>7. durable => /\ docs' = [docs EXCEPT ![s] = docs[s] \cup {x}]
                 /\ chunks' = chunks \cup {c}
  <2> SUFFICES ASSUME durable PROVE /\ docs' = [docs EXCEPT ![s] = docs[s] \cup {x}]
                                    /\ chunks' = chunks \cup {c}
    OBVIOUS
  <2>1. PublishDurable(w)
    BY DEF Publish
  <2>2. {d \in docs[s] : d.rev # NextRevision(w)} = docs[s]
    BY DEF RevisionTaken
  <2>3. QED
    BY <1>5, <2>1, <2>2 DEF PublishDurable
<1>8. ~durable => /\ docs' = [docs EXCEPT ![s] = {x}]
                  /\ chunks' = {k \in chunks : k.source # s} \cup {c}
  BY DEF Publish, PublishInMemory
<1>9. durable => x.rev = Following(s)
  BY <1>3, FreeRevisionIsNext
<1>10. /\ profile' = [profile EXCEPT ![h] = c.profile]
       /\ revision' = [revision EXCEPT ![h] = revision[h] + 1]
       /\ profile[h] \in {None, c.profile} /\ revision[h] < MaxRevision
       /\ graph' = Upsert(Extract[wdoc[w].content], Id(c))
  <2>1. h = Home(w)
    BY DEF Home
  <2>2. QED
    BY <1>1, <1>4, <2>1 DEF Publish, ProfileAccepted, TypeOK
<1>10a. h \in Collections /\ h = CollectionOf[s]
  BY <1>5, KnowledgeConfig
<1> HIDE DEF x, c, s, h
<1>11. docs' \in [Sources -> SUBSET Row] /\ chunks' \subseteq Chunk
  BY <1>3, <1>4, <1>5, <1>7, <1>8
<1>12. graph' \in [Items -> SUBSET ChunkId]
  <2>1. Id(c) \in ChunkId
    BY <1>4, IdTyped
  <2>2. QED
    BY <1>1, <1>10, <2>1 DEF Upsert, TypeOK
<1>13. /\ revision' \in [Collections -> 0 .. MaxRevision]
       /\ profile' \in [Collections -> Profiles \cup {None}]
  <2>1. revision[h] + 1 \in 0 .. MaxRevision
    BY <1>1, <1>10, <1>10a, KnowledgeConfig DEF TypeOK
  <2>2. QED
    BY <1>1, <1>4, <1>10, <2>1 DEF TypeOK
<1>14. ASSUME NEW v \in Sources PROVE Numbered(v)'
  <2>1. CASE v = s
    BY <1>1, <1>3, <1>5, <1>6, <1>7, <1>8, <1>9, <2>1, AddRow
  <2>2. CASE v # s
    <3>1. docs'[v] = docs[v]
      BY <1>5, <1>7, <1>8, <2>2
    <3>2. QED
      BY <1>6, <3>1 DEF StoreInv, Numbered
  <2>3. QED
    BY <2>1, <2>2
<1>15. durable => \A v \in Sources : docs[v] \subseteq docs'[v]
  BY <1>5, <1>7
<1>16. ChunksNamed'
  <2>1. IsFiniteSet(chunks) /\ \A k, l \in chunks : Id(k) = Id(l) => k = l
    BY DEF StoreInv, ChunksNamed
  <2>2. CASE durable
    <3>1. \A k \in chunks : \E d \in docs[k.source] : d.rev = k.rev
      BY <2>2 DEF StoreInv, ChunksNamed
    <3>2. \A k \in chunks : Id(k) # Id(c)
      <4>1. \A d \in docs[s] : d.rev # x.rev
        BY <1>3, <2>2 DEF RevisionTaken, s
      <4>2. QED
        BY <1>4, <3>1, <4>1 DEF Id
    <3>3. IsFiniteSet(chunks')
      BY <1>7, <2>1, <2>2, FS_AddElement
    <3>4. \A k \in chunks' : \E d \in docs'[k.source] : d.rev = k.rev
      <4>1. x \in docs'[s]
        BY <1>5, <1>7, <2>2
      <4>2. \A k \in chunks : k.source \in Sources
        BY <1>5 DEF Chunk
      <4>3. QED
        BY <1>4, <1>7, <1>15, <2>2, <3>1, <4>1, <4>2
    <3>5. QED
      BY <1>7, <2>1, <2>2, <3>2, <3>3, <3>4 DEF ChunksNamed
  <2>3. CASE ~durable
    <3>1. IsFiniteSet({k \in chunks : k.source # s})
      BY <2>1, FS_Subset
    <3>2. IsFiniteSet(chunks')
      BY <1>8, <2>3, <3>1, FS_AddElement
    <3>3. \A k \in chunks : k.source # s => Id(k) # Id(c)
      BY <1>4 DEF Id
    <3>4. QED
      BY <1>6, <1>8, <2>1, <2>3, <3>2, <3>3 DEF ChunksNamed
  <2>4. QED
    BY <2>2, <2>3
<1>17. EmbeddingsAgree'
  <2>1. \A k \in chunks : /\ k.profile = profile[CollectionOf[k.source]]
                          /\ k.profile \in Profiles /\ CollectionOf[k.source] \in Collections
    BY <1>5, KnowledgeConfig DEF StoreInv, EmbeddingsAgree, Chunk
  <2>2. \A k \in chunks : CollectionOf[k.source] = h => k.profile = c.profile
    BY <1>10, <2>1, KnowledgeConfig
  <2>3. profile \in [Collections -> Profiles \cup {None}]
    BY <1>1 DEF TypeOK
  <2>4. \A k \in chunks' : k \in chunks \/ k = c
    BY <1>6, <1>7, <1>8
  <2>5. \A k \in chunks' : k.profile = profile'[CollectionOf[k.source]]
    BY <1>4, <1>10, <1>10a, <2>1, <2>2, <2>3, <2>4
  <2>6. QED
    BY <2>5 DEF EmbeddingsAgree
<1>18. QED
  BY <1>4, <1>10, <1>11, <1>12, <1>13, <1>14, <1>15, <1>16, <1>17

\* tombstone() writes the next row of a source that has one.
LEMMA TombstoneStep ==
    ASSUME StoreInv, NEW w \in Writers, NEW s \in Sources, Tombstone(w, s)
    PROVE  /\ docs' \in [Sources -> SUBSET Row]
           /\ revision' \in [Collections -> 0 .. MaxRevision]
           /\ \A v \in Sources : Numbered(v)'
           /\ durable => \A v \in Sources : docs[v] \subseteq docs'[v]
           /\ \A v \in Sources : \A d \in docs'[v] \ docs[v] : d.tombstoned
           /\ ChunksNamed'
<1> DEFINE g == GetRevision(s)
           x == Tombstoned(g)
           h == CollectionOf[s]
<1>1. /\ docs[s] # {} /\ UNCHANGED <<durable, chunks>> /\ revision[h] < MaxRevision
      /\ revision' = [revision EXCEPT ![h] = revision[h] + 1]
      /\ docs' = [docs EXCEPT ![s] = (IF durable THEN docs[s] ELSE {}) \cup {x}]
  <2>1. docs' = [docs EXCEPT ![s] = (IF durable THEN @ ELSE {}) \cup {x}]
    BY DEF Tombstone
  <2>2. QED
    BY <2>1 DEF Tombstone, StoreInv, TypeOK
<1>2. TypeOK /\ Numbered(s) /\ docs \in [Sources -> SUBSET Row]
  BY DEF StoreInv, TypeOK
<1>3. g \in Row /\ g.rev \in Nat
  BY <1>1, <1>2, LatestRow DEF Row
<1>4. x \in Row /\ x.rev = g.rev + 1 /\ x.tombstoned
  <2>1. g.rev + 1 \in Nat
    BY <1>3
  <2>2. [g EXCEPT !.rev = g.rev + 1] \in Row
    BY <1>3, <2>1 DEF Row
  <2>3. x = [[g EXCEPT !.rev = g.rev + 1] EXCEPT !.tombstoned = TRUE]
    BY <1>3 DEF Tombstoned, Row
  <2>4. QED
    BY <1>3, <2>2, <2>3 DEF Row
<1>5. x.rev = Following(s) /\ x.rev # 0
  BY <1>1, <1>3, <1>4 DEF Following
<1> HIDE DEF g, x
<1>6. docs' \in [Sources -> SUBSET Row] /\ revision' \in [Collections -> 0 .. MaxRevision]
  <2>1. revision[h] + 1 \in 0 .. MaxRevision
    BY <1>1, <1>2, KnowledgeConfig DEF TypeOK
  <2>2. QED
    BY <1>1, <1>2, <1>4, <2>1 DEF TypeOK
<1>7. durable => \A v \in Sources : docs[v] \subseteq docs'[v]
  BY <1>1, <1>2
<1>8. \A v \in Sources : \A d \in docs'[v] \ docs[v] : d.tombstoned
  BY <1>1, <1>2, <1>4
<1>9. ASSUME NEW v \in Sources PROVE Numbered(v)'
  <2>1. CASE v = s
    BY <1>1, <1>2, <1>4, <1>5, <2>1, AddRow
  <2>2. CASE v # s
    <3>1. docs'[v] = docs[v]
      BY <1>1, <1>2, <2>2
    <3>2. QED
      BY <1>1, <3>1 DEF StoreInv, Numbered
  <2>3. QED
    BY <2>1, <2>2
<1>10. ChunksNamed'
  <2>1. \A k \in chunks : k.source \in Sources
    BY <1>2 DEF TypeOK, Chunk
  <2>2. QED
    BY <1>1, <1>7, <2>1 DEF StoreInv, ChunksNamed
<1>11. QED
  BY <1>6, <1>7, <1>8, <1>9, <1>10

\* What a writer holds once it has finished.
LEMMA FinishStep ==
    ASSUME StoreInv, NEW w \in Writers, NEW o \in {"idle", "ingested"}, Finish(w, o),
           durable' = durable,
           durable => \A s \in Sources : docs[s] \subseteq docs'[s]
    PROVE  /\ wpc' \in [Writers -> {"idle", "ingested", "publish"}]
           /\ wdoc' \in [Writers -> Document \cup {None}]
           /\ wread' \in [Writers -> Row \cup {None}]
           /\ WriterHolds'
<1>1. /\ wpc \in [Writers -> {"idle", "ingested", "publish"}]
      /\ wdoc \in [Writers -> Document \cup {None}]
      /\ wread \in [Writers -> Row \cup {None}]
  BY DEF StoreInv, TypeOK
<1>2. ASSUME NEW v \in Writers, wpc'[v] = "publish"
      PROVE  /\ wdoc'[v] \in Document
             /\ durable' /\ wread'[v] # None => wread'[v] \in docs'[wdoc'[v].source]
  <2>1. v # w /\ wpc[v] = "publish" /\ wdoc'[v] = wdoc[v] /\ wread'[v] = wread[v]
    BY <1>1, <1>2 DEF Finish
  <2>2. wdoc[v] \in Document /\ wdoc[v].source \in Sources
    BY <2>1 DEF StoreInv, WriterHolds, Document
  <2>3. QED
    BY <2>1, <2>2 DEF StoreInv, WriterHolds
<1>3. WriterHolds'
  BY <1>2 DEF WriterHolds
<1>4. QED
  BY <1>1, <1>3 DEF Finish

\* Every step of a writer keeps the store's invariant.
LEMMA WriterKeepsStore ==
    ASSUME StoreInv, NEW w \in Writers, WriterStep(w)
    PROVE  StoreInv'
<1>0. StoreInv /\ TypeOK
  BY DEF StoreInv
<1>1. ASSUME UNCHANGED <<store, cache, reader, window>>,
             wpc' \in [Writers -> {"idle", "ingested", "publish"}],
             wdoc' \in [Writers -> Document \cup {None}],
             wread' \in [Writers -> Row \cup {None}],
             WriterHolds'
      PROVE  StoreInv'
  <2>1. TypeOK'
    BY <1>0, <1>1 DEF TypeOK, store, reader
  <2>2. (\A s \in Sources : Numbered(s))' /\ ChunksNamed' /\ EmbeddingsAgree'
    BY <1>0, <1>1 DEF StoreInv, Numbered, ChunksNamed, EmbeddingsAgree, store
  <2>3. QED
    BY <1>1, <2>1, <2>2 DEF StoreInv
<1>2. ASSUME UNCHANGED <<cache, reader>>, durable' = durable, Watch,
             docs' \in [Sources -> SUBSET Row],
             chunks' \subseteq Chunk,
             graph' \in [Items -> SUBSET ChunkId],
             revision' \in [Collections -> 0 .. MaxRevision],
             profile' \in [Collections -> Profiles \cup {None}],
             \A s \in Sources : Numbered(s)',
             durable => \A s \in Sources : docs[s] \subseteq docs'[s],
             ChunksNamed', EmbeddingsAgree',
             NEW o \in {"idle", "ingested"}, Finish(w, o)
      PROVE  StoreInv'
  <2>1. /\ wpc' \in [Writers -> {"idle", "ingested", "publish"}]
        /\ wdoc' \in [Writers -> Document \cup {None}]
        /\ wread' \in [Writers -> Row \cup {None}]
        /\ WriterHolds'
    BY <1>2, FinishStep
  <2>2. Live' \in SUBSET Chunk
    BY <1>2 DEF Live, LiveDurable, LiveInMemory
  <2>3. window' \in [Readers -> SUBSET SUBSET Chunk]
    <3>1. \A r \in Readers : Seen(r) \in SUBSET Chunk
      BY <2>2 DEF Seen
    <3>2. QED
      BY <1>0, <1>2, <3>1 DEF Watch, TypeOK
  <2>4. TypeOK'
    BY <1>0, <1>2, <2>1, <2>3 DEF TypeOK, reader
  <2>5. QED
    BY <1>2, <2>1, <2>4 DEF StoreInv
<1>3. ASSUME NEW d \in Documents, IngestRead(w, d) PROVE StoreInv'
  <2>1. d \in Document /\ d.source \in Sources
    BY KnowledgeConfig DEF Document
  <2> DEFINE g == GetRevision(d.source)
  <2>2. Numbered(d.source)
    BY <2>1 DEF StoreInv
  <2>3. /\ g \in Row \cup {None}
        /\ g # None => g \in docs[d.source]
    BY <1>0, <2>1, <2>2, LatestRow
  <2>4. /\ wpc' = [wpc EXCEPT ![w] = "ingested"] /\ UNCHANGED <<wdoc, wread>>
        \/ /\ wpc' = [wpc EXCEPT ![w] = "publish"]
           /\ wdoc' = [wdoc EXCEPT ![w] = d] /\ wread' = [wread EXCEPT ![w] = g]
    BY <1>3 DEF IngestRead
  <2> HIDE DEF g
  <2>5. /\ wpc' \in [Writers -> {"idle", "ingested", "publish"}]
        /\ wdoc' \in [Writers -> Document \cup {None}]
        /\ wread' \in [Writers -> Row \cup {None}]
    <3>1. /\ wpc \in [Writers -> {"idle", "ingested", "publish"}]
          /\ wdoc \in [Writers -> Document \cup {None}]
          /\ wread \in [Writers -> Row \cup {None}]
      BY <1>0 DEF TypeOK
    <3>2. QED
      BY <2>1, <2>3, <2>4, <3>1
  <2>6. UNCHANGED <<store, cache, reader, window>>
    BY <1>3 DEF IngestRead
  <2>7. ASSUME NEW v \in Writers, wpc'[v] = "publish"
        PROVE  /\ wdoc'[v] \in Document
               /\ durable' /\ wread'[v] # None => wread'[v] \in docs'[wdoc'[v].source]
    <3>1. CASE v = w
      BY <1>0, <2>1, <2>3, <2>4, <2>6, <2>7, <3>1 DEF TypeOK, store
    <3>2. CASE v # w
      BY <1>0, <2>4, <2>6, <2>7, <3>2 DEF TypeOK, StoreInv, WriterHolds, store
    <3>3. QED
      BY <3>1, <3>2
  <2>8. WriterHolds'
    BY <2>7 DEF WriterHolds
  <2>9. QED
    BY <1>1, <2>5, <2>6, <2>8
<1>4. ASSUME UNCHANGED <<store, cache, reader, window>>,
             NEW o \in {"idle", "ingested"}, Finish(w, o)
      PROVE  StoreInv'
  <2>1. durable' = durable /\ docs' = docs
    BY <1>4 DEF store
  <2>2. QED
    BY <1>1, <1>4, <2>1, FinishStep
<1>5. CASE WriterFails(w)
  BY <1>4, <1>5 DEF WriterFails
<1>6. CASE IngestPublish(w)
  <2>1. CASE UNCHANGED <<store, window>> /\ Finish(w, "ingested")
    BY <1>4, <1>6, <2>1 DEF IngestPublish
  <2>2. CASE ~RevisionTaken(w) /\ Publish(w) /\ Watch
             /\ \E o \in {"idle", "ingested"} : Finish(w, o)
    <3>1. /\ wpc[w] = "publish" /\ ProfileAccepted(w)
          /\ revision[Home(w)] < MaxRevision /\ UNCHANGED <<cache, reader>>
      BY <1>6 DEF IngestPublish
    <3>2. durable' = durable
      BY <2>2 DEF Publish
    <3>3. QED
      BY <1>2, <2>2, <3>1, <3>2, PublishStep
  <2>3. QED
    BY <1>6, <2>1, <2>2 DEF IngestPublish
<1>7. ASSUME NEW s \in Sources, Tombstone(w, s) PROVE StoreInv'
  <2>1. /\ UNCHANGED <<durable, chunks, graph, profile, cache, reader>> /\ Watch
        /\ Finish(w, "idle")
    BY <1>7 DEF Tombstone
  <2>2. EmbeddingsAgree'
    BY <2>1 DEF StoreInv, EmbeddingsAgree
  <2>3. /\ chunks' \subseteq Chunk /\ graph' \in [Items -> SUBSET ChunkId]
        /\ profile' \in [Collections -> Profiles \cup {None}]
    BY <1>0, <2>1 DEF TypeOK
  <2>4. QED
    BY <1>2, <1>7, <2>1, <2>2, <2>3, TombstoneStep
<1>8. QED
  BY <1>3, <1>5, <1>6, <1>7 DEF WriterStep

-----------------------------------------------------------------------------
(* The readers *)

\* What a reader gets from the store is typed.
LEMMA AnswersTyped ==
    ASSUME TypeOK, NEW c, NEW p, NEW ids
    PROVE  /\ SearchVector(c, p) \subseteq ChunkId
           /\ SearchKeyword(c, p) \subseteq ChunkId
           /\ LiveIn(c) \subseteq Chunk
           /\ AuthorizedChunks(c, p, ids) \subseteq LiveIn(c)
           /\ AuthorizedChunks(c, p, ids) \subseteq Chunk
           /\ AuthorizedChunks(c, p, ids) \subseteq chunks
           /\ Ids(AuthorizedChunks(c, p, ids)) \subseteq ChunkId
           /\ NodesForChunks(ids) \subseteq Entities
<1>1. /\ AuthorizedChunks(c, p, ids) \subseteq LiveIn(c)
      /\ ListLiveChunks(c, p) \subseteq LiveIn(c)
      /\ LiveIn(c) \subseteq Live
  BY DEF AuthorizedChunks, LoadChunks, ListLiveChunks, LiveIn
<1>2. /\ AuthorizedChunks(c, p, ids) \subseteq Chunk
      /\ ListLiveChunks(c, p) \subseteq Chunk
      /\ LiveIn(c) \subseteq Chunk
      /\ AuthorizedChunks(c, p, ids) \subseteq chunks
  BY <1>1, LiveTyped
<1>3. Ids(AuthorizedChunks(c, p, ids)) \subseteq ChunkId
  BY <1>2, IdTyped DEF Ids
<1>4. SearchVector(c, p) \subseteq ChunkId /\ SearchKeyword(c, p) \subseteq ChunkId
  BY <1>2, IdTyped DEF SearchVector, SearchKeyword, Ids
<1>5. QED
  BY <1>1, <1>2, <1>3, <1>4 DEF NodesForChunks

\* The types of the reader's side.
ReaderTyped ==
    /\ cache \in [Key -> (SUBSET ChunkId) \cup {None}]
    /\ rpc \in [Readers -> Place]
    /\ rwho \in [Readers -> Principals \cup {None}]
    /\ rcoll \in [Readers -> Collections \cup {None}]
    /\ rkey \in [Readers -> 0 .. MaxRevision]
    /\ rids \in [Readers -> SUBSET ChunkId]
    /\ rseeds \in [Readers -> SUBSET Entities]
    /\ rnodes \in [Readers -> [Entities -> SUBSET ChunkId]]
    /\ rextra \in [Readers -> SUBSET ChunkId]
    /\ rhits \in [Readers -> SUBSET Chunk]
    /\ window \in [Readers -> SUBSET SUBSET Chunk]

\* The key under which a reader looks up and stores is a key of the cache.
LEMMA KeyTyped ==
    ASSUME TypeOK, Watched, NEW r \in Readers, rpc[r] # "idle"
    PROVE  CacheKey(r) \in Key
BY DEF CacheKey, Key, TypeOK, Watched

\* A call that ends leaves nothing behind.
LEMMA ReturnTyped ==
    ASSUME ReaderTyped, NEW r \in Readers, Return(r),
           cache' \in [Key -> (SUBSET ChunkId) \cup {None}]
    PROVE  ReaderTyped'
<1>1. NoNodes \in [Entities -> SUBSET ChunkId] /\ 0 \in 0 .. MaxRevision /\ "idle" \in Place
  BY KnowledgeConfig DEF NoNodes, Place
<1> HIDE DEF NoNodes
<1>2. QED
  BY <1>1 DEF ReaderTyped, Return, SetHits, Goto

\* Every step of a reader keeps its types.
LEMMA ReaderTypes ==
    ASSUME TypeOK, Watched, NEW r \in Readers, ReaderStep(r)
    PROVE  ReaderTyped'
<1>0. ReaderTyped /\ TypeOK
  BY DEF TypeOK, ReaderTyped
<1>0a. \A place \in Place : Goto(r, place) => rpc' \in [Readers -> Place]
  BY <1>0 DEF Goto, ReaderTyped
<1>0b. {"lookup", "cached", "answer", "vector", "keyword", "pre", "seeds", "walk", "edges",
        "cite", "expand", "post", "store"} \subseteq Place
  BY DEF Place
<1>1. ASSUME NEW q \in Queries, ReadRevision(r, q[1], q[2]) PROVE ReaderTyped'
  <2>1. q[1] \in Principals /\ q[2] \in Collections
    BY KnowledgeConfig
  <2>2. LiveIn(q[2]) \in SUBSET Chunk /\ revision[q[2]] \in 0 .. MaxRevision
    BY <1>0, <2>1, AnswersTyped DEF TypeOK
  <2>3. PICK p \in Principals, c \in Collections :
          /\ ReadRevision(r, p, c) /\ LiveIn(c) \in SUBSET Chunk
          /\ revision[c] \in 0 .. MaxRevision
    BY <1>1, <2>1, <2>2
  <2>4. rpc' \in [Readers -> Place]
    BY <1>0a, <1>0b, <2>3 DEF ReadRevision
  <2>5. QED
    BY <1>0, <2>3, <2>4 DEF ReadRevision, ReaderTyped
<1>2. CASE CacheGet(r)
  <2> DEFINE key == CacheKey(r)
  <2>1. rpc[r] # "idle"
    BY <1>2 DEF CacheGet
  <2>2. key \in Key
    BY <1>0, <2>1, KeyTyped
  <2>3. cache[key] # None => cache[key] \in SUBSET ChunkId
    BY <1>0, <2>2 DEF ReaderTyped
  <2>4. \/ /\ cache[key] # None /\ rids' = [rids EXCEPT ![r] = cache[key]]
           /\ Goto(r, "cached") /\ UNCHANGED cache
        \/ /\ Goto(r, "vector") /\ cache' \in {cache, [cache EXCEPT ![key] = None]}
           /\ UNCHANGED rids
    BY <1>2 DEF CacheGet
  <2>5. UNCHANGED <<rwho, rcoll, rkey, rseeds, rnodes, rextra, rhits, window>>
    BY <1>2 DEF CacheGet, asked
  <2>6. rpc' \in [Readers -> Place]
    BY <1>0a, <1>0b, <2>4
  <2> HIDE DEF key
  <2>7. QED
    BY <1>0, <2>3, <2>4, <2>5, <2>6 DEF ReaderTyped
<1>3. CASE UseCached(r)
  <2>1. AuthorizedChunks(rcoll[r], rwho[r], rids[r]) \in SUBSET Chunk
    BY <1>0, AnswersTyped
  <2>2. rpc' \in [Readers -> Place]
    BY <1>0a, <1>0b, <1>3 DEF UseCached
  <2>3. QED
    BY <1>0, <1>3, <2>1, <2>2 DEF UseCached, SetHits, ReaderTyped, asked
<1>4. CASE VectorStep(r)
  <2>1. SearchVector(rcoll[r], rwho[r]) \in SUBSET ChunkId
    BY <1>0, AnswersTyped
  <2>2. rpc' \in [Readers -> Place]
    BY <1>0a, <1>0b, <1>4 DEF VectorStep
  <2>3. QED
    BY <1>0, <1>4, <2>1, <2>2 DEF VectorStep, ReaderTyped, asked
<1>5. CASE KeywordStep(r)
  <2>1. SearchKeyword(rcoll[r], rwho[r]) \in SUBSET ChunkId
    BY <1>0, AnswersTyped
  <2>2. /\ rids[r] \in SUBSET ChunkId
        /\ rids' = [rids EXCEPT ![r] = rids[r] \cup SearchKeyword(rcoll[r], rwho[r])]
    BY <1>0, <1>5 DEF KeywordStep, Fusion, ReaderTyped
  <2>3. rpc' \in [Readers -> Place]
    BY <1>0a, <1>0b, <1>5 DEF KeywordStep
  <2>4. UNCHANGED <<cache, rwho, rcoll, rkey, rseeds, rnodes, rextra, rhits, window>>
    BY <1>5 DEF KeywordStep, asked
  <2>5. QED
    BY <1>0, <2>1, <2>2, <2>3, <2>4 DEF ReaderTyped
<1>6. CASE PreFilter(r)
  <2>1. Ids(AuthorizedChunks(rcoll[r], rwho[r], rids[r])) \in SUBSET ChunkId
    BY <1>0, AnswersTyped
  <2>2. rpc' \in [Readers -> Place]
    BY <1>0a, <1>0b, <1>6 DEF PreFilter
  <2>3. QED
    BY <1>0, <1>6, <2>1, <2>2 DEF PreFilter, ReaderTyped, asked
<1>7. CASE Seeds(r)
  <2>1. NodesForChunks(rextra[r]) \in SUBSET Entities
    BY <1>0, AnswersTyped
  <2>2. rpc' \in [Readers -> Place]
    BY <1>0a, <1>0b, <1>7 DEF Seeds
  <2>3. QED
    BY <1>0, <1>7, <2>1, <2>2 DEF Seeds, ReaderTyped, asked
<1>8. CASE WalkNodes(r)
  <2>1. VisibleNodes(rwho[r]) \in [Entities -> SUBSET ChunkId]
    <3>1. Entities \subseteq Items /\ graph \in [Items -> SUBSET ChunkId]
      BY <1>0 DEF Items, TypeOK
    <3>2. QED
      BY <3>1 DEF VisibleNodes
  <2>2. rpc' \in [Readers -> Place]
    BY <1>0a, <1>0b, <1>8 DEF WalkNodes
  <2>3. QED
    BY <1>0, <1>8, <2>1, <2>2 DEF WalkNodes, ReaderTyped, asked
<1>9. CASE WalkEdges(r)
  <2> DEFINE nodes == {e \in Entities : rnodes[r][e] # {}}
  <2>1. PICK visited \in BoundedWalk(nodes, Visible(rwho[r]), rseeds[r]) :
          rextra' = [rextra EXCEPT ![r] = UNION {rnodes[r][e] : e \in visited}]
    BY <1>9 DEF WalkEdges
  <2>2. UNION {rnodes[r][e] : e \in visited} \in SUBSET ChunkId
    <3>1. visited \subseteq Entities /\ rnodes[r] \in [Entities -> SUBSET ChunkId]
      BY <1>0, <2>1 DEF BoundedWalk, ReaderTyped
    <3>2. QED
      BY <3>1
  <2>3. NoNodes \in [Entities -> SUBSET ChunkId]
    BY DEF NoNodes
  <2>4. rpc' \in [Readers -> Place]
    BY <1>0a, <1>0b, <1>9 DEF WalkEdges
  <2>5. /\ rseeds' = [rseeds EXCEPT ![r] = {}] /\ rnodes' = [rnodes EXCEPT ![r] = NoNodes]
        /\ UNCHANGED <<cache, rwho, rcoll, rkey, rids, rhits, window>>
    BY <1>9 DEF WalkEdges, asked
  <2>6. QED
    BY <1>0, <2>1, <2>2, <2>3, <2>4, <2>5 DEF ReaderTyped
<1>10. CASE Cite(r)
  <2>1. rextra[r] \cap Citable(rwho[r]) \in SUBSET ChunkId
    BY <1>0 DEF ReaderTyped
  <2>2. rextra' = [rextra EXCEPT ![r] = rextra[r] \cap Citable(rwho[r])]
    BY <1>0, <1>10 DEF Cite, ReaderTyped
  <2>3. rpc' \in [Readers -> Place]
    BY <1>0a, <1>0b, <1>10 DEF Cite
  <2>4. QED
    BY <1>0, <1>10, <2>1, <2>2, <2>3 DEF Cite, ReaderTyped, asked
<1>11. CASE Expand(r)
  <2> DEFINE more == Ids(AuthorizedChunks(rcoll[r], rwho[r], rextra[r]))
  <2>1. more \in SUBSET ChunkId
    BY <1>0, AnswersTyped
  <2>2. rids[r] \in SUBSET ChunkId /\ rids' = [rids EXCEPT ![r] = rids[r] \cup more]
    BY <1>0, <1>11 DEF Expand, ReaderTyped
  <2>3. rpc' \in [Readers -> Place]
    BY <1>0a, <1>0b, <1>11 DEF Expand
  <2>4. UNCHANGED <<cache, rwho, rcoll, rkey, rseeds, rnodes, rextra, rhits, window>>
    BY <1>11 DEF Expand, asked
  <2> HIDE DEF more
  <2>5. QED
    BY <1>0, <2>1, <2>2, <2>3, <2>4 DEF ReaderTyped
<1>12. CASE PostFilter(r)
  <2>1. AuthorizedChunks(rcoll[r], rwho[r], rids[r]) \in SUBSET Chunk
    BY <1>0, AnswersTyped
  <2>2. PICK hits \in SUBSET Chunk : SetHits(r, hits)
    BY <1>12, <2>1 DEF PostFilter, Select
  <2>3. rpc' \in [Readers -> Place]
    BY <1>0a, <1>0b, <1>12 DEF PostFilter
  <2>4. QED
    BY <1>0, <1>12, <2>2, <2>3 DEF PostFilter, SetHits, ReaderTyped, asked
<1>13. CASE CacheSet(r)
  <2> DEFINE key == CacheKey(r)
  <2>1. Ids(rhits[r]) \in SUBSET ChunkId
    BY <1>0, IdTyped DEF ReaderTyped, Ids
  <2>2. /\ \/ cache' = [cache EXCEPT ![key] = Ids(rhits[r])]
           \/ UNCHANGED cache
        /\ Return(r)
    BY <1>13 DEF CacheSet
  <2> HIDE DEF key
  <2>3. cache' \in [Key -> (SUBSET ChunkId) \cup {None}]
    BY <1>0, <2>1, <2>2 DEF ReaderTyped
  <2>4. QED
    BY <1>0, <2>2, <2>3, ReturnTyped
<1>14. CASE Answer(r) \/ ReaderFails(r)
  <2>1. Return(r) /\ cache' \in [Key -> (SUBSET ChunkId) \cup {None}]
    BY <1>0, <1>14 DEF Answer, ReaderFails, ReaderTyped
  <2>2. QED
    BY <1>0, <2>1, ReturnTyped
<1>15. QED
  BY <1>1, <1>2, <1>3, <1>4, <1>5, <1>6, <1>7, <1>8, <1>9, <1>10, <1>11, <1>12, <1>13, <1>14
     DEF ReaderStep

\* A reader changes nothing but its own side and the cache.
LEMMA ReaderFrame ==
    ASSUME NEW r \in Readers, ReaderStep(r)
    PROVE  UNCHANGED <<store, writer>>
BY DEF ReaderStep, ReadRevision, CacheGet, UseCached, Answer, VectorStep, KeywordStep, PreFilter,
       Seeds, WalkNodes, WalkEdges, Cite, Expand, PostFilter, CacheSet, ReaderFails

\* The same store has the same live chunks.
LEMMA SameLive == ASSUME UNCHANGED store PROVE Live' = Live
BY DEF store, Live, LiveDurable, LiveInMemory

\* And so has each collection.
LEMMA SameLiveIn == ASSUME UNCHANGED store, NEW c PROVE LiveIn(c)' = LiveIn(c)
BY SameLive DEF LiveIn

\* Every step of a reader keeps the store's invariant.
LEMMA ReaderKeepsStore ==
    ASSUME StoreInv, Watched, NEW r \in Readers, ReaderStep(r)
    PROVE  StoreInv'
<1>1. UNCHANGED <<store, writer>>
  BY ReaderFrame
<1>2. TypeOK
  BY DEF StoreInv
<1>3. ReaderTyped'
  BY <1>2, ReaderTypes
<1>4. TypeOK'
  BY <1>1, <1>2, <1>3 DEF TypeOK, ReaderTyped, store, writer
<1>5. QED
  BY <1>1, <1>4 DEF StoreInv, Numbered, WriterHolds, ChunksNamed, EmbeddingsAgree, store, writer

-----------------------------------------------------------------------------
(* What retrieve() returns *)

\* A change of the store is seen by every window that is open.
LEMMA WriterIsWatched ==
    ASSUME TypeOK, Watched, HitsWereLive, NEW w \in Writers, WriterStep(w)
    PROVE  Watched' /\ HitsWereLive'
<1>1. UNCHANGED reader
  BY DEF WriterStep, IngestRead, IngestPublish, WriterFails, Tombstone
<1>2. \A r \in Readers : /\ window[r] \subseteq window'[r]
                         /\ rpc[r] # "idle" => LiveIn(rcoll[r])' \in window'[r]
  <2>1. CASE UNCHANGED <<store, window>>
    <3>1. Live' = Live /\ rcoll' = rcoll
      BY <1>1, <2>1, SameLive DEF reader
    <3>2. QED
      BY <2>1, <3>1 DEF Watched, LiveIn
  <2>2. CASE Watch
    <3>1. \A r \in Readers : LiveIn(rcoll[r])' = Seen(r)
      BY <1>1 DEF LiveIn, Seen, reader
    <3>2. QED
      BY <2>2, <3>1 DEF Watch
  <2>3. QED
    BY <2>1, <2>2 DEF WriterStep, IngestRead, IngestPublish, WriterFails, Tombstone
<1>3. QED
  BY <1>1, <1>2 DEF Watched, HitsWereLive, Authorized, reader

\* A reader leaves other readers' calls alone.
LEMMA OtherReaders ==
    ASSUME ReaderTyped, NEW r \in Readers, ReaderStep(r), NEW q \in Readers, q # r
    PROVE  /\ rpc'[q] = rpc[q] /\ rwho'[q] = rwho[q] /\ rcoll'[q] = rcoll[q]
           /\ rkey'[q] = rkey[q] /\ rids'[q] = rids[q]
           /\ rhits'[q] = rhits[q] /\ window'[q] = window[q]
BY DEF ReaderTyped, ReaderStep, ReadRevision, CacheGet, UseCached, Answer, VectorStep, KeywordStep,
       PreFilter, Seeds, WalkNodes, WalkEdges, Cite, Expand, PostFilter, CacheSet, ReaderFails,
       Return, SetHits, Goto, asked

\* A reader's own step: it starts, it returns, it takes hits from one load, or it
\* leaves hits and window alone.
LEMMA ReaderMoves ==
    ASSUME ReaderTyped, NEW r \in Readers, ReaderStep(r)
    PROVE  \/ /\ rpc[r] = "idle" /\ rwho'[r] \in Principals /\ rcoll'[r] \in Collections
              /\ rkey'[r] = revision[rcoll'[r]] /\ rpc'[r] = "lookup"
              /\ rhits'[r] = rhits[r] /\ window'[r] = {LiveIn(rcoll'[r])}
           \/ rpc'[r] = "idle" /\ rhits'[r] = {}
           \/ /\ rpc[r] # "idle" /\ rpc'[r] # "idle" /\ UNCHANGED <<rwho, rcoll, rkey, window>>
              /\ \/ rhits'[r] \subseteq AuthorizedChunks(rcoll[r], rwho[r], rids[r])
                 \/ rhits'[r] = rhits[r]
<1>1. ASSUME NEW q \in Queries, ReadRevision(r, q[1], q[2])
      PROVE  /\ rpc[r] = "idle" /\ rwho'[r] \in Principals /\ rcoll'[r] \in Collections
             /\ rkey'[r] = revision[rcoll'[r]] /\ rpc'[r] = "lookup"
             /\ rhits'[r] = rhits[r] /\ window'[r] = {LiveIn(rcoll'[r])}
  <2>1. PICK p \in Principals, c \in Collections : ReadRevision(r, p, c)
    BY <1>1, KnowledgeConfig
  <2>2. /\ rpc[r] = "idle" /\ rwho'[r] = p /\ rcoll'[r] = c /\ rkey'[r] = revision[c]
        /\ rpc'[r] = "lookup" /\ rhits' = rhits /\ window'[r] = {LiveIn(c)}
    BY <2>1 DEF ReadRevision, Goto, ReaderTyped
  <2>3. QED
    BY <2>2
<1>2. CASE UseCached(r) \/ PostFilter(r)
  <2>1. rpc[r] # "idle" /\ rpc'[r] # "idle" /\ UNCHANGED <<rwho, rcoll, rkey, window>>
    BY <1>2 DEF UseCached, PostFilter, Goto, ReaderTyped, asked
  <2>2. \E hits \in SUBSET AuthorizedChunks(rcoll[r], rwho[r], rids[r]) : SetHits(r, hits)
    BY <1>2 DEF UseCached, PostFilter, Select
  <2>3. rhits'[r] \subseteq AuthorizedChunks(rcoll[r], rwho[r], rids[r])
    BY <2>2 DEF SetHits, ReaderTyped
  <2>4. QED
    BY <2>1, <2>3
<1>3. CASE Answer(r) \/ CacheSet(r) \/ ReaderFails(r)
  <2>1. rpc'[r] = "idle" /\ rhits'[r] = {}
    BY <1>3 DEF Answer, CacheSet, ReaderFails, Return, SetHits, Goto, ReaderTyped
  <2>2. QED
    BY <2>1
<1>4. CASE \/ CacheGet(r) \/ VectorStep(r) \/ KeywordStep(r) \/ PreFilter(r) \/ Seeds(r)
           \/ WalkNodes(r) \/ WalkEdges(r) \/ Cite(r) \/ Expand(r)
  <2>1. /\ rpc[r] # "idle" /\ rpc'[r] # "idle"
        /\ UNCHANGED <<rwho, rcoll, rkey, rhits, window>>
    BY <1>4 DEF CacheGet, VectorStep, KeywordStep, PreFilter, Seeds, WalkNodes, WalkEdges, Cite,
                Expand, Goto, ReaderTyped, asked
  <2>2. QED
    BY <2>1
<1>5. QED
  BY <1>1, <1>2, <1>3, <1>4 DEF ReaderStep

\* Hits come from one load of live chunks, filtered by collection and ACL.
LEMMA ReaderIsWatched ==
    ASSUME TypeOK, Watched, HitsWereLive, NEW r \in Readers, ReaderStep(r)
    PROVE  Watched' /\ HitsWereLive'
<1>1. ReaderTyped /\ TypeOK
  BY DEF TypeOK, ReaderTyped
<1>2. \A c : LiveIn(c)' = LiveIn(c)
  BY ReaderFrame, SameLiveIn
<1>3. IF rpc'[r] = "idle" THEN rhits'[r] = {}
      ELSE /\ rwho'[r] \in Principals
           /\ rcoll'[r] \in Collections
           /\ LiveIn(rcoll'[r]) \in window'[r]
           /\ rhits'[r] # {} => /\ \E snapshot \in window'[r] : rhits'[r] \subseteq snapshot
                                /\ \A k \in rhits'[r] : Authorized(k, rwho'[r])
  <2>1. CASE /\ rpc[r] = "idle" /\ rwho'[r] \in Principals /\ rcoll'[r] \in Collections
             /\ rpc'[r] = "lookup"
             /\ rhits'[r] = rhits[r] /\ window'[r] = {LiveIn(rcoll'[r])}
    BY <2>1 DEF Watched
  <2>2. CASE rpc'[r] = "idle" /\ rhits'[r] = {}
    BY <2>2
  <2>3. CASE /\ rpc[r] # "idle" /\ rpc'[r] # "idle" /\ UNCHANGED <<rwho, rcoll, rkey, window>>
             /\ \/ rhits'[r] \subseteq AuthorizedChunks(rcoll[r], rwho[r], rids[r])
                \/ rhits'[r] = rhits[r]
    <3>1. /\ rwho'[r] \in Principals /\ rcoll'[r] \in Collections
          /\ LiveIn(rcoll'[r]) \in window'[r]
      BY <2>3 DEF Watched
    <3>2. CASE rhits'[r] \subseteq AuthorizedChunks(rcoll[r], rwho[r], rids[r])
      <4>1. AuthorizedChunks(rcoll[r], rwho[r], rids[r]) \subseteq LiveIn(rcoll[r])
        BY <1>1, AnswersTyped
      <4>2. \A k \in rhits'[r] : Authorized(k, rwho[r])
        BY <3>2 DEF AuthorizedChunks
      <4>3. QED
        BY <2>3, <3>1, <3>2, <4>1, <4>2
    <3>3. CASE rhits'[r] = rhits[r]
      BY <2>3, <3>1, <3>3 DEF HitsWereLive
    <3>4. QED
      BY <2>3, <3>2, <3>3
  <2>4. QED
    BY <1>1, <2>1, <2>2, <2>3, ReaderMoves
<1>4. ASSUME NEW q \in Readers, q # r
      PROVE  /\ rpc'[q] = rpc[q] /\ rwho'[q] = rwho[q] /\ rcoll'[q] = rcoll[q]
             /\ rhits'[q] = rhits[q] /\ window'[q] = window[q]
  BY <1>1, <1>4, OtherReaders
<1>5. \A q \in Readers : LiveIn(rcoll[q])' = LiveIn(rcoll'[q])
  BY <1>2 DEF LiveIn
<1>6. Watched'
  BY <1>3, <1>4, <1>5 DEF Watched
<1>7. HitsWereLive'
  BY <1>3, <1>4 DEF HitsWereLive, Authorized
<1>8. QED
  BY <1>6, <1>7

-----------------------------------------------------------------------------
(* What the cache holds *)

\* The same live chunks of a collection give the same answers there.
LEMMA SameAnswers ==
    ASSUME NEW c, LiveIn(c)' = LiveIn(c), NEW p, NEW ids
    PROVE  /\ SearchVector(c, p)' = SearchVector(c, p)
           /\ SearchKeyword(c, p)' = SearchKeyword(c, p)
           /\ AuthorizedChunks(c, p, ids)' = AuthorizedChunks(c, p, ids)
<1>1. ListLiveChunks(c, p)' = ListLiveChunks(c, p)
  BY DEF ListLiveChunks, Authorized
<1>2. SearchVector(c, p)' = SearchVector(c, p) /\ SearchKeyword(c, p)' = SearchKeyword(c, p)
  BY <1>1 DEF SearchVector, SearchKeyword
<1>3. AuthorizedChunks(c, p, ids) = {k \in LiveIn(c) : Id(k) \in ids /\ Authorized(k, p)}
  BY DEF AuthorizedChunks, LoadChunks, LiveIn
<1>4. AuthorizedChunks(c, p, ids)' = {k \in LiveIn(c)' : Id(k) \in ids /\ Authorized(k, p)}
  BY DEF AuthorizedChunks, LoadChunks, LiveIn, Authorized, Id
<1>5. QED
  BY <1>2, <1>3, <1>4

\* In particular the same answers of retrieve().
LEMMA SameFresh ==
    ASSUME NEW c, LiveIn(c)' = LiveIn(c), NEW p
    PROVE  /\ Found(c, p)' = Found(c, p)
           /\ Answers(c, p)' = Answers(c, p)
<1>1. Found(c, p)' = Found(c, p)
  BY SameAnswers DEF Found, Fusion
<1>2. PICK found : found = Found(c, p)
  OBVIOUS
<1>3. \A ids : AuthorizedChunks(c, p, ids)' = AuthorizedChunks(c, p, ids)
  BY SameAnswers
<1>4. Answers(c, p) = UNION {Select(Ids(AuthorizedChunks(c, p, found \cup cited))) :
                                cited \in SUBSET Ids(LiveIn(c))}
  BY <1>2 DEF Answers
<1>5. Answers(c, p)' = UNION {Select(Ids(AuthorizedChunks(c, p, found \cup cited)')) :
                                 cited \in SUBSET Ids(LiveIn(c)')}
  BY <1>1, <1>2 DEF Answers
<1>6. QED
  BY <1>1, <1>3, <1>4, <1>5

\* Chunks have as many ids as there are chunks.
LEMMA AsManyIds ==
    ASSUME StoreInv, NEW ks \in SUBSET chunks
    PROVE  Cardinality(Ids(ks)) = Cardinality(ks)
<1> DEFINE f == [k \in ks |-> Id(k)]
<1>1. IsFiniteSet(ks)
  BY FS_Subset DEF StoreInv, ChunksNamed
<1>2. f \in Bijection(ks, Ids(ks))
  <2>1. f \in [ks -> Ids(ks)]
    BY DEF Ids
  <2>2. \A k, l \in ks : f[k] = f[l] => k = l
    BY DEF StoreInv, ChunksNamed
  <2>3. \A i \in Ids(ks) : \E k \in ks : f[k] = i
    BY DEF Ids
  <2>4. QED
    BY <2>1, <2>2, <2>3, Fun_IsBij
<1>3. ExistsBijection(ks, Ids(ks))
  BY <1>2 DEF ExistsBijection
<1>4. QED
  BY <1>1, <1>3, FS_Bijection

\* Choosing hits and taking their ids is choosing among the ids.
LEMMA SelectIds ==
    ASSUME StoreInv, NEW ks \in SUBSET chunks, NEW hits \in Select(ks)
    PROVE  Ids(hits) \in Select(Ids(ks))
<1>1. hits \subseteq ks /\ hits \in SUBSET chunks /\ Cardinality(hits) = Fitting(ks)
  BY DEF Select
<1>2. Ids(hits) \subseteq Ids(ks)
  BY <1>1 DEF Ids
<1>3. Cardinality(Ids(hits)) = Cardinality(hits) /\ Cardinality(Ids(ks)) = Cardinality(ks)
  BY <1>1, AsManyIds
<1>4. QED
  BY <1>1, <1>2, <1>3 DEF Select, Fitting

\* The last load of candidates that include what the searches found is an answer,
\* whatever the graph added to them.
LEMMA LoadedIsAnswer ==
    ASSUME NEW c, NEW p, NEW ids, Found(c, p) \subseteq ids
    PROVE  Select(Ids(AuthorizedChunks(c, p, ids))) \subseteq Answers(c, p)
<1> DEFINE ks == AuthorizedChunks(c, p, ids)
<1>1. ks = {k \in LiveIn(c) : Id(k) \in ids /\ Authorized(k, p)}
  BY DEF AuthorizedChunks, LoadChunks, LiveIn
<1>2. \A more : AuthorizedChunks(c, p, more)
                  = {k \in LiveIn(c) : Id(k) \in more /\ Authorized(k, p)}
  BY DEF AuthorizedChunks, LoadChunks, LiveIn
<1> HIDE DEF ks
<1>3. Ids(ks) \in SUBSET Ids(LiveIn(c))
  BY <1>1 DEF Ids
<1>4. \A i \in Ids(ks) : i \in ids
  BY <1>1 DEF Ids
<1>5. \A k \in ks : Id(k) \in Ids(ks)
  BY DEF Ids
<1>6. AuthorizedChunks(c, p, Found(c, p) \cup Ids(ks)) = ks
  BY <1>1, <1>2, <1>4, <1>5
<1>7. Select(Ids(AuthorizedChunks(c, p, Found(c, p) \cup Ids(ks)))) \subseteq Answers(c, p)
  BY <1>3 DEF Answers
<1>8. QED
  BY <1>6, <1>7 DEF ks

\* A change of one source is a change of its collection only.
LEMMA OneSource ==
    ASSUME TypeOK, NEW s \in Sources, NEW c, c # CollectionOf[s], durable' = durable,
           chunks' \subseteq Chunk,
           \A v \in Sources : v # s => docs'[v] = docs[v],
           \A k \in Chunk : k.source # s => (k \in chunks' <=> k \in chunks)
    PROVE  LiveIn(c)' = LiveIn(c)
<1>1. chunks \subseteq Chunk /\ \A k \in Chunk : k.source \in Sources
  BY DEF TypeOK, Chunk
<1>2. ASSUME NEW k \in Chunk, k.source # s PROVE k \in Live' <=> k \in Live
  <2>1. docs'[k.source] = docs[k.source] /\ (k \in chunks' <=> k \in chunks)
    BY <1>1, <1>2
  <2>2. QED
    BY <2>1 DEF Live, LiveDurable, LiveInMemory
<1>3. Live \subseteq Chunk /\ Live' \subseteq Chunk
  BY <1>1 DEF Live, LiveDurable, LiveInMemory
<1>4. \A k : CollectionOf[k.source] = c => k.source # s
  OBVIOUS
<1>5. QED
  BY <1>2, <1>3, <1>4 DEF LiveIn

\* A writer's step changes no live chunk, or those of one collection, whose
\* revision it advances.
LEMMA WriterChanges ==
    ASSUME StoreInv, NEW w \in Writers, WriterStep(w)
    PROVE  \/ UNCHANGED store
           \/ \E h \in Collections :
                /\ revision[h] < MaxRevision
                /\ revision' = [revision EXCEPT ![h] = revision[h] + 1]
                /\ \A c \in Collections : c # h => LiveIn(c)' = LiveIn(c)
<1>0. TypeOK
  BY DEF StoreInv
<1>1. CASE IngestPublish(w) /\ ~UNCHANGED store
  <2> DEFINE s == wdoc[w].source
             h == CollectionOf[s]
  <2>1. /\ wpc[w] = "publish" /\ ProfileAccepted(w) /\ ~RevisionTaken(w) /\ Publish(w)
        /\ revision[Home(w)] < MaxRevision
    BY <1>1 DEF IngestPublish, store
  <2>2. s \in Sources /\ h \in Collections /\ h = Home(w)
    BY <2>1, KnowledgeConfig DEF StoreInv, WriterHolds, Document, Home
  <2>3. /\ revision[h] < MaxRevision /\ durable' = durable
        /\ revision' = [revision EXCEPT ![h] = revision[h] + 1]
    BY <1>0, <2>1, <2>2 DEF Publish, TypeOK
  <2>4. chunks' \subseteq Chunk
    BY <2>1, PublishStep
  <2>5. \A v \in Sources : v # s => docs'[v] = docs[v]
    BY <1>0, <2>1, <2>2 DEF Publish, PublishDurable, PublishInMemory, TypeOK
  <2>6. \A k \in Chunk : k.source # s => (k \in chunks' <=> k \in chunks)
    <3>1. NewChunk(w).source = s
      BY DEF NewChunk
    <3>2. QED
      BY <2>1, <3>1 DEF Publish, PublishDurable, PublishInMemory
  <2> HIDE DEF s
  <2>7. \A c \in Collections : c # h => LiveIn(c)' = LiveIn(c)
    BY <1>0, <2>2, <2>3, <2>4, <2>5, <2>6, OneSource
  <2>8. QED
    BY <2>2, <2>3, <2>7
<1>2. ASSUME NEW s \in Sources, Tombstone(w, s)
      PROVE  \E h \in Collections :
                /\ revision[h] < MaxRevision
                /\ revision' = [revision EXCEPT ![h] = revision[h] + 1]
                /\ \A c \in Collections : c # h => LiveIn(c)' = LiveIn(c)
  <2> DEFINE h == CollectionOf[s]
  <2>1. /\ h \in Collections /\ revision[h] < MaxRevision /\ durable' = durable
        /\ revision' = [revision EXCEPT ![h] = revision[h] + 1] /\ chunks' = chunks
    BY <1>0, <1>2, KnowledgeConfig DEF Tombstone, TypeOK
  <2>2. \A v \in Sources : v # s => docs'[v] = docs[v]
    BY <1>0, <1>2 DEF Tombstone, TypeOK
  <2>3. chunks' \subseteq Chunk
    BY <1>0, <2>1 DEF TypeOK
  <2>4. \A c \in Collections : c # h => LiveIn(c)' = LiveIn(c)
    BY <1>0, <2>1, <2>2, <2>3, OneSource
  <2>5. QED
    BY <2>1, <2>4
<1>3. QED
  BY <1>1, <1>2 DEF WriterStep, IngestRead, WriterFails

\* A reader that does nothing stays on course while its collection is the same.
LEMMA SameCourse ==
    ASSUME NEW r \in Readers, OnCourse(r), NEW c, rcoll[r] = c, rcoll'[r] = c,
           LiveIn(c)' = LiveIn(c), revision'[c] = revision[c],
           rpc'[r] = rpc[r], rwho'[r] = rwho[r], rkey'[r] = rkey[r], rids'[r] = rids[r],
           rhits'[r] = rhits[r]
    PROVE  OnCourse(r)'
<1>1. PICK p : p = rwho[r]
  OBVIOUS
<1>2. /\ SearchVector(c, p)' = SearchVector(c, p) /\ Found(c, p)' = Found(c, p)
      /\ Answers(c, p)' = Answers(c, p)
  BY SameAnswers, SameFresh
<1>3. QED
  BY <1>1, <1>2 DEF OnCourse

\* A change of a collection leaves every key of it behind, and no other.
LEMMA WriterOutdates ==
    ASSUME StoreInv, Watched, CacheInv, NEW w \in Writers, WriterStep(w)
    PROVE  CacheInv'
<1>0. /\ TypeOK /\ revision \in [Collections -> 0 .. MaxRevision]
      /\ rkey \in [Readers -> 0 .. MaxRevision]
  BY DEF StoreInv, TypeOK
<1>1. UNCHANGED <<reader, cache>>
  BY DEF WriterStep, IngestRead, IngestPublish, WriterFails, Tombstone
<1>2. \A c \in Collections :
        \/ LiveIn(c)' = LiveIn(c) /\ revision'[c] = revision[c]
        \/ revision'[c] = revision[c] + 1 /\ revision'[c] \in 0 .. MaxRevision
  <2>1. CASE UNCHANGED store
    BY <2>1, SameLiveIn DEF store
  <2>2. ASSUME NEW h \in Collections, revision[h] < MaxRevision,
               revision' = [revision EXCEPT ![h] = revision[h] + 1],
               \A c \in Collections : c # h => LiveIn(c)' = LiveIn(c),
               NEW c \in Collections
        PROVE  \/ LiveIn(c)' = LiveIn(c) /\ revision'[c] = revision[c]
               \/ revision'[c] = revision[c] + 1 /\ revision'[c] \in 0 .. MaxRevision
    <3>1. revision'[c] = IF c = h THEN revision[c] + 1 ELSE revision[c]
      BY <1>0, <2>2
    <3>2. revision[h] + 1 \in 0 .. MaxRevision
      BY <1>0, <2>2, KnowledgeConfig
    <3>3. QED
      BY <2>2, <3>1, <3>2
  <2>3. QED
    BY <2>1, <2>2, WriterChanges
<1>3. \A c \in Collections : revision[c] \in Nat /\ revision'[c] \in Nat /\ revision[c] <= revision'[c]
  BY <1>0, <1>2
<1>4. KeysPast'
  <2>1. \A r \in Readers : rpc'[r] # "idle" => rkey'[r] <= revision'[rcoll'[r]]
    <3>1. \A r \in Readers : rpc[r] # "idle" =>
            rkey[r] \in Nat /\ rcoll[r] \in Collections /\ rkey[r] <= revision[rcoll[r]]
      BY <1>0 DEF Watched, CacheInv, KeysPast
    <3>2. QED
      BY <1>1, <1>3, <3>1 DEF reader
  <2>2. \A p \in Principals, c \in Collections, n \in 0 .. MaxRevision :
          cache'[<<p, c, n>>] # None => n <= revision'[c]
    BY <1>1, <1>3 DEF CacheInv, KeysPast
  <2>3. QED
    BY <2>1, <2>2 DEF KeysPast
<1>5. ASSUME NEW r \in Readers PROVE OnCourse(r)'
  <2>1. CASE rpc[r] = "idle"
    BY <1>1, <2>1 DEF OnCourse, reader
  <2>2. CASE rpc[r] # "idle"
    <3>1. PICK c \in Collections : rcoll[r] = c /\ rcoll'[r] = c
      BY <1>1, <2>2 DEF Watched, reader
    <3>2. CASE LiveIn(c)' = LiveIn(c) /\ revision'[c] = revision[c]
      <4>1. /\ rpc'[r] = rpc[r] /\ rwho'[r] = rwho[r] /\ rkey'[r] = rkey[r]
            /\ rids'[r] = rids[r] /\ rhits'[r] = rhits[r] /\ OnCourse(r)
        BY <1>1 DEF reader, CacheInv
      <4>2. QED
        BY <3>1, <3>2, <4>1, SameCourse
    <3>3. CASE revision'[c] = revision[c] + 1
      <4>1. rkey'[r] \in Nat /\ rkey'[r] <= revision[c] /\ revision[c] \in Nat
        BY <1>0, <1>1, <2>2, <3>1 DEF CacheInv, KeysPast, reader
      <4>2. rkey'[r] # revision'[rcoll'[r]]
        BY <3>1, <3>3, <4>1
      <4>3. QED
        BY <4>2 DEF OnCourse
    <3>4. QED
      BY <1>2, <3>2, <3>3
  <2>3. QED
    BY <2>1, <2>2
<1>6. ASSUME NEW p \in Principals, NEW c \in Collections, cache'[<<p, c, revision'[c]>>] # None
      PROVE  cache'[<<p, c, revision'[c]>>] \in Answers(c, p)'
  <2>1. CASE LiveIn(c)' = LiveIn(c) /\ revision'[c] = revision[c]
    <3>1. Answers(c, p)' = Answers(c, p)
      BY <2>1, SameFresh
    <3>2. cache[<<p, c, revision[c]>>] \in Answers(c, p)
      BY <1>1, <1>6, <2>1 DEF CacheInv, CacheMatchesSearches
    <3>3. QED
      BY <1>1, <2>1, <3>1, <3>2
  <2>2. CASE revision'[c] = revision[c] + 1 /\ revision'[c] \in 0 .. MaxRevision
    <3>1. revision'[c] <= revision[c]
      BY <1>1, <1>6, <2>2 DEF CacheInv, KeysPast
    <3>2. QED
      BY <1>3, <2>2, <3>1
  <2>3. QED
    BY <1>2, <2>1, <2>2
<1>7. CacheMatchesSearches'
  BY <1>6 DEF CacheMatchesSearches
<1>8. QED
  BY <1>4, <1>5, <1>7 DEF CacheInv

\* A reader's own step keeps it on course.
LEMMA ReaderOnCourse ==
    ASSUME StoreInv, NEW r \in Readers, OnCourse(r), ReaderStep(r)
    PROVE  OnCourse(r)'
<1>0. ReaderTyped /\ TypeOK
  BY DEF StoreInv, TypeOK, ReaderTyped
<1>1. revision' = revision
  BY ReaderFrame DEF store
<1>2. CASE rpc'[r] \in {"idle", "lookup", "cached", "answer", "vector"}
  BY <1>2 DEF OnCourse
<1>3. PICK p, c : p = rwho[r] /\ c = rcoll[r]
  OBVIOUS
<1>4. /\ SearchVector(c, p)' = SearchVector(c, p) /\ Found(c, p)' = Found(c, p)
      /\ Answers(c, p)' = Answers(c, p)
  <2>1. LiveIn(c)' = LiveIn(c)
    BY ReaderFrame, SameLiveIn
  <2>2. QED
    BY <2>1, SameAnswers, SameFresh
<1>5. CASE VectorStep(r)
  <2>1. rpc'[r] = "keyword" /\ rids'[r] = SearchVector(c, p) /\ rwho'[r] = p /\ rcoll'[r] = c
    BY <1>0, <1>3, <1>5 DEF VectorStep, Goto, ReaderTyped, asked
  <2>2. QED
    BY <1>4, <2>1 DEF OnCourse
<1>6. CASE KeywordStep(r)
  <2>1. /\ rpc[r] = "keyword" /\ rpc'[r] = "pre" /\ rwho'[r] = p /\ rcoll'[r] = c
        /\ rkey'[r] = rkey[r] /\ rids'[r] = Fusion(rids[r], SearchKeyword(c, p))
    BY <1>0, <1>3, <1>6 DEF KeywordStep, Goto, ReaderTyped, asked
  <2>2. rkey[r] = revision[c] => rids'[r] = Found(c, p)
    BY <1>3, <2>1 DEF OnCourse, Found
  <2>3. QED
    BY <1>1, <1>4, <2>1, <2>2 DEF OnCourse
<1>7. CASE PreFilter(r) \/ Seeds(r) \/ WalkNodes(r) \/ WalkEdges(r) \/ Cite(r)
  <2>1. /\ rpc[r] \in {"pre", "seeds", "walk", "edges", "cite"}
        /\ rpc'[r] \in {"seeds", "walk", "edges", "cite", "expand"}
        /\ rwho'[r] = p /\ rcoll'[r] = c /\ rkey'[r] = rkey[r] /\ rids'[r] = rids[r]
    BY <1>0, <1>3, <1>7 DEF PreFilter, Seeds, WalkNodes, WalkEdges, Cite, Goto, ReaderTyped, asked
  <2>2. rkey[r] = revision[c] => rids[r] = Found(c, p)
    BY <1>3, <2>1 DEF OnCourse
  <2>3. QED
    BY <1>1, <1>4, <2>1, <2>2 DEF OnCourse
<1>8. CASE Expand(r)
  <2>1. /\ rpc[r] = "expand" /\ rpc'[r] = "post" /\ rwho'[r] = p /\ rcoll'[r] = c
        /\ rkey'[r] = rkey[r] /\ rids[r] \subseteq rids'[r]
    BY <1>0, <1>3, <1>8 DEF Expand, Goto, ReaderTyped, asked
  <2>2. rkey[r] = revision[c] => rids[r] = Found(c, p)
    BY <1>3, <2>1 DEF OnCourse
  <2>3. QED
    BY <1>1, <1>4, <2>1, <2>2 DEF OnCourse
<1>9. CASE PostFilter(r)
  <2> DEFINE ks == AuthorizedChunks(c, p, rids[r])
  <2>1. /\ rpc[r] = "post" /\ rpc'[r] = "store" /\ rwho'[r] = p /\ rcoll'[r] = c
        /\ rkey'[r] = rkey[r] /\ rhits'[r] \in Select(ks)
    BY <1>0, <1>3, <1>9 DEF PostFilter, SetHits, Goto, ReaderTyped, asked
  <2>2. ks \in SUBSET chunks
    BY <1>0, AnswersTyped
  <2>3. Ids(rhits'[r]) \in Select(Ids(ks))
    BY <2>1, <2>2, SelectIds
  <2>4. rkey[r] = revision[c] => Found(c, p) \subseteq rids[r]
    BY <1>3, <2>1 DEF OnCourse
  <2>5. rkey[r] = revision[c] => Select(Ids(ks)) \subseteq Answers(c, p)
    BY <2>4, LoadedIsAnswer
  <2> HIDE DEF ks
  <2>6. rkey[r] = revision[c] => Ids(rhits'[r]) \in Answers(c, p)
    BY <2>3, <2>5
  <2>7. QED
    BY <1>1, <1>4, <2>1, <2>6 DEF OnCourse
<1>10. ASSUME NEW q, ReadRevision(r, q[1], q[2]) PROVE rpc'[r] = "lookup"
  BY <1>0, <1>10 DEF ReadRevision, Goto, ReaderTyped
<1>11. CASE CacheGet(r) \/ UseCached(r) \/ Answer(r) \/ CacheSet(r) \/ ReaderFails(r)
  BY <1>0, <1>2, <1>11 DEF CacheGet, UseCached, Answer, CacheSet, ReaderFails, Return, Goto,
                           ReaderTyped
<1>12. QED
  BY <1>2, <1>5, <1>6, <1>7, <1>8, <1>9, <1>10, <1>11 DEF ReaderStep

\* What a reader does to the cache.
LEMMA ReaderCaches ==
    ASSUME NEW r \in Readers, ReaderStep(r)
    PROVE  \/ cache' = cache
           \/ /\ rpc[r] \in {"lookup", "store"}
              /\ \E entry \in {None, Ids(rhits[r])} :
                   /\ cache' = [cache EXCEPT ![CacheKey(r)] = entry]
                   /\ entry # None => rpc[r] = "store"
<1>1. CASE CacheGet(r)
  BY <1>1 DEF CacheGet
<1>2. CASE CacheSet(r)
  BY <1>2 DEF CacheSet
<1>3. QED
  BY <1>1, <1>2 DEF ReaderStep, ReadRevision, UseCached, Answer, VectorStep, KeywordStep, PreFilter,
                    Seeds, WalkNodes, WalkEdges, Cite, Expand, PostFilter, ReaderFails

\* A reader stores only what is true under the key it stores it.
LEMMA ReaderKeepsCache ==
    ASSUME StoreInv, Watched, CacheInv, NEW r \in Readers, ReaderStep(r)
    PROVE  CacheInv'
<1>0. ReaderTyped /\ TypeOK
  BY DEF StoreInv, TypeOK, ReaderTyped
<1>1. revision' = revision /\ revision \in [Collections -> 0 .. MaxRevision]
  BY <1>0, ReaderFrame DEF store, TypeOK
<1>2. \A c : LiveIn(c)' = LiveIn(c)
  BY ReaderFrame, SameLiveIn
<1>3. ASSUME NEW q \in Readers PROVE OnCourse(q)'
  <2>1. OnCourse(q) /\ OnCourse(r)
    BY DEF CacheInv
  <2>2. CASE q = r
    BY <2>1, <2>2, ReaderOnCourse
  <2>3. CASE q # r
    <3>1. PICK c : c = rcoll[q]
      OBVIOUS
    <3>2. LiveIn(c)' = LiveIn(c) /\ revision'[c] = revision[c]
      BY <1>1, <1>2
    <3>3. QED
      BY <1>0, <2>1, <2>3, <3>1, <3>2, OtherReaders, SameCourse
  <2>4. QED
    BY <2>2, <2>3
<1>4. \A q \in Readers : rpc'[q] # "idle" => rkey'[q] <= revision'[rcoll'[q]]
  <2>1. rpc'[r] # "idle" => rkey'[r] <= revision'[rcoll'[r]]
    <3>1. CASE rcoll'[r] \in Collections /\ rkey'[r] = revision[rcoll'[r]]
      BY <1>1, <3>1
    <3>2. CASE rpc[r] # "idle" /\ UNCHANGED <<rcoll, rkey>>
      BY <1>1, <3>2 DEF CacheInv, KeysPast
    <3>3. QED
      BY <1>0, <3>1, <3>2, ReaderMoves
  <2>2. \A q \in Readers : q # r =>
          rpc'[q] = rpc[q] /\ rkey'[q] = rkey[q] /\ rcoll'[q] = rcoll[q]
    BY <1>0, OtherReaders
  <2>3. QED
    BY <1>1, <2>1, <2>2 DEF CacheInv, KeysPast
<1>5. \A p, c : Answers(c, p)' = Answers(c, p)
  BY <1>2, SameFresh
<1>6. CASE cache' = cache
  <2>1. CacheMatchesSearches'
    BY <1>1, <1>5, <1>6 DEF CacheInv, CacheMatchesSearches
  <2>2. QED
    BY <1>1, <1>3, <1>4, <1>6, <2>1 DEF CacheInv, KeysPast
<1>7. ASSUME NEW entry \in {None, Ids(rhits[r])}, rpc[r] \in {"lookup", "store"},
             entry # None => rpc[r] = "store",
             cache' = [cache EXCEPT ![CacheKey(r)] = entry]
      PROVE  CacheInv'
  <2>1. PICK p \in Principals, c \in Collections, n \in 0 .. MaxRevision :
          rwho[r] = p /\ rcoll[r] = c /\ rkey[r] = n
    BY <1>0, <1>7 DEF Watched, ReaderTyped
  <2>2. cache' = [cache EXCEPT ![<<p, c, n>>] = entry] /\ n <= revision[c]
    BY <1>7, <2>1 DEF CacheKey, CacheInv, KeysPast
  <2>3. \A q \in Principals, d \in Collections, m \in 0 .. MaxRevision :
          cache'[<<q, d, m>>] = IF q = p /\ d = c /\ m = n THEN entry ELSE cache[<<q, d, m>>]
    BY <1>0, <2>2 DEF ReaderTyped, Key
  <2>4. KeysPast'
    BY <1>1, <1>4, <2>2, <2>3 DEF CacheInv, KeysPast
  <2>5. entry # None /\ n = revision[c] => entry \in Answers(c, p)
    BY <1>7, <2>1 DEF CacheInv, OnCourse
  <2>6. ASSUME NEW q \in Principals, NEW d \in Collections, cache'[<<q, d, revision[d]>>] # None
        PROVE  cache'[<<q, d, revision[d]>>] \in Answers(d, q)
    BY <1>1, <2>3, <2>5, <2>6 DEF CacheInv, CacheMatchesSearches
  <2>7. CacheMatchesSearches'
    BY <1>1, <1>5, <2>6 DEF CacheMatchesSearches
  <2>8. QED
    BY <1>3, <2>4, <2>7 DEF CacheInv
<1>8. QED
  BY <1>6, <1>7, ReaderCaches

-----------------------------------------------------------------------------
(* The invariant and the theorems *)

\* Nothing stored, nobody running, at the start.
LEMMA InitIInv == Init => IInv
<1> SUFFICES ASSUME Init PROVE IInv
  OBVIOUS
<1> USE DEF Init
<1>1. TypeOK
  <2>1. /\ NoNodes \in [Entities -> SUBSET ChunkId] /\ "idle" \in Place
        /\ 0 \in 0 .. MaxRevision /\ durable \in BOOLEAN
    BY KnowledgeConfig DEF NoNodes, Place
  <2>2. QED
    BY <2>1 DEF TypeOK
<1>2. StoreInv
  BY <1>1, FS_EmptySet DEF StoreInv, Numbered, WriterHolds, ChunksNamed, EmbeddingsAgree
<1>3. Watched /\ HitsWereLive
  BY DEF Watched, HitsWereLive
<1>4. /\ \A p \in Principals, c \in Collections, n \in 0 .. MaxRevision :
           cache[<<p, c, n>>] = None
      /\ \A c \in Collections : revision[c] \in 0 .. MaxRevision
  BY KnowledgeConfig DEF Key
<1>5. KeysPast /\ CacheMatchesSearches
  BY <1>4, KnowledgeConfig DEF KeysPast, CacheMatchesSearches
<1>6. \A r \in Readers : OnCourse(r)
  BY DEF OnCourse
<1>7. QED
  BY <1>2, <1>3, <1>5, <1>6 DEF IInv, CacheInv

\* Every step keeps the invariant.
LEMMA StepIInv == IInv /\ [Next]_vars => IInv'
<1> SUFFICES ASSUME IInv, [Next]_vars PROVE IInv'
  OBVIOUS
<1>0. StoreInv /\ TypeOK /\ Watched /\ HitsWereLive /\ CacheInv
  BY DEF IInv, StoreInv
<1>1. ASSUME NEW w \in Writers, WriterStep(w) PROVE IInv'
  BY <1>0, <1>1, WriterKeepsStore, WriterIsWatched, WriterOutdates DEF IInv
<1>2. ASSUME NEW r \in Readers, ReaderStep(r) PROVE IInv'
  BY <1>0, <1>2, ReaderKeepsStore, ReaderIsWatched, ReaderKeepsCache DEF IInv
<1>3. CASE UNCHANGED vars
  <2>1. UNCHANGED <<store, cache, writer, reader, window>>
    BY <1>3 DEF vars
  <2>2. StoreInv'
    BY <1>0, <2>1 DEF StoreInv, TypeOK, Numbered, WriterHolds, ChunksNamed, EmbeddingsAgree,
                      store, writer, reader
  <2>3. Live' = Live /\ \A c : LiveIn(c)' = LiveIn(c)
    BY <2>1, SameLive, SameLiveIn
  <2>4. Watched' /\ HitsWereLive'
    BY <1>0, <2>1, <2>3 DEF Watched, HitsWereLive, Authorized, LiveIn, reader
  <2>5. ASSUME NEW r \in Readers PROVE OnCourse(r)'
    <3>1. PICK c : c = rcoll[r]
      OBVIOUS
    <3>2. /\ LiveIn(c)' = LiveIn(c) /\ revision'[c] = revision[c] /\ rcoll'[r] = c
          /\ rpc'[r] = rpc[r] /\ rwho'[r] = rwho[r] /\ rkey'[r] = rkey[r]
          /\ rids'[r] = rids[r] /\ rhits'[r] = rhits[r] /\ OnCourse(r)
      BY <1>0, <2>1, <2>3, <3>1 DEF store, reader, CacheInv
    <3>3. QED
      BY <3>1, <3>2, SameCourse
  <2>6. KeysPast'
    BY <1>0, <2>1 DEF CacheInv, KeysPast, store, reader
  <2>7. CacheMatchesSearches'
    <3>1. \A p, c : Answers(c, p)' = Answers(c, p)
      BY <2>3, SameFresh
    <3>2. QED
      BY <1>0, <2>1, <3>1 DEF CacheInv, CacheMatchesSearches, store
  <2>8. QED
    BY <2>2, <2>4, <2>5, <2>6, <2>7 DEF IInv, CacheInv
<1>4. QED
  BY <1>1, <1>2, <1>3 DEF Next

\* The invariant holds always.
LEMMA Invariance == Spec => []IInv
BY InitIInv, StepIInv, PTL DEF Spec

\* Type correctness of the knowledge runtime: in particular the revisions
\* readers and writers compute stay numbers, and every cached id is a chunk id.
THEOREM KnowledgeTypeCorrect == Spec => []TypeOK
<1>1. IInv => TypeOK
  BY DEF IInv, StoreInv
<1>2. QED
  BY <1>1, Invariance, PTL

\* HybridRetriever.retrieve: the hits were all live in the collection asked for at
\* one moment of the call, and open to who asked, whatever was published or deleted
\* meanwhile, there or elsewhere in the tenant.
THEOREM HitsAreLive == Spec => []HitsWereLive
<1>1. IInv => HitsWereLive
  BY DEF IInv
<1>2. QED
  BY <1>1, Invariance, PTL

\* The query cache: under the current revision of a collection it holds only live and
\* authorized chunks of it, and all that the searches find as far as they fit, whatever
\* happens to the tenant's graph.
THEOREM CacheFollowsSearches == Spec => []CacheMatchesSearches
<1>1. IInv => CacheMatchesSearches
  BY DEF IInv, CacheInv
<1>2. QED
  BY <1>1, Invariance, PTL

\* publish_revision: one collection never mixes embeddings of two profiles.
THEOREM OneEmbeddingProfile == Spec => []EmbeddingsAgree
<1>1. IInv => EmbeddingsAgree
  BY DEF IInv, StoreInv
<1>2. QED
  BY <1>1, Invariance, PTL

\* The primary key of knowledge_documents: a durable row is published only by
\* a writer that read the row it follows.
THEOREM PublishFollowsRead == Spec => NoStalePublish
<1> DEFINE Follows ==
      durable => \A s \in Sources : \A d \in docs'[s] \ docs[s] :
          d.tombstoned \/ \E w \in Writers : /\ wpc[w] = "publish"
                                             /\ wdoc[w].source = s
                                             /\ wread[w] = GetRevision(s)
<1>1. IInv /\ [Next]_vars => [Follows]_vars
  <2> SUFFICES ASSUME IInv, Next, durable, NEW s \in Sources, NEW d \in docs'[s] \ docs[s],
                      ~d.tombstoned
               PROVE  \E w \in Writers : /\ wpc[w] = "publish"
                                         /\ wdoc[w].source = s
                                         /\ wread[w] = GetRevision(s)
    BY DEF vars
  <2>0. StoreInv /\ docs \in [Sources -> SUBSET Row]
    BY DEF IInv, StoreInv, TypeOK
  <2>1. PICK w \in Writers : WriterStep(w)
    BY ReaderFrame DEF Next, store
  <2>2. \A v \in Sources : ~Tombstone(w, v)
    BY <2>0, TombstoneStep
  <2>3. wpc[w] = "publish" /\ ~RevisionTaken(w) /\ PublishDurable(w)
    BY <2>1, <2>2 DEF WriterStep, IngestRead, IngestPublish, WriterFails, Publish, store
  <2>4. wdoc[w].source = s
    BY <2>0, <2>3 DEF PublishDurable
  <2>5. wread[w] = GetRevision(s)
    BY <2>0, <2>3, <2>4, FreeRevisionIsNext
  <2>6. QED
    BY <2>3, <2>4, <2>5
<1>2. QED
  BY <1>1, Invariance, PTL DEF Spec, NoStalePublish
=============================================================================
