------------------------------ MODULE Knowledge ------------------------------
(***************************************************************************)
(* The knowledge runtime for the collections of one tenant: ingest() and   *)
(* tombstone() by concurrent writers, retrieve() by concurrent readers,    *)
(* over the PostgreSQL store (durable) or the in-memory store, with a      *)
(* query cache keyed by the collection and its revision.  Documents,       *)
(* chunks and profiles belong to a collection; the graph is the tenant's,  *)
(* so a publish into one collection changes what the walks of retrieve()   *)
(* in another one find, and leaves the other's revision as it is.          *)
(*                                                                         *)
(* A store method is one step (one transaction, one statement or one       *)
(* critical section); ingest() and retrieve() are sequences of them.  A    *)
(* document is reduced to its content digest and its ACL, a revision to    *)
(* one chunk.  All readers ask the same query; Near and Matching are the   *)
(* contents its two searches find, and the order of hits is a choice: any  *)
(* Limit of them are kept.                                                 *)
(***************************************************************************)
EXTENDS Integers, FiniteSets

CONSTANTS
    Writers, Readers,   \* calls of ingest()/tombstone() and of retrieve()
    Collections,        \* the tenant's collections
    Sources, CollectionOf, \* sources, by collection_id and source_id; their collections
    Contents,           \* content digests
    Principals, Everyone, \* who queries; the "*" of an ACL
    Queries,            \* who queries which collection
    Acls, Profiles,     \* the ACLs of documents; embedding profiles
    Documents,          \* what is ingested, each under a configured profile
    Entities, Extract,  \* node ids; the nodes and edges extracted from a content
    Near, Matching,     \* the contents the query's vector and keywords find
    MaxDepth, Limit,    \* graph_max_depth; max_context_chunks
    MaxRevision,        \* bound of the model on the revision of a collection
    Stores,             \* {TRUE} PostgreSQL, {FALSE} in memory, or both
    None

Items == Entities \cup (Entities \X Entities)

ASSUME KnowledgeConfig ==
    /\ Stores \subseteq BOOLEAN
    /\ MaxDepth \in Nat /\ Limit \in Nat \ {0} /\ MaxRevision \in Nat
    /\ CollectionOf \in [Sources -> Collections]
    /\ None \notin Profiles
    /\ Extract \in [Contents -> SUBSET Items]
    /\ Everyone \notin Principals
    /\ Queries \subseteq Principals \X Collections
    /\ Documents \subseteq [source : Sources, content : Contents, acl : Acls,
                            profile : Profiles]

VARIABLES
    durable,    \* which store this deployment uses
    docs,       \* docs[s]: the rows of source s (in memory: the last one only)
    chunks,     \* the stored chunks, each with the profile that embedded it
    graph,      \* graph[i]: provenance chunk ids of the tenant's node or edge i
    revision,   \* revision[c]: collection_revision of collection c
    profile,    \* profile[c]: its published embedding profile
    cache,      \* cache[<<p, c, n>>]: chunk ids cached for p in c at revision n
    wpc, wdoc, wread,           \* writers: place, argument, row read
    rpc, rwho, rcoll, rkey,     \* readers: place, principal, collection, its revision
    rids, rseeds, rnodes,       \* readers: candidate ids, graph seeds, visible nodes
    rextra, rhits,              \* readers: extra ids, hits
    window      \* history: the collection's live chunks during a retrieve() call

store == <<durable, docs, chunks, graph, revision, profile>>
writer == <<wpc, wdoc, wread>>
asked == <<rwho, rcoll, rkey>>
reader == <<rpc, rwho, rcoll, rkey, rids, rseeds, rnodes, rextra, rhits>>
vars == <<store, cache, writer, reader, window>>

Place == {"idle", "lookup", "cached", "answer", "vector", "keyword", "pre", "seeds",
          "walk", "edges", "cite", "expand", "post", "store"}
Row == [rev : Nat, content : Contents, acl : Acls, tombstoned : BOOLEAN]
Chunk == [source : Sources, rev : Nat, content : Contents, acl : Acls,
          profile : Profiles]
ChunkId == Sources \X Nat \X Contents
Key == Principals \X Collections \X (0 .. MaxRevision)
Document == [source : Sources, content : Contents, acl : Acls, profile : Profiles]

\* get_revision's None is told apart from every row.
ASSUME NoneIsNoRow == None \notin Row

\* chunk_id_for hashes collection, source, revision and text, not the ACL.
Id(k) == <<k.source, k.rev, k.content>>
Ids(ks) == {Id(k) : k \in ks}

-----------------------------------------------------------------------------
(* What the store's methods return.                                        *)

GetRevision(s) ==
    IF docs[s] = {} THEN None
    ELSE CHOOSE d \in docs[s] : \A e \in docs[s] : e.rev <= d.rev

\* The join of the SQL reads: chunks of the latest revision, if not tombstoned.
LiveDurable ==
    {k \in chunks : \E d \in docs[k.source] :
        /\ d.rev = k.rev /\ ~d.tombstoned
        /\ \A e \in docs[k.source] : e.rev <= d.rev}

\* _is_tombstoned of the in-memory store looks at the source, not the revision.
LiveInMemory ==
    {k \in chunks : \E d \in docs[k.source] : ~d.tombstoned}

Live == IF durable THEN LiveDurable ELSE LiveInMemory

Authorized(k, p) == p \in k.acl \/ Everyone \in k.acl

\* The live chunks of collection c, and those of them p may read.
LiveIn(c) == {k \in Live : CollectionOf[k.source] = c}
ListLiveChunks(c, p) == {k \in LiveIn(c) : Authorized(k, p)}
\* Mutant: load_chunks returns the stored rows without the join on live revisions.
LoadChunksAnyRevision(ids) == {k \in chunks : Id(k) \in ids}
LoadChunks(ids) == {k \in Live : Id(k) \in ids}
\* Mutant: the chunks are filtered by the ACL, and not by the collection asked for.
AuthorizedInTenant(c, p, ids) == {k \in LoadChunks(ids) : Authorized(k, p)}
AuthorizedChunks(c, p, ids) ==
    {k \in LoadChunks(ids) : CollectionOf[k.source] = c /\ Authorized(k, p)}
SearchVector(c, p) == Ids({k \in ListLiveChunks(c, p) : k.content \in Near})
SearchKeyword(c, p) == Ids({k \in ListLiveChunks(c, p) : k.content \in Matching})

\* Reciprocal rank fusion keeps every id of either list.
Fusion(ranked, others) == ranked \cup others

\* The nodes that come from one of the chunks: their last publisher was in the
\* collection of these chunks.
NodesForChunks(ids) == {e \in Entities : graph[e] \cap ids # {}}

\* The ids of all chunks of the tenant p may read.
TenantIds(p) == Ids({k \in Live : Authorized(k, p)})

\* A node or an edge is visible when some chunk it comes from is, in whatever
\* collection of the tenant.
Visible(p) == {i \in Items : graph[i] \cap TenantIds(p) # {}}

\* The visible nodes with their provenance, as traverse() reads them; {} otherwise.
VisibleNodes(p) == [e \in Entities |-> IF e \in Visible(p) THEN graph[e] ELSE {}]

\* The nodes at most MaxDepth edges away from a seed.
Reached(nodes, edges, seeds) ==
    LET reach[n \in 0 .. MaxDepth] ==
            IF n = 0 THEN seeds \cap nodes
            ELSE reach[n - 1] \cup
                 {f \in nodes : \E e \in reach[n - 1] : <<e, f>> \in edges}
    IN  reach[MaxDepth]

\* What bounded_walk may visit: the seeds, and of the nodes within reach as many
\* as graph_max_nodes lets it.
BoundedWalk(nodes, edges, seeds) ==
    {visited \in SUBSET nodes : /\ seeds \cap nodes \subseteq visited
                               /\ visited \subseteq Reached(nodes, edges, seeds)}

\* The provenance that gets a citation: chunks that are live, and in the in-memory
\* store authorized as well.
Citable(p) == IF durable THEN Ids(Live) ELSE TenantIds(p)

-----------------------------------------------------------------------------
(* ingest() and tombstone().                                               *)

NoNodes == [e \in Entities |-> {}]

Init ==
    /\ durable \in Stores
    /\ docs = [s \in Sources |-> {}]
    /\ chunks = {}
    /\ graph = [i \in Items |-> {}]
    /\ revision = [c \in Collections |-> 0]
    /\ profile = [c \in Collections |-> None]
    /\ cache = [k \in Key |-> None]
    /\ wpc = [w \in Writers |-> "idle"]
    /\ wdoc = [w \in Writers |-> None]
    /\ wread = [w \in Writers |-> None]
    /\ rpc = [r \in Readers |-> "idle"]
    /\ rwho = [r \in Readers |-> None]
    /\ rcoll = [r \in Readers |-> None]
    /\ rkey = [r \in Readers |-> 0]
    /\ rids = [r \in Readers |-> {}]
    /\ rseeds = [r \in Readers |-> {}]
    /\ rnodes = [r \in Readers |-> NoNodes]
    /\ rextra = [r \in Readers |-> {}]
    /\ rhits = [r \in Readers |-> {}]
    /\ window = [r \in Readers |-> {}]

\* The revision ingest() will publish, from the row it read.
NextRevision(w) == IF wread[w] = None THEN 1 ELSE wread[w].rev + 1

\* "ingested": the last call of ingest() returned published=True.
Ready(w) == wpc[w] \in {"idle", "ingested"}

\* The same document again: nothing is published.
Unchanged(d, row) ==
    /\ row # None
    /\ ~row.tombstoned
    /\ row.content = d.content
    /\ row.acl = d.acl

\* ingest() reads the revision, and the profile, before it embeds.
IngestRead(w, d) ==
    /\ Ready(w)
    /\ LET row == GetRevision(d.source) IN
       IF Unchanged(d, row)
       THEN /\ wpc' = [wpc EXCEPT ![w] = "ingested"]
            /\ UNCHANGED <<wdoc, wread>>
       ELSE /\ profile[CollectionOf[d.source]] \in {None, d.profile} \* _require_profile
            /\ wpc' = [wpc EXCEPT ![w] = "publish"]
            /\ wdoc' = [wdoc EXCEPT ![w] = d]
            /\ wread' = [wread EXCEPT ![w] = row]
    /\ UNCHANGED <<store, cache, reader, window>>

Home(w) == CollectionOf[wdoc[w].source]
NewRow(w) == [rev |-> NextRevision(w), content |-> wdoc[w].content,
              acl |-> wdoc[w].acl, tombstoned |-> FALSE]
NewChunk(w) == [source |-> wdoc[w].source, rev |-> NextRevision(w),
                content |-> wdoc[w].content, acl |-> wdoc[w].acl,
                profile |-> wdoc[w].profile]

\* Mutant: only the check before the embedding is left.
ProfileCheckedEarlier(w) == TRUE
\* The profile is compared again under the collection lock.
ProfileAccepted(w) == profile[Home(w)] \in {None, wdoc[w].profile}

\* The transaction finds the content already live and writes nothing.
AlreadyPublished(w) ==
    LET row == GetRevision(wdoc[w].source)
    IN  durable /\ row # None /\ ~row.tombstoned /\ row.content = wdoc[w].content

\* Mutant: the insert updates the row on conflict.
RevisionOverwritten(w) == FALSE
\* INSERT violates the primary key: another writer used the revision.
RevisionTaken(w) ==
    durable /\ \E d \in docs[wdoc[w].source] : d.rev = NextRevision(w)

\* _insert_node, _insert_edge: ids are the tenant's, and the last chunk a node comes
\* from replaces the others, those of other collections too.
Upsert(items, id) == [i \in Items |-> IF i \in items THEN {id} ELSE graph[i]]

\* The in-memory store replaces the source's row and chunk, whatever they are.
PublishInMemory(w) ==
    /\ docs' = [docs EXCEPT ![wdoc[w].source] = {NewRow(w)}]
    /\ chunks' = {k \in chunks : k.source # wdoc[w].source} \cup {NewChunk(w)}

\* The durable store adds to them.
PublishDurable(w) ==
    /\ docs' = [docs EXCEPT ![wdoc[w].source] =
                   {d \in @ : d.rev # NextRevision(w)} \cup {NewRow(w)}]
    /\ chunks' = chunks \cup {NewChunk(w)}

Publish(w) ==
    /\ IF durable THEN PublishDurable(w) ELSE PublishInMemory(w)
    /\ graph' = Upsert(Extract[wdoc[w].content], Id(NewChunk(w)))
    /\ profile' = [profile EXCEPT ![Home(w)] = wdoc[w].profile]
    /\ revision' = [revision EXCEPT ![Home(w)] = @ + 1]
    /\ UNCHANGED durable

Finish(w, outcome) ==
    /\ wpc' = [wpc EXCEPT ![w] = outcome]
    /\ wdoc' = [wdoc EXCEPT ![w] = None]
    /\ wread' = [wread EXCEPT ![w] = None]

\* The step is seen by the calls of retrieve() that are under way.
Seen(r) == {k \in Live' : CollectionOf[k.source] = rcoll[r]}
Watch == window' = [r \in Readers |-> IF rpc[r] = "idle" THEN window[r]
                                      ELSE window[r] \cup {Seen(r)}]

\* publish_revision: one transaction.  The answer to a commit may be lost.
IngestPublish(w) ==
    /\ wpc[w] = "publish"
    /\ ProfileAccepted(w)
    /\ revision[Home(w)] < MaxRevision
    /\ \/ /\ AlreadyPublished(w)
          /\ Finish(w, "ingested")
          /\ UNCHANGED <<store, window>>
       \/ /\ ~AlreadyPublished(w)
          /\ ~RevisionTaken(w)
          /\ Publish(w)
          /\ \E outcome \in {"ingested", "idle"} : Finish(w, outcome)
          /\ Watch
    /\ UNCHANGED <<cache, reader>>

\* The embedding fails, the profile or the key is refused, or the transaction
\* rolls back: ingest() raises.
WriterFails(w) ==
    /\ ~Ready(w)
    /\ Finish(w, "idle")
    /\ UNCHANGED <<store, cache, reader, window>>

Tombstoned(row) == [row EXCEPT !.rev = @ + 1, !.tombstoned = TRUE]

\* tombstone() reads that the source exists, which stays so, and the store's
\* transaction adds the tombstone to whatever row is the latest by then.
Tombstone(w, s) ==
    /\ Ready(w)
    /\ docs[s] # {}
    /\ revision[CollectionOf[s]] < MaxRevision
    /\ LET row == GetRevision(s) IN
       docs' = [docs EXCEPT ![s] =
                   (IF durable THEN @ ELSE {}) \cup {Tombstoned(row)}]
    /\ revision' = [revision EXCEPT ![CollectionOf[s]] = @ + 1]
    /\ UNCHANGED <<durable, chunks, graph, profile>>
    /\ Finish(w, "idle")
    /\ Watch
    /\ UNCHANGED <<cache, reader>>

-----------------------------------------------------------------------------
(* retrieve().                                                             *)

Goto(r, place) == rpc' = [rpc EXCEPT ![r] = place]

\* The revision of the cache key is read before anything else.
ReadRevision(r, p, c) ==
    /\ rpc[r] = "idle"
    /\ Goto(r, "lookup")
    /\ rwho' = [rwho EXCEPT ![r] = p]
    /\ rcoll' = [rcoll EXCEPT ![r] = c]
    /\ rkey' = [rkey EXCEPT ![r] = revision[c]]
    /\ window' = [window EXCEPT ![r] = {LiveIn(c)}]
    /\ UNCHANGED <<store, cache, writer, rids, rseeds, rnodes, rextra, rhits>>

\* The key of the cache entry: who asks, of which collection, and the revision
\* read at the start.
CacheKey(r) == <<rwho[r], rcoll[r], rkey[r]>>

\* A failing cache is a miss; so is an entry whose time to live has passed, and
\* looking it up removes it.
CacheGet(r) ==
    /\ rpc[r] = "lookup"
    /\ LET key == CacheKey(r) IN
       \/ /\ cache[key] # None
          /\ rids' = [rids EXCEPT ![r] = cache[key]]
          /\ Goto(r, "cached")
          /\ UNCHANGED cache
       \/ /\ Goto(r, "vector")
          /\ cache' \in {cache, [cache EXCEPT ![key] = None]}
          /\ UNCHANGED rids
    /\ UNCHANGED <<store, writer, asked, rseeds, rnodes, rextra, rhits, window>>

\* The hits are final, and the ids they came from are dropped.
SetHits(r, hits) ==
    /\ rhits' = [rhits EXCEPT ![r] = hits]
    /\ rids' = [rids EXCEPT ![r] = {}]
    /\ rextra' = [rextra EXCEPT ![r] = {}]

\* The call ends, with its hits or an exception, and its local state is gone.
Return(r) ==
    /\ Goto(r, "idle")
    /\ rwho' = [rwho EXCEPT ![r] = None]
    /\ rcoll' = [rcoll EXCEPT ![r] = None]
    /\ rkey' = [rkey EXCEPT ![r] = 0]
    /\ rseeds' = [rseeds EXCEPT ![r] = {}]
    /\ rnodes' = [rnodes EXCEPT ![r] = NoNodes]
    /\ SetHits(r, {})
    /\ window' = [window EXCEPT ![r] = {}]

\* Cached ids are loaded and filtered again.
UseCached(r) ==
    /\ rpc[r] = "cached"
    /\ SetHits(r, AuthorizedChunks(rcoll[r], rwho[r], rids[r]))
    /\ Goto(r, "answer")
    /\ UNCHANGED <<store, cache, writer, asked, rseeds, rnodes, window>>

\* The budget is applied to cached hits, which returns them.
Answer(r) ==
    /\ rpc[r] = "answer"
    /\ Return(r)
    /\ UNCHANGED <<store, cache, writer>>

VectorStep(r) ==
    /\ rpc[r] = "vector"
    /\ rids' = [rids EXCEPT ![r] = SearchVector(rcoll[r], rwho[r])]
    /\ Goto(r, "keyword")
    /\ UNCHANGED <<store, cache, writer, asked, rseeds, rnodes, rextra, rhits, window>>

KeywordStep(r) ==
    /\ rpc[r] = "keyword"
    /\ rids' = [rids EXCEPT ![r] = Fusion(@, SearchKeyword(rcoll[r], rwho[r]))]
    /\ Goto(r, "pre")
    /\ UNCHANGED <<store, cache, writer, asked, rseeds, rnodes, rextra, rhits, window>>

\* acl_pre, then nodes_for_chunks of what is left.
PreFilter(r) ==
    /\ rpc[r] = "pre"
    /\ rextra' = [rextra EXCEPT ![r] =
                      Ids(AuthorizedChunks(rcoll[r], rwho[r], rids[r]))]
    /\ Goto(r, "seeds")
    /\ UNCHANGED <<store, cache, writer, asked, rids, rseeds, rnodes, rhits, window>>

Seeds(r) ==
    /\ rpc[r] = "seeds"
    /\ rseeds' = [rseeds EXCEPT ![r] = NodesForChunks(rextra[r])]
    /\ Goto(r, "walk")
    /\ UNCHANGED <<store, cache, writer, asked, rids, rnodes, rextra, rhits, window>>

\* traverse() reads the visible nodes, then the visible edges between them and walks
\* from the seeds, then loads the chunks its citations name.
WalkNodes(r) ==
    /\ rpc[r] = "walk"
    /\ rnodes' = [rnodes EXCEPT ![r] = VisibleNodes(rwho[r])]
    /\ Goto(r, "edges")
    /\ UNCHANGED <<store, cache, writer, asked, rids, rseeds, rextra, rhits, window>>

WalkEdges(r) ==
    /\ rpc[r] = "edges"
    /\ LET nodes == {e \in Entities : rnodes[r][e] # {}} IN
       \E visited \in BoundedWalk(nodes, Visible(rwho[r]), rseeds[r]) :
           rextra' = [rextra EXCEPT ![r] = UNION {rnodes[r][e] : e \in visited}]
    /\ rseeds' = [rseeds EXCEPT ![r] = {}]
    /\ rnodes' = [rnodes EXCEPT ![r] = NoNodes]
    /\ Goto(r, "cite")
    /\ UNCHANGED <<store, cache, writer, asked, rids, rhits, window>>

Cite(r) ==
    /\ rpc[r] = "cite"
    /\ rextra' = [rextra EXCEPT ![r] = @ \cap Citable(rwho[r])]
    /\ Goto(r, "expand")
    /\ UNCHANGED <<store, cache, writer, asked, rids, rseeds, rnodes, rhits, window>>

Expand(r) ==
    /\ rpc[r] = "expand"
    /\ rids' = [rids EXCEPT ![r] =
                    @ \cup Ids(AuthorizedChunks(rcoll[r], rwho[r], rextra[r]))]
    /\ Goto(r, "post")
    /\ UNCHANGED <<store, cache, writer, asked, rseeds, rnodes, rextra, rhits, window>>

\* select_diverse, top_k and the budget keep some of the chunks, as many as fit.
Fitting(ks) == IF Cardinality(ks) < Limit THEN Cardinality(ks) ELSE Limit
Select(ks) == {hits \in SUBSET ks : Cardinality(hits) = Fitting(ks)}

\* The last load, acl_post and the selection.
PostFilter(r) ==
    /\ rpc[r] = "post"
    /\ LET found == AuthorizedChunks(rcoll[r], rwho[r], rids[r])
       IN  \E hits \in Select(found) : SetHits(r, hits)
    /\ Goto(r, "store")
    /\ UNCHANGED <<store, cache, writer, asked, rseeds, rnodes, window>>

\* Mutant: the key is computed from the revision at the time of the set.
CacheSetLate(r) ==
    /\ rpc[r] = "store"
    /\ LET key == <<rwho[r], rcoll[r], revision[rcoll[r]]>>
       IN  cache' = [cache EXCEPT ![key] = Ids(rhits[r])]
    /\ Return(r)
    /\ UNCHANGED <<store, writer>>

\* cache.set, whose failure is suppressed, and the return of the hits.
CacheSet(r) ==
    /\ rpc[r] = "store"
    /\ \/ cache' = [cache EXCEPT ![CacheKey(r)] = Ids(rhits[r])]
       \/ UNCHANGED cache
    /\ Return(r)
    /\ UNCHANGED <<store, writer>>

\* KNOWLEDGE_UNAVAILABLE: the store fails a read and retrieve() raises.
ReaderFails(r) ==
    /\ rpc[r] \notin {"idle", "answer", "store"}
    /\ Return(r)
    /\ UNCHANGED <<store, cache, writer>>

WriterStep(w) ==
    \/ \E d \in Documents : IngestRead(w, d)
    \/ \E s \in Sources : Tombstone(w, s)
    \/ IngestPublish(w) \/ WriterFails(w)

ReaderStep(r) ==
    \/ \E q \in Queries : ReadRevision(r, q[1], q[2])
    \/ CacheGet(r) \/ UseCached(r) \/ Answer(r) \/ VectorStep(r) \/ KeywordStep(r)
    \/ PreFilter(r) \/ Seeds(r) \/ WalkNodes(r) \/ WalkEdges(r) \/ Cite(r)
    \/ Expand(r) \/ PostFilter(r) \/ CacheSet(r) \/ ReaderFails(r)

Next ==
    \/ \E w \in Writers : WriterStep(w)
    \/ \E r \in Readers : ReaderStep(r)

Spec == Init /\ [][Next]_vars

-----------------------------------------------------------------------------
(* Properties.                                                             *)

TypeOK ==
    /\ durable \in BOOLEAN
    /\ docs \in [Sources -> SUBSET Row]
    /\ chunks \subseteq Chunk
    /\ graph \in [Items -> SUBSET ChunkId]
    /\ revision \in [Collections -> 0 .. MaxRevision]
    /\ profile \in [Collections -> Profiles \cup {None}]
    /\ cache \in [Key -> (SUBSET ChunkId) \cup {None}]
    /\ wpc \in [Writers -> {"idle", "ingested", "publish"}]
    /\ wdoc \in [Writers -> Document \cup {None}]
    /\ wread \in [Writers -> Row \cup {None}]
    /\ rpc \in [Readers -> Place]
    /\ rwho \in [Readers -> Principals \cup {None}]
    /\ rcoll \in [Readers -> Collections \cup {None}]
    /\ rkey \in [Readers -> 0 .. MaxRevision]
    /\ rids \in [Readers -> SUBSET ChunkId]
    /\ rseeds \in [Readers -> SUBSET Entities]
    /\ rnodes \in [Readers -> [Entities -> SUBSET ChunkId]]
    /\ rextra \in [Readers -> SUBSET ChunkId]
    /\ rhits \in [Readers -> SUBSET Chunk]
    /\ window \in [Readers -> SUBSET SUBSET Chunk]

\* What retrieve() returns was all live together in the collection asked for, at
\* one moment of the call, and open to the principal: no mix of two revisions,
\* nothing tombstoned before the call and nothing of another collection, although the
\* ids come from a cache, two searches and the tenant's graph, read at different
\* moments (HybridRetriever.retrieve, _authorized_chunks, load_chunks).
HitsWereLive ==
    \A r \in Readers :
        rhits[r] # {} => /\ \E snapshot \in window[r] : rhits[r] \subseteq snapshot
                         /\ \A k \in rhits[r] : Authorized(k, rwho[r])

\* What the two searches find when nothing interferes.
Found(c, p) == Fusion(SearchVector(c, p), SearchKeyword(c, p))

\* The answers retrieve() could give now, for some outcome of the graph expansion.
Answers(c, p) ==
    UNION {Select(Ids(AuthorizedChunks(c, p, Found(c, p) \cup cited))) :
              cited \in SUBSET Ids(LiveIn(c))}

\* A cache entry under the current revision of its collection names only chunks that
\* are live there and open to the principal, and leaves out what the searches find now
\* only when it is full, however searches, publishes and cache writes interleaved: the
\* revision of the key is read before the search (HybridRetriever.retrieve).  Which
\* chunks the graph added is not said: a publish into another collection changes the
\* graph and outdates no entry of this one.
CacheMatchesSearches ==
    \A p \in Principals, c \in Collections :
        LET entry == cache[<<p, c, revision[c]>>]
        IN  entry # None => entry \in Answers(c, p)

\* Every stored embedding belongs to its collection's one profile, although writers
\* with another configuration pass the first check together (_require_profile,
\* publish_revision).
EmbeddingsAgree == \A k \in chunks : k.profile = profile[CollectionOf[k.source]]

\* In the durable store a document row is added only by a writer that saw the row
\* it follows: an ingest() that read before another publish or a tombstone can
\* neither overwrite nor resurrect the source (primary key of knowledge_documents).
NoStalePublish ==
    [][durable => \A s \in Sources : \A d \in docs'[s] \ docs[s] :
          d.tombstoned \/ \E w \in Writers :
              /\ wpc[w] = "publish"
              /\ wdoc[w].source = s
              /\ wread[w] = GetRevision(s)]_vars

\* "A changed source creates a new revision" (docs/knowledge-runtime.md): when
\* ingest() reports a revision as published, the durable store holds it.
PublishedIsStored ==
    [][\A w \in Writers :
          durable /\ wpc[w] = "publish" /\ wpc'[w] = "ingested" =>
              NewRow(w) \in docs'[wdoc[w].source]]_vars

=============================================================================
