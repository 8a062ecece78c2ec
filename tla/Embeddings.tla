------------------------------ MODULE Embeddings ------------------------------
(***************************************************************************)
(* Who gives a memory item its vector, and what recall does with it.       *)
(*                                                                         *)
(* agent/memory/embeddings.py (embed_and_cache, used by observe(node) for  *)
(* a document and by recall(node) for a query) and the Lambda              *)
(* workers/embedding_backfill/handler.py share one table, embedding_cache, *)
(* keyed by a hash of the text AND the input type.  A row also names the   *)
(* model; a row of another model is a miss, but keeps its key: both sides  *)
(* INSERT ... ON CONFLICT DO NOTHING.  Rows expire after 180 days.         *)
(*                                                                         *)
(* Every statement of the two is a transaction of its own.                 *)
(***************************************************************************)
EXTENDS Naturals, FiniteSets

CONSTANTS
    Text,          \* contents of memory items
    QueryText,     \* those that are normalized texts of watched queries
    Model,         \* embedding models: every one a vector space of its own
    MODEL_ID,      \* the model configured now, the same for agent and backfill
    Item,          \* rows memory_items may come to hold
    ContentOf,     \* their content
    NoVector,      \* an embedding that IS NULL, a cache miss
    Caller,        \* runs of observe(node) and recall(node)
    Filler,        \* containers of embedding_backfill
    MAX_RETRIES,   \* posts to Cohere per embed call of the agent
    MAX_BATCH,     \* texts per post of the backfill
    RowLimit,      \* DEFAULT_ROW_LIMIT of the backfill
    AnnLimit,      \* DEFAULT_LIMIT of recall(node)
    MaxFaults      \* bound: failures of the backfill

InputType == {"search_document", "search_query"}

Vector == [text: Text, type: InputType, model: Model]

ASSUME EmbeddingsAssumption ==
    /\ QueryText \subseteq Text /\ Text # {}
    /\ MODEL_ID \in Model
    /\ ContentOf \in [Item -> Text]
    /\ NoVector \notin Vector
    /\ IsFiniteSet(Item)
    /\ MAX_RETRIES \in Nat \ {0} /\ MAX_BATCH \in Nat \ {0}
    /\ RowLimit \in Nat \ {0} /\ AnnLimit \in Nat \ {0}
    /\ MaxFaults \in Nat

VARIABLES
    cache,     \* embedding_cache, by the key _content_hash computes
    stored,    \* the rows of memory_items
    vector,    \* their embedding
    call,      \* a run of embed_and_cache, and what its node does with it
    fill,      \* an invocation of the backfill
    faults     \* its failures so far

vars == <<cache, stored, vector, call, fill, faults>>

-----------------------------------------------------------------------------
(* Keys and vectors.                                                        *)

Hash == Text \X InputType

\* Fault: a hash of the text alone.
ContentHashFault(text, type) == <<text, "search_document">>

\* _content_hash, in both processes: f"{input_type}:{text}"
ContentHash(text, type) == <<text, type>>

\* What Cohere answers under a model.
Embed(text, type, model) == [text |-> text, type |-> type, model |-> model]

\* Fault: a row of any model is a hit.
HitFault(h, model) == cache[h] # NoVector

\* A hit is a row of the asked model.
Hit(h, model) == cache[h] # NoVector /\ cache[h].model = model

\* insert_embedding_cache: ON CONFLICT (content_sha256) DO NOTHING
CacheInsert(h, vec) ==
    cache' = IF cache[h] = NoVector THEN [cache EXCEPT ![h] = vec] ELSE cache

\* Fault: the listing forgets embedding IS NULL.
MissingFault == stored

Missing == {i \in stored : vector[i] = NoVector}

-----------------------------------------------------------------------------
(* The agent: embed_and_cache for one text, then the node's use of it.      *)

Call == [pc: {"idle", "lookup", "post", "store", "use"}, text: Text,
         type: InputType, attempt: 0 .. MAX_RETRIES,
         vec: Vector \cup {NoVector}, found: SUBSET Item]

NoCall == [pc |-> "idle", text |-> CHOOSE t \in Text : TRUE,
           type |-> "search_document", attempt |-> 0, vec |-> NoVector,
           found |-> {}]

CallBecomes(c, r) == call' = [call EXCEPT ![c] = r]

\* observe(node) embeds a document, recall(node) a query, of the same text.
Ask(c) ==
    /\ call[c].pc = "idle"
    /\ \E text \in QueryText, type \in InputType :
         CallBecomes(c, [NoCall EXCEPT !.pc = "lookup", !.text = text, !.type = type])
    /\ UNCHANGED <<cache, stored, vector, fill, faults>>

LookUp(c) ==
    LET h == ContentHash(call[c].text, call[c].type)
    IN  /\ call[c].pc = "lookup"
        /\ CallBecomes(c, IF Hit(h, MODEL_ID)
                          THEN [call[c] EXCEPT !.pc = "use", !.vec = cache[h]]
                          ELSE [call[c] EXCEPT !.pc = "post", !.attempt = 1])
        /\ UNCHANGED <<cache, stored, vector, fill, faults>>

\* CohereEmbeddings.embed: an answer of the right width.
PostAnswers(c) ==
    /\ call[c].pc = "post"
    /\ CallBecomes(c, [call[c] EXCEPT !.pc = "store",
            !.vec = Embed(call[c].text, call[c].type, MODEL_ID)])
    /\ UNCHANGED <<cache, stored, vector, fill, faults>>

\* A transport error, 429 or 5xx is retried while attempts are left.
PostRetries(c) ==
    /\ call[c].pc = "post" /\ call[c].attempt < MAX_RETRIES
    /\ CallBecomes(c, [call[c] EXCEPT !.attempt = @ + 1])
    /\ UNCHANGED <<cache, stored, vector, fill, faults>>

StoreVector(c) ==
    /\ call[c].pc = "store"
    /\ CacheInsert(ContentHash(call[c].text, call[c].type), call[c].vec)
    /\ CallBecomes(c, [call[c] EXCEPT !.pc = "use"])
    /\ UNCHANGED <<stored, vector, fill, faults>>

\* Any error, the last attempt's and a wrong width among them, leaves the node.
CallRaises(c) ==
    /\ call[c].pc \notin {"idle"}
    /\ CallBecomes(c, NoCall)
    /\ UNCHANGED <<cache, stored, vector, fill, faults>>

\* observe(node): insert_memory_item(class 'query_fingerprint'), at every sweep.
InsertFingerprint(c) ==
    /\ call[c].pc = "use" /\ call[c].type = "search_document"
    /\ \E i \in Item \ stored :
         /\ ContentOf[i] = call[c].text
         /\ stored' = stored \cup {i}
         /\ vector' = [vector EXCEPT ![i] = call[c].vec]
    /\ CallBecomes(c, NoCall)
    /\ UNCHANGED <<cache, fill, faults>>

\* The order of <=>: a copy of the query is nearer than anything else.
Nearer(text, i, j) == ContentOf[i] = text /\ ContentOf[j] # text

Rankable == {i \in stored : vector[i] # NoVector}

\* recall_ann: ORDER BY embedding <=> $vec LIMIT, of whatever class.
Nearest(text, found) ==
    /\ found \subseteq Rankable
    /\ \/ Cardinality(found) = AnnLimit
       \/ Cardinality(found) < AnnLimit /\ found = Rankable
    /\ \A i \in found : \A j \in Rankable \ found : ~Nearer(text, j, i)

Recall(c) ==
    /\ call[c].pc = "use" /\ call[c].type = "search_query"
    /\ \E found \in SUBSET Rankable :
         /\ Nearest(call[c].text, found)
         /\ CallBecomes(c, [call[c] EXCEPT !.found = found, !.pc = "idle"])
    /\ UNCHANGED <<cache, stored, vector, fill, faults>>

AgentStep(c) ==
    \/ Ask(c) \/ LookUp(c) \/ PostAnswers(c) \/ PostRetries(c)
    \/ StoreVector(c) \/ CallRaises(c) \/ InsertFingerprint(c) \/ Recall(c)

-----------------------------------------------------------------------------
(* The backfill.                                                            *)

\* rows: listed, still to be looked up; misses: to be embedded; chunk: embedded,
\* still to be written; cached: the one of chunk whose cache row is in.
Fill == [rows: SUBSET Item, misses: SUBSET Item,
         chunk: SUBSET Item, cached: SUBSET Item]

NoFill == [rows |-> {}, misses |-> {}, chunk |-> {}, cached |-> {}]

FillBecomes(f, r) == fill' = [fill EXCEPT ![f] = r]

FaultHappens == faults < MaxFaults /\ faults' = faults + 1

DocumentHash(i) == ContentHash(ContentOf[i], "search_document")

\* WHERE embedding IS NULL LIMIT 500, in no order.
ListRows(f) ==
    /\ fill[f] = NoFill
    /\ \E rows \in SUBSET Missing :
         /\ rows # {}
         /\ \/ Cardinality(rows) = RowLimit
            \/ Cardinality(rows) < RowLimit /\ rows = Missing
         /\ FillBecomes(f, [NoFill EXCEPT !.rows = rows])
    /\ UNCHANGED <<cache, stored, vector, call, faults>>

\* get_cached_embedding answers, and its vector is written.
FillFromCache(f, i) ==
    /\ i \in fill[f].rows /\ Hit(DocumentHash(i), MODEL_ID)
    /\ vector' = [vector EXCEPT ![i] = cache[DocumentHash(i)]]
    /\ FillBecomes(f, [fill[f] EXCEPT !.rows = @ \ {i}])
    /\ UNCHANGED <<cache, stored, call, faults>>

FillMisses(f, i) ==
    /\ i \in fill[f].rows /\ ~Hit(DocumentHash(i), MODEL_ID)
    /\ FillBecomes(f, [fill[f] EXCEPT !.rows = @ \ {i}, !.misses = @ \cup {i}])
    /\ UNCHANGED <<cache, stored, vector, call, faults>>

\* The next chunk of the misses, once every row is looked up.
IsChunk(f, chunk) ==
    /\ fill[f].rows = {} /\ fill[f].chunk = {}
    /\ chunk # {} /\ chunk \subseteq fill[f].misses
    /\ \/ Cardinality(chunk) = MAX_BATCH
       \/ Cardinality(chunk) < MAX_BATCH /\ chunk = fill[f].misses

EmbedChunk(f, chunk) ==
    /\ IsChunk(f, chunk)
    /\ FillBecomes(f, [fill[f] EXCEPT !.misses = @ \ chunk, !.chunk = chunk])
    /\ UNCHANGED <<cache, stored, vector, call, faults>>

\* failed += len(chunk): its rows stay NULL for a later invocation.
EmbedChunkFails(f, chunk) ==
    /\ IsChunk(f, chunk)
    /\ FillBecomes(f, [fill[f] EXCEPT !.misses = @ \ chunk])
    /\ FaultHappens
    /\ UNCHANGED <<cache, stored, vector, call>>

CacheRow(f, i) ==
    /\ i \in fill[f].chunk /\ fill[f].cached = {}
    /\ CacheInsert(DocumentHash(i), Embed(ContentOf[i], "search_document", MODEL_ID))
    /\ FillBecomes(f, [fill[f] EXCEPT !.cached = {i}])
    /\ UNCHANGED <<stored, vector, call, faults>>

UpdateRow(f, i) ==
    /\ i \in fill[f].cached
    /\ vector' = [vector EXCEPT ![i] =
                     Embed(ContentOf[i], "search_document", MODEL_ID)]
    /\ FillBecomes(f, [fill[f] EXCEPT !.chunk = @ \ {i}, !.cached = {}])
    /\ UNCHANGED <<cache, stored, call, faults>>

\* failed += 1 and on to the next row, of the hits or of the chunk.
RowFails(f, i) ==
    /\ \/ i \in fill[f].rows /\ Hit(DocumentHash(i), MODEL_ID)
       \/ i \in fill[f].chunk /\ fill[f].cached \subseteq {i}
    /\ FillBecomes(f, [fill[f] EXCEPT !.rows = @ \ {i}, !.chunk = @ \ {i},
                                      !.cached = @ \ {i}])
    /\ FaultHappens
    /\ UNCHANGED <<cache, stored, vector, call>>

\* A lookup outside every try fails, or the Lambda times out.
FillEnds(f) ==
    /\ fill[f] # NoFill
    /\ FillBecomes(f, NoFill)
    /\ FaultHappens
    /\ UNCHANGED <<cache, stored, vector, call>>

Backfills(f) ==
    \/ ListRows(f)
    \/ \E i \in Item : \/ FillFromCache(f, i) \/ FillMisses(f, i)
                       \/ CacheRow(f, i) \/ UpdateRow(f, i)
    \/ \E chunk \in SUBSET fill[f].misses : EmbedChunk(f, chunk)

BackfillFails(f) ==
    \/ FillEnds(f)
    \/ \E i \in Item : RowFails(f, i)
    \/ \E chunk \in SUBSET fill[f].misses : EmbedChunkFails(f, chunk)

-----------------------------------------------------------------------------
\* act_measure(node), gate(node) and the consolidator insert embedding = NULL.
InsertUnembedded(i) ==
    /\ i \notin stored /\ ContentOf[i] \notin QueryText
    /\ stored' = stored \cup {i}
    /\ UNCHANGED <<cache, vector, call, fill, faults>>

\* Row-level TTL.
CacheExpires(h) ==
    /\ cache[h] # NoVector
    /\ cache' = [cache EXCEPT ![h] = NoVector]
    /\ UNCHANGED <<stored, vector, call, fill, faults>>

\* The cache may hold rows of the models configured before.
Init ==
    /\ cache \in {c \in [Hash -> Vector \cup {NoVector}] :
                    \A h \in Hash : c[h] \in {Embed(h[1], h[2], m) : m \in Model}
                                             \cup {NoVector}}
    /\ stored = {}
    /\ vector = [i \in Item |-> NoVector]
    /\ call = [c \in Caller |-> NoCall]
    /\ fill = [f \in Filler |-> NoFill]
    /\ faults = 0

Next ==
    \/ \E c \in Caller : AgentStep(c)
    \/ \E f \in Filler : Backfills(f) \/ BackfillFails(f)
    \/ \E i \in Item : InsertUnembedded(i)
    \/ \E h \in Hash : CacheExpires(h)

Spec == Init /\ [][Next]_vars

\* The schedule invokes the backfill again and again; Cohere and the database
\* fail it MaxFaults times.
Fairness == \A f \in Filler : WF_vars(Backfills(f))

FairSpec == Spec /\ Fairness

-----------------------------------------------------------------------------
TypeOK ==
    /\ cache \in [Hash -> Vector \cup {NoVector}]
    /\ stored \subseteq Item
    /\ vector \in [Item -> Vector \cup {NoVector}]
    /\ call \in [Caller -> Call]
    /\ fill \in [Filler -> Fill]
    /\ faults \in 0 .. MaxFaults

\* Whoever wrote it, through whatever hits, expiries and conflicts, a stored
\* vector is the DOCUMENT vector of the item's own content in the configured
\* model's space: the only vectors recall's <=> can compare (invariant #2, #9).
OneSpace ==
    \A i \in Item : vector[i] # NoVector =>
        vector[i] = Embed(ContentOf[i], "search_document", MODEL_ID)

\* recall(node) searches with the QUERY vector of its own text, though observe
\* has just cached the document vector of that text.
QueryIsQuery ==
    \A c \in Caller : call[c].vec # NoVector =>
        call[c].vec = Embed(call[c].text, call[c].type, MODEL_ID)

\* The backfill's cursor leaves nothing behind: every row gets its vector,
\* whatever rows fail before it and however many are missing.
EveryItemEmbedded == \A i \in Item : i \in stored ~> vector[i] # NoVector

\* Incident #2 finds what incident #1 taught: a recall that returns at all
\* returns something that is not the query itself, if memory has any.
MemoryIsReached ==
    \A c \in Caller : (\E i \in call[c].found : ContentOf[i] \in QueryText) =>
        \/ \E i \in call[c].found : ContentOf[i] \notin QueryText
        \/ \A i \in Rankable : ContentOf[i] \in QueryText
=============================================================================
