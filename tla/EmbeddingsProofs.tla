--------------------------- MODULE EmbeddingsProofs ---------------------------
(***************************************************************************)
(* Theorems about module Embeddings: whatever the models configured before *)
(* left in the cache, and however agent, backfill and expiry interleave,   *)
(* stored vectors lie in one space and queries are searched with query     *)
(* vectors.                                                                *)
(***************************************************************************)
EXTENDS Embeddings, TLAPS

-----------------------------------------------------------------------------
(* Shapes.                                                                 *)

OtherCalls(c) == \A d \in Caller \ {c} : call'[d] = call[d]

LEMMA EmbedIsVector ==
  ASSUME NEW t \in Text, NEW y \in InputType, NEW m \in Model
  PROVE  /\ Embed(t, y, m) \in Vector
         /\ Embed(t, y, m) # NoVector
BY EmbeddingsAssumption DEF Embed, Vector

LEMMA HashTyped ==
  ASSUME NEW t \in Text, NEW y \in InputType
  PROVE  /\ ContentHash(t, y) \in Hash
         /\ ContentHash(t, y)[1] = t /\ ContentHash(t, y)[2] = y
BY DEF ContentHash, Hash

LEMMA NoCallTyped == NoCall \in Call /\ NoCall.vec = NoVector /\ NoCall.pc = "idle"
<1>1. (CHOOSE t \in Text : TRUE) \in Text
  BY EmbeddingsAssumption
<1>2. 0 \in 0 .. MAX_RETRIES
  BY EmbeddingsAssumption
<1> QED
  BY <1>1, <1>2 DEF NoCall, Call, InputType

LEMMA CallTyped ==
  ASSUME TypeOK, NEW c \in Caller, NEW r \in Call, CallBecomes(c, r)
  PROVE  call' \in [Caller -> Call] /\ call'[c] = r /\ OtherCalls(c)
BY DEF TypeOK, CallBecomes, OtherCalls

LEMMA FillTyped ==
  ASSUME TypeOK, NEW f \in Filler, NEW r \in Fill, FillBecomes(f, r)
  PROVE  fill' \in [Filler -> Fill]
BY DEF TypeOK, FillBecomes

LEMMA NoFillTyped == NoFill \in Fill
BY DEF NoFill, Fill

LEMMA CacheTyped ==
  ASSUME TypeOK, NEW h \in Hash, NEW v \in Vector \cup {NoVector}, CacheInsert(h, v)
  PROVE  cache' \in [Hash -> Vector \cup {NoVector}]
BY DEF TypeOK, CacheInsert

-----------------------------------------------------------------------------
(* The invariant.  A row of the cache, of whatever model, is the vector of *)
(* the text and the input type it is filed under: that is what makes a hit *)
(* of the configured model the vector that was asked for.                  *)

CacheIsTrue ==
  \A h \in Hash : cache[h] # NoVector => cache[h].text = h[1] /\ cache[h].type = h[2]

IInv == TypeOK /\ CacheIsTrue /\ OneSpace /\ QueryIsQuery

\* A hit is the vector that was asked for.
LEMMA HitIsRight ==
  ASSUME IInv, NEW t \in Text, NEW y \in InputType, Hit(ContentHash(t, y), MODEL_ID)
  PROVE  cache[ContentHash(t, y)] = Embed(t, y, MODEL_ID)
<1> DEFINE h == ContentHash(t, y)
<1>1. h \in Hash /\ h[1] = t /\ h[2] = y
  BY HashTyped
<1>2. cache[h] \in Vector /\ cache[h].model = MODEL_ID
  BY <1>1 DEF IInv, TypeOK, Hit
<1>3. cache[h].text = t /\ cache[h].type = y
  BY <1>1 DEF IInv, CacheIsTrue, Hit
<1> QED
  BY <1>2, <1>3 DEF Vector, Embed

\* Whoever inserts the vector of the text leaves the cache true.
LEMMA InsertIsTrue ==
  ASSUME IInv, NEW t \in Text, NEW y \in InputType, NEW m \in Model,
         CacheInsert(ContentHash(t, y), Embed(t, y, m))
  PROVE  cache' \in [Hash -> Vector \cup {NoVector}] /\ CacheIsTrue'
<1> DEFINE h == ContentHash(t, y)
<1>1. h \in Hash /\ h[1] = t /\ h[2] = y
  BY HashTyped
<1>2. Embed(t, y, m) \in Vector
  BY EmbedIsVector
<1>3. cache' \in [Hash -> Vector \cup {NoVector}]
  BY <1>1, <1>2, CacheTyped DEF IInv
<1>4. ASSUME NEW g \in Hash, cache'[g] # NoVector
      PROVE  cache'[g].text = g[1] /\ cache'[g].type = g[2]
  <2>1. CASE cache'[g] = cache[g]
    BY <1>4, <2>1 DEF IInv, CacheIsTrue
  <2>2. CASE cache'[g] # cache[g]
    <3>1. g = h /\ cache'[g] = Embed(t, y, m)
      BY <1>1, <2>2 DEF IInv, TypeOK, CacheInsert
    <3> QED
      BY <1>1, <3>1 DEF Embed
  <2> QED
    BY <2>1, <2>2
<1> QED
  BY <1>3, <1>4 DEF CacheIsTrue

\* A row is written the document vector of its content.
LEMMA WritesDocument ==
  ASSUME IInv, NEW i \in Item, NEW v,
         v = Embed(ContentOf[i], "search_document", MODEL_ID) \/ v = NoVector,
         vector' = [vector EXCEPT ![i] = v]
  PROVE  vector' \in [Item -> Vector \cup {NoVector}] /\ OneSpace'
<1>1. v \in Vector \cup {NoVector}
  BY EmbedIsVector, EmbeddingsAssumption DEF InputType
<1> QED
  BY <1>1 DEF IInv, TypeOK, OneSpace

\* A call that keeps its text and type and gets no vector but the right one.
LEMMA AsksRight ==
  ASSUME IInv, NEW c \in Caller, NEW r \in Call, CallBecomes(c, r),
         r.vec # NoVector => r.vec = Embed(r.text, r.type, MODEL_ID)
  PROVE  call' \in [Caller -> Call] /\ QueryIsQuery'
<1>1. call' \in [Caller -> Call] /\ call'[c] = r /\ OtherCalls(c)
  BY CallTyped DEF IInv
<1> QED
  BY <1>1 DEF IInv, QueryIsQuery, OtherCalls

-----------------------------------------------------------------------------
(* The agent's steps.                                                      *)

LEMMA InvInit == Init => IInv
<1> SUFFICES ASSUME Init PROVE IInv
  OBVIOUS
<1>1. ASSUME NEW h \in Hash
      PROVE  /\ cache[h] \in Vector \cup {NoVector}
             /\ cache[h] # NoVector => cache[h].text = h[1] /\ cache[h].type = h[2]
  <2>1. cache[h] \in {Embed(h[1], h[2], m) : m \in Model} \cup {NoVector}
    BY <1>1 DEF Init
  <2>2. CASE cache[h] = NoVector
    BY <2>2
  <2>3. CASE \E m \in Model : cache[h] = Embed(h[1], h[2], m)
    <3>1. h[1] \in Text /\ h[2] \in InputType
      BY DEF Hash
    <3> QED
      BY <2>3, <3>1, EmbedIsVector DEF Embed
  <2> QED
    BY <2>1, <2>2, <2>3
<1>2. cache \in [Hash -> Vector \cup {NoVector}]
  <2>1. cache \in [Hash -> Vector \cup {NoVector}]
        <=> cache = [h \in Hash |-> cache[h]] /\ \A h \in Hash : cache[h] \in Vector \cup {NoVector}
    OBVIOUS
  <2>2. cache = [h \in Hash |-> cache[h]]
    BY DEF Init
  <2> QED
    BY <1>1, <2>1, <2>2
<1>3. TypeOK
  BY <1>2, NoCallTyped, NoFillTyped, EmbeddingsAssumption DEF Init, TypeOK
<1> QED
  BY <1>1, <1>3, NoCallTyped DEF Init, IInv, CacheIsTrue, OneSpace, QueryIsQuery

LEMMA CallKeeps ==
  ASSUME IInv, NEW c \in Caller, AgentStep(c) PROVE IInv'
<1>0. /\ TypeOK /\ call[c] \in Call
      /\ call[c].vec # NoVector => call[c].vec = Embed(call[c].text, call[c].type, MODEL_ID)
  BY DEF IInv, TypeOK, QueryIsQuery
<1>1. CASE Ask(c)
  <2>1. PICK text \in QueryText, type \in InputType :
          CallBecomes(c, [NoCall EXCEPT !.pc = "lookup", !.text = text, !.type = type])
    BY <1>1 DEF Ask
  <2>2. [NoCall EXCEPT !.pc = "lookup", !.text = text, !.type = type] \in Call
    BY NoCallTyped, EmbeddingsAssumption DEF Call
  <2>3. [NoCall EXCEPT !.pc = "lookup", !.text = text, !.type = type].vec = NoVector
    BY NoCallTyped DEF Call
  <2>4. call' \in [Caller -> Call] /\ QueryIsQuery'
    BY <2>1, <2>2, <2>3, AsksRight
  <2> QED
    BY <1>1, <2>4 DEF Ask, IInv, TypeOK, CacheIsTrue, OneSpace
<1>2. CASE LookUp(c)
  <2> DEFINE h == ContentHash(call[c].text, call[c].type)
  <2>1. CASE Hit(h, MODEL_ID)
    <3> DEFINE r == [call[c] EXCEPT !.pc = "use", !.vec = cache[h]]
    <3>1. cache[h] = Embed(call[c].text, call[c].type, MODEL_ID)
      BY <1>0, <2>1, HitIsRight DEF Call
    <3>2. cache[h] \in Vector
      BY <1>0, <3>1, EmbedIsVector, EmbeddingsAssumption DEF Call
    <3>3. r \in Call /\ r.vec = cache[h] /\ r.text = call[c].text /\ r.type = call[c].type
      BY <1>0, <3>2 DEF Call
    <3>4. CallBecomes(c, r)
      BY <1>2, <2>1 DEF LookUp
    <3>5. call' \in [Caller -> Call] /\ QueryIsQuery'
      BY <3>1, <3>3, <3>4, AsksRight
    <3> QED
      BY <1>2, <3>5 DEF LookUp, IInv, TypeOK, CacheIsTrue, OneSpace
  <2>2. CASE ~Hit(h, MODEL_ID)
    <3> DEFINE r == [call[c] EXCEPT !.pc = "post", !.attempt = 1]
    <3>1. 1 \in 0 .. MAX_RETRIES
      BY EmbeddingsAssumption
    <3>2. /\ r \in Call /\ r.vec = call[c].vec
          /\ r.text = call[c].text /\ r.type = call[c].type
      BY <1>0, <3>1 DEF Call
    <3>3. CallBecomes(c, r)
      BY <1>2, <2>2 DEF LookUp
    <3>4. call' \in [Caller -> Call] /\ QueryIsQuery'
      BY <1>0, <3>2, <3>3, AsksRight
    <3> QED
      BY <1>2, <3>4 DEF LookUp, IInv, TypeOK, CacheIsTrue, OneSpace
  <2> QED
    BY <2>1, <2>2
<1>3. CASE PostAnswers(c)
  <2> DEFINE v == Embed(call[c].text, call[c].type, MODEL_ID)
             r == [call[c] EXCEPT !.pc = "store", !.vec = v]
  <2>1. v \in Vector
    BY <1>0, EmbedIsVector, EmbeddingsAssumption DEF Call
  <2>2. r \in Call /\ r.vec = v /\ r.text = call[c].text /\ r.type = call[c].type
    BY <1>0, <2>1 DEF Call
  <2>3. CallBecomes(c, r)
    BY <1>3 DEF PostAnswers
  <2>4. call' \in [Caller -> Call] /\ QueryIsQuery'
    BY <2>2, <2>3, AsksRight
  <2> QED
    BY <1>3, <2>4 DEF PostAnswers, IInv, TypeOK, CacheIsTrue, OneSpace
<1>4. CASE PostRetries(c)
  <2> DEFINE r == [call[c] EXCEPT !.attempt = @ + 1]
  <2>1. call[c].attempt + 1 \in 0 .. MAX_RETRIES
    BY <1>0, <1>4, EmbeddingsAssumption DEF PostRetries, Call
  <2>2. /\ r \in Call /\ r.vec = call[c].vec
        /\ r.text = call[c].text /\ r.type = call[c].type
    BY <1>0, <2>1 DEF Call
  <2>3. CallBecomes(c, r)
    BY <1>4 DEF PostRetries
  <2>4. call' \in [Caller -> Call] /\ QueryIsQuery'
    BY <1>0, <2>2, <2>3, AsksRight
  <2> QED
    BY <1>4, <2>4 DEF PostRetries, IInv, TypeOK, CacheIsTrue, OneSpace
<1>5. CASE StoreVector(c)
  <2> DEFINE h == ContentHash(call[c].text, call[c].type)
             r == [call[c] EXCEPT !.pc = "use"]
  <2>1. /\ r \in Call /\ r.vec = call[c].vec
        /\ r.text = call[c].text /\ r.type = call[c].type
    BY <1>0 DEF Call
  <2>2. call' \in [Caller -> Call] /\ QueryIsQuery'
    BY <1>0, <1>5, <2>1, AsksRight DEF StoreVector
  <2>3. cache' \in [Hash -> Vector \cup {NoVector}] /\ CacheIsTrue'
    <3>1. CacheInsert(h, call[c].vec)
      BY <1>5 DEF StoreVector
    <3>2. CASE call[c].vec = NoVector
      <4>1. cache' = cache
        BY <3>1, <3>2 DEF IInv, TypeOK, CacheInsert
      <4> QED
        BY <4>1 DEF IInv, TypeOK, CacheIsTrue
    <3>3. CASE call[c].vec # NoVector
      BY <1>0, <3>1, <3>3, InsertIsTrue, EmbeddingsAssumption DEF Call
    <3> QED
      BY <3>2, <3>3
  <2> QED
    BY <1>5, <2>2, <2>3 DEF StoreVector, IInv, TypeOK, OneSpace
<1>6. CASE CallRaises(c)
  <2>1. call' \in [Caller -> Call] /\ QueryIsQuery'
    BY <1>6, NoCallTyped, AsksRight DEF CallRaises
  <2> QED
    BY <1>6, <2>1 DEF CallRaises, IInv, TypeOK, CacheIsTrue, OneSpace
<1>7. CASE InsertFingerprint(c)
  <2>1. call' \in [Caller -> Call] /\ QueryIsQuery'
    BY <1>7, NoCallTyped, AsksRight DEF InsertFingerprint
  <2>2. PICK i \in Item \ stored :
          /\ ContentOf[i] = call[c].text
          /\ stored' = stored \cup {i}
          /\ vector' = [vector EXCEPT ![i] = call[c].vec]
    BY <1>7 DEF InsertFingerprint
  <2>3. \/ call[c].vec = NoVector
        \/ call[c].vec = Embed(ContentOf[i], "search_document", MODEL_ID)
    BY <1>0, <1>7, <2>2 DEF InsertFingerprint
  <2>4. vector' \in [Item -> Vector \cup {NoVector}] /\ OneSpace'
    BY <2>2, <2>3, WritesDocument
  <2> QED
    BY <1>7, <2>1, <2>2, <2>4 DEF InsertFingerprint, IInv, TypeOK, CacheIsTrue
<1>8. CASE Recall(c)
  <2>1. PICK found \in SUBSET Rankable :
          CallBecomes(c, [call[c] EXCEPT !.found = found, !.pc = "idle"])
    BY <1>8 DEF Recall
  <2> DEFINE r == [call[c] EXCEPT !.found = found, !.pc = "idle"]
  <2>2. found \subseteq Item
    BY <1>0 DEF Rankable, TypeOK
  <2>3. /\ r \in Call /\ r.vec = call[c].vec
        /\ r.text = call[c].text /\ r.type = call[c].type
    BY <1>0, <2>2 DEF Call
  <2>4. call' \in [Caller -> Call] /\ QueryIsQuery'
    BY <1>0, <2>1, <2>3, AsksRight
  <2> QED
    BY <1>8, <2>4 DEF Recall, IInv, TypeOK, CacheIsTrue, OneSpace
<1> QED
  BY <1>1, <1>2, <1>3, <1>4, <1>5, <1>6, <1>7, <1>8 DEF AgentStep

-----------------------------------------------------------------------------
(* The backfill's steps.                                                   *)

LEMMA FillKeeps ==
  ASSUME IInv, NEW f \in Filler, Backfills(f) PROVE IInv'
<1>0. TypeOK /\ fill[f] \in Fill
  BY DEF IInv, TypeOK
<1>1. CASE ListRows(f)
  <2>1. PICK rows \in SUBSET Missing : FillBecomes(f, [NoFill EXCEPT !.rows = rows])
    BY <1>1 DEF ListRows
  <2>2. [NoFill EXCEPT !.rows = rows] \in Fill
    BY <1>0, NoFillTyped DEF Fill, Missing, TypeOK
  <2>3. fill' \in [Filler -> Fill]
    BY <1>0, <2>1, <2>2, FillTyped
  <2> QED
    BY <1>1, <2>3 DEF ListRows, IInv, TypeOK, CacheIsTrue, OneSpace, QueryIsQuery
<1>2. ASSUME NEW i \in Item, FillFromCache(f, i) PROVE IInv'
  <2>1. [fill[f] EXCEPT !.rows = @ \ {i}] \in Fill
    BY <1>0 DEF Fill
  <2>2. fill' \in [Filler -> Fill]
    BY <1>0, <1>2, <2>1, FillTyped DEF FillFromCache
  <2>3. cache[DocumentHash(i)] = Embed(ContentOf[i], "search_document", MODEL_ID)
    BY <1>2, HitIsRight, EmbeddingsAssumption DEF FillFromCache, DocumentHash, InputType
  <2>4. vector' \in [Item -> Vector \cup {NoVector}] /\ OneSpace'
    BY <1>2, <2>3, WritesDocument DEF FillFromCache
  <2> QED
    BY <1>2, <2>2, <2>4 DEF FillFromCache, IInv, TypeOK, CacheIsTrue, QueryIsQuery
<1>3. ASSUME NEW i \in Item, FillMisses(f, i) PROVE IInv'
  <2>1. [fill[f] EXCEPT !.rows = @ \ {i}, !.misses = @ \cup {i}] \in Fill
    BY <1>0 DEF Fill
  <2>2. fill' \in [Filler -> Fill]
    BY <1>0, <1>3, <2>1, FillTyped DEF FillMisses
  <2> QED
    BY <1>3, <2>2 DEF FillMisses, IInv, TypeOK, CacheIsTrue, OneSpace, QueryIsQuery
<1>4. ASSUME NEW i \in Item, CacheRow(f, i) PROVE IInv'
  <2>1. [fill[f] EXCEPT !.cached = {i}] \in Fill
    BY <1>0 DEF Fill
  <2>2. fill' \in [Filler -> Fill]
    BY <1>0, <1>4, <2>1, FillTyped DEF CacheRow
  <2>3. cache' \in [Hash -> Vector \cup {NoVector}] /\ CacheIsTrue'
    BY <1>4, InsertIsTrue, EmbeddingsAssumption DEF CacheRow, DocumentHash, InputType
  <2> QED
    BY <1>4, <2>2, <2>3 DEF CacheRow, IInv, TypeOK, OneSpace, QueryIsQuery
<1>5. ASSUME NEW i \in Item, UpdateRow(f, i) PROVE IInv'
  <2>1. [fill[f] EXCEPT !.chunk = @ \ {i}, !.cached = {}] \in Fill
    BY <1>0 DEF Fill
  <2>2. fill' \in [Filler -> Fill]
    BY <1>0, <1>5, <2>1, FillTyped DEF UpdateRow
  <2>3. vector' \in [Item -> Vector \cup {NoVector}] /\ OneSpace'
    BY <1>5, WritesDocument DEF UpdateRow
  <2> QED
    BY <1>5, <2>2, <2>3 DEF UpdateRow, IInv, TypeOK, CacheIsTrue, QueryIsQuery
<1>6. ASSUME NEW chunk \in SUBSET fill[f].misses, EmbedChunk(f, chunk) PROVE IInv'
  <2>1. [fill[f] EXCEPT !.misses = @ \ chunk, !.chunk = chunk] \in Fill
    BY <1>0 DEF Fill
  <2>2. fill' \in [Filler -> Fill]
    BY <1>0, <1>6, <2>1, FillTyped DEF EmbedChunk
  <2> QED
    BY <1>6, <2>2 DEF EmbedChunk, IInv, TypeOK, CacheIsTrue, OneSpace, QueryIsQuery
<1> QED
  BY <1>1, <1>2, <1>3, <1>4, <1>5, <1>6 DEF Backfills

LEMMA FaultKeeps ==
  ASSUME IInv, NEW f \in Filler, BackfillFails(f) PROVE IInv'
<1>0. TypeOK /\ fill[f] \in Fill
  BY DEF IInv, TypeOK
<1>1. /\ FaultHappens /\ UNCHANGED <<cache, stored, vector, call>>
      /\ \E r \in Fill : FillBecomes(f, r)
  <2>1. CASE FillEnds(f)
    BY <2>1, NoFillTyped DEF FillEnds
  <2>2. ASSUME NEW i \in Item, RowFails(f, i)
        PROVE  /\ FaultHappens /\ UNCHANGED <<cache, stored, vector, call>>
               /\ \E r \in Fill : FillBecomes(f, r)
    <3>1. [fill[f] EXCEPT !.rows = @ \ {i}, !.chunk = @ \ {i}, !.cached = @ \ {i}] \in Fill
      BY <1>0 DEF Fill
    <3> QED
      BY <2>2, <3>1 DEF RowFails
  <2>3. ASSUME NEW chunk \in SUBSET fill[f].misses, EmbedChunkFails(f, chunk)
        PROVE  /\ FaultHappens /\ UNCHANGED <<cache, stored, vector, call>>
               /\ \E r \in Fill : FillBecomes(f, r)
    <3>1. [fill[f] EXCEPT !.misses = @ \ chunk] \in Fill
      BY <1>0 DEF Fill
    <3> QED
      BY <2>3, <3>1 DEF EmbedChunkFails
  <2> QED
    BY <2>1, <2>2, <2>3 DEF BackfillFails
<1>2. PICK r \in Fill : FillBecomes(f, r)
  BY <1>1
<1>3. fill' \in [Filler -> Fill]
  BY <1>0, <1>2, FillTyped
<1>4. faults' \in 0 .. MaxFaults
  BY <1>0, <1>1, EmbeddingsAssumption DEF FaultHappens, TypeOK
<1> QED
  BY <1>1, <1>3, <1>4 DEF IInv, TypeOK, CacheIsTrue, OneSpace, QueryIsQuery

LEMMA ExpiryKeeps ==
  ASSUME IInv, NEW h \in Hash, CacheExpires(h) PROVE IInv'
<1>1. cache' \in [Hash -> Vector \cup {NoVector}]
  BY DEF IInv, TypeOK, CacheExpires
<1>2. CacheIsTrue'
  BY DEF IInv, TypeOK, CacheExpires, CacheIsTrue
<1> QED
  BY <1>1, <1>2 DEF CacheExpires, IInv, TypeOK, OneSpace, QueryIsQuery

LEMMA InvNext == ASSUME IInv, [Next]_vars PROVE IInv'
<1>1. CASE UNCHANGED vars
  BY <1>1 DEF vars, IInv, TypeOK, CacheIsTrue, OneSpace, QueryIsQuery
<1>2. ASSUME NEW i \in Item, InsertUnembedded(i) PROVE IInv'
  BY <1>2 DEF InsertUnembedded, IInv, TypeOK, CacheIsTrue, OneSpace, QueryIsQuery
<1> QED
  BY <1>1, <1>2, CallKeeps, FillKeeps, FaultKeeps, ExpiryKeeps DEF Next

LEMMA Invariance == Spec => []IInv
<1> QED
  BY InvInit, InvNext, PTL DEF Spec

-----------------------------------------------------------------------------
(* Theorems.                                                               *)

(* The types of the cache, the rows and the calls, for any number of       *)
(* texts, models, agents and containers.                                   *)
THEOREM TypeCorrect == Spec => []TypeOK
<1>1. IInv => TypeOK
  BY DEF IInv
<1> QED
  BY <1>1, Invariance, PTL

(* Every stored vector is the document vector of its row's content in the  *)
(* space of the configured model, whoever wrote it and whatever the cache  *)
(* held before.                                                            *)
THEOREM SpaceIsOne == Spec => []OneSpace
<1>1. IInv => OneSpace
  BY DEF IInv
<1> QED
  BY <1>1, Invariance, PTL

(* recall(node) never searches with the document vector that observe(node) *)
(* cached of the same text.                                                *)
THEOREM QueriesAreQueries == Spec => []QueryIsQuery
<1>1. IInv => QueryIsQuery
  BY DEF IInv
<1> QED
  BY <1>1, Invariance, PTL
=============================================================================
