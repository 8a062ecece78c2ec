------------------------------ MODULE Procedures ------------------------------
(***************************************************************************)
(* Procedural memory: how episodes become procedures, how procedures fade, *)
(* and which of them recall may cite.                                      *)
(*                                                                         *)
(* The consolidator (workers/consolidator/handler.py) is a scheduled       *)
(* Lambda on a connection that is NOT autocommit: its first statement      *)
(* opens a transaction, and only insert_draft_procedure's commit, a        *)
(* rollback or promote_procedure_active ends it.  A container keeps its    *)
(* connection, open transaction included, for its next invocation.  The    *)
(* decayer (workers/decayer/handler.py) is autocommit: every statement is  *)
(* its own transaction.  Agents add episodes, embedding_backfill gives     *)
(* them vectors, an operator may activate a draft by hand.                 *)
(*                                                                         *)
(* CockroachDB is serializable: a transaction reads the database as of its *)
(* first statement, and commits only if nothing it may have read changed   *)
(* meanwhile (else 40001).  After a failed statement every further one     *)
(* fails until the rollback.                                               *)
(***************************************************************************)
EXTENDS Naturals, FiniteSets

CONSTANTS
    Scope, Name,      \* scope ids; procedure names, f"{action_kind}_{table}"
    Episode,          \* rows of memory_items with class = 'episode'
    ScopeOf, NameOf,  \* the scope of an episode, the name its action leads to
    Succeeded,        \* the episodes whose action has outcome = 'success'
    Seeded,           \* the episodes stored and embedded when a run starts
    MinCluster,       \* MIN_CLUSTER_SIZE
    MayUpdate,        \* engram_consolidator holds UPDATE on procedures
    Worker, Decayer,  \* containers of the consolidator, of the decayer
    MaxBusy           \* bound: invocations under way at one time

ASSUME ProceduresAssumption ==
    /\ ScopeOf \in [Episode -> Scope]
    /\ NameOf \in [Episode -> Name]
    /\ Succeeded \subseteq Episode
    /\ Seeded \subseteq Episode
    /\ IsFiniteSet(Episode)
    /\ MinCluster \in Nat \ {0} /\ MayUpdate \in BOOLEAN /\ MaxBusy \in Nat

VARIABLES
    episodes,   \* the episodes stored
    embedded,   \* those whose embedding IS NOT NULL
    procs,      \* the procedures table, by its UNIQUE (scope_id, name)
    aged,       \* procedures whose updated_at is too long ago for the floor
    items,      \* status of the memory_items row of class 'procedure'
    confirmed,  \* the procedures an operator activated
    contested,  \* those that two decayers judged differently at one time
    job,        \* an invocation, and the connection, of each consolidator
    decay       \* an invocation of each decayer

vars == <<episodes, embedded, procs, aged, items, confirmed, contested, job,
          decay>>

tables == <<episodes, embedded, procs, aged, items, confirmed, contested>>

-----------------------------------------------------------------------------
(* The tables.                                                              *)

Proc == Scope \X Name

\* outcome_stats and confidence as far as the floor of 0.15 tells: good iff
\* successes > 0 (a cluster shares its outcome), usable iff confidence >= floor.
ProcRow == [status: {"none", "draft", "active", "retired"},
            sources: SUBSET Episode, good: BOOLEAN, usable: BOOLEAN]

NoRow == [status |-> "none", sources |-> {}, good |-> FALSE, usable |-> FALSE]

Exists(k) == procs[k].status # "none"

\* list_scopes_with_episodes, list_unconsolidated_episodes and
\* count_procedures_for_scope read this much of the database.
Db == [episodes |-> episodes, embedded |-> embedded,
       claimed |-> UNION {procs[k].sources : k \in Proc},
       known |-> {k \in Proc : Exists(k)}]

View == [episodes: SUBSET Episode, embedded: SUBSET Episode,
         claimed: SUBSET Episode, known: SUBSET Proc]

NoView == [episodes |-> {}, embedded |-> {}, claimed |-> {}, known |-> {}]

ScopesIn(view) == {ScopeOf[e] : e \in view.episodes}

Candidates(view, s) ==
    {e \in view.embedded \ view.claimed : ScopeOf[e] = s}

\* _bucket_key and _group_by_bucket, the buckets below MIN_CLUSTER_SIZE left out.
SameBucket(d, e) ==
    /\ NameOf[d] = NameOf[e]
    /\ d \in Succeeded <=> e \in Succeeded

Buckets(rows) ==
    {b \in {{d \in rows : SameBucket(d, e)} : e \in rows} :
        Cardinality(b) >= MinCluster}

KeyOf(cluster) ==
    LET e == CHOOSE e \in cluster : TRUE IN <<ScopeOf[e], NameOf[e]>>

\* decayed_confidence(successes, attempts, age_days) >= CONFIDENCE_FLOOR:
\* no success is 0 at any age; MIN_CLUSTER_SIZE successes are above the floor
\* until they age.
Worth(good, old) == good /\ ~old

Draft(cluster) ==
    LET good == cluster \cap Succeeded # {}
    IN  [status |-> "draft", sources |-> cluster, good |-> good,
         usable |-> Worth(good, FALSE)]

-----------------------------------------------------------------------------
(* Invocations; a consolidator's.                                           *)

Job == [pc: {"idle", "scopes", "rows", "insert", "promote"},
        txn: {"none", "open", "aborted"}, view: View,
        scopes: SUBSET Scope, rows: SUBSET Episode, cluster: SUBSET Episode]

Idle == [pc |-> "idle", txn |-> "none", view |-> NoView,
         scopes |-> {}, rows |-> {}, cluster |-> {}]

Decay == [step: {"next", "write", "items"}, todo: SUBSET Proc,
          row: SUBSET Proc, retire: BOOLEAN]

NoDecay == [step |-> "next", todo |-> {}, row |-> {}, retire |-> FALSE]

\* The bound on invocations leaves room for one more.
Room == Cardinality({w \in Worker : job[w].pc # "idle"})
        + Cardinality({d \in Decayer : decay[d] # NoDecay}) < MaxBusy

\* Where the loops go once the rows left hold these buckets.
After(rows) == IF Buckets(rows) = {} THEN "scopes" ELSE "rows"

\* What the next statement reads: the open transaction's view, or a new one.
ViewOf(w) == IF job[w].txn = "open" THEN job[w].view ELSE Db

Becomes(w, r) == job' = [job EXCEPT ![w] = r]

\* The rest of the loops after bucket, insert or promotion, txn as given.
GoOn(w, txn, view, rows) ==
    Becomes(w, [job[w] EXCEPT !.pc = After(rows), !.txn = txn, !.view = view,
                              !.rows = rows, !.cluster = {}])

\* get_consolidator_connection keeps a connection whose SELECT 1 answers, with
\* its transaction; one whose transaction failed is replaced.
ListScopes(w) ==
    /\ job[w].pc = "idle" /\ Room
    /\ Becomes(w, [Idle EXCEPT !.pc = "scopes", !.txn = "open",
                               !.view = ViewOf(w), !.scopes = ScopesIn(ViewOf(w))])
    /\ UNCHANGED <<tables, decay>>

\* The statement is outside every try: the invocation ends, its connection of no
\* use to the next.
ListScopesFails(w) ==
    /\ job[w].pc = "idle" /\ job[w] # Idle
    /\ Becomes(w, Idle)
    /\ UNCHANGED <<tables, decay>>

ListCandidates(w, s) ==
    /\ job[w].pc = "scopes" /\ s \in job[w].scopes
    /\ job[w].txn # "aborted"
    /\ LET rows == Candidates(ViewOf(w), s)
       IN  Becomes(w, [job[w] EXCEPT !.pc = After(rows), !.txn = "open",
                                     !.view = ViewOf(w), !.scopes = @ \ {s},
                                     !.rows = rows])
    /\ UNCHANGED <<tables, decay>>

\* failed += 1; continue: no rollback.
ListCandidatesFails(w, s) ==
    /\ job[w].pc = "scopes" /\ s \in job[w].scopes
    /\ Becomes(w, [job[w] EXCEPT !.txn = "aborted", !.view = NoView,
                                 !.scopes = @ \ {s}])
    /\ UNCHANGED <<tables, decay>>

\* ann_neighbors_within_distance: the rows of the bucket close to its first.
FindCluster(w, b) ==
    /\ job[w].pc = "rows" /\ b \in Buckets(job[w].rows)
    /\ job[w].txn # "aborted"
    /\ \/ \E c \in SUBSET b :
            /\ Cardinality(c) >= MinCluster
            /\ Becomes(w, [job[w] EXCEPT !.pc = "insert", !.txn = "open",
                                         !.view = ViewOf(w), !.rows = @ \ b,
                                         !.cluster = c])
       \/ GoOn(w, "open", ViewOf(w), job[w].rows \ b)  \* too few are close
    /\ UNCHANGED <<tables, decay>>

\* failed += 1; continue: no rollback here either.
FindClusterFails(w, b) ==
    /\ job[w].pc = "rows" /\ b \in Buckets(job[w].rows)
    /\ GoOn(w, "aborted", NoView, job[w].rows \ b)
    /\ UNCHANGED <<tables, decay>>

\* Fault: counted after the INSERT, k among them.
FirstEverFault(k) == \A j \in Proc : j[1] = k[1] => ~(Exists(j) \/ j = k)

\* count_procedures_for_scope(conn, scope_id) == 0
FirstEver(k) == \A j \in Proc : j[1] = k[1] => ~Exists(j)

\* count, INSERT ... ON CONFLICT (scope_id, name) DO NOTHING, commit.  Only a
\* procedure that is not its scope's first goes on to be promoted.
InsertDraft(w) ==
    LET k == KeyOf(job[w].cluster)
    IN  /\ job[w].pc = "insert"
        /\ job[w].txn = "open" /\ job[w].view = Db
        /\ \/ /\ Exists(k)
              /\ GoOn(w, "none", NoView, job[w].rows)
              /\ UNCHANGED procs
           \/ /\ ~Exists(k)
              /\ procs' = [procs EXCEPT ![k] = Draft(job[w].cluster)]
              /\ \/ FirstEver(k) /\ GoOn(w, "none", NoView, job[w].rows)
                 \/ /\ ~FirstEver(k)
                    /\ Becomes(w, [job[w] EXCEPT !.pc = "promote",
                                                 !.txn = "none", !.view = NoView])
        /\ UNCHANGED <<episodes, embedded, aged, items, confirmed, contested, decay>>

\* Any failure, a serialization failure or the aborted transaction among them.
InsertDraftFails(w) ==
    /\ job[w].pc = "insert"
    /\ GoOn(w, "none", NoView, job[w].rows)
    /\ UNCHANGED <<tables, decay>>

\* Fault: the item is given the status the procedure was listed with.
PromoteFault(w) ==
    LET k == KeyOf(job[w].cluster)
    IN  /\ job[w].pc = "promote" /\ MayUpdate
        /\ procs' = [procs EXCEPT ![k].status = "active"]
        /\ items' = [items EXCEPT ![k] = procs[k].status]
        /\ GoOn(w, "none", NoView, job[w].rows)
        /\ UNCHANGED <<episodes, embedded, aged, confirmed, contested, decay>>

\* promote_procedure_active: UPDATE procedures and INSERT memory_items in one
\* transaction.  The UPDATE asks for the id alone, whatever the status is now;
\* it needs a privilege that migration 009 does not grant (Access.tla).
Promote(w) ==
    LET k == KeyOf(job[w].cluster)
    IN  /\ job[w].pc = "promote" /\ MayUpdate
        /\ procs' = [procs EXCEPT ![k].status = "active"]
        /\ items' = [items EXCEPT ![k] = "active"]
        /\ GoOn(w, "none", NoView, job[w].rows)
        /\ UNCHANGED <<episodes, embedded, aged, confirmed, contested, decay>>

\* Fault: autocommit, the UPDATE stays when the INSERT fails.
PromoteFailsFault(w) ==
    /\ job[w].pc = "promote"
    /\ procs' = [procs EXCEPT ![KeyOf(job[w].cluster)].status = "active"]
    /\ GoOn(w, "none", NoView, job[w].rows)
    /\ UNCHANGED <<episodes, embedded, aged, items, confirmed, contested, decay>>

PromoteFails(w) ==
    /\ job[w].pc = "promote"
    /\ GoOn(w, "none", NoView, job[w].rows)
    /\ UNCHANGED <<tables, decay>>

\* The invocation returns; an open transaction stays as it is, an aborted one goes
\* with its connection.
Return(w) ==
    /\ job[w].pc = "scopes" /\ job[w].scopes = {}
    /\ Becomes(w, IF job[w].txn = "open"
                  THEN [Idle EXCEPT !.txn = "open", !.view = job[w].view] ELSE Idle)
    /\ UNCHANGED <<tables, decay>>

\* The container times out, is reclaimed, or its idle connection is closed.
ContainerEnds(w) ==
    /\ job[w] # Idle
    /\ Becomes(w, Idle)
    /\ UNCHANGED <<tables, decay>>

Consolidate(w) ==
    \/ ListScopes(w) \/ ListScopesFails(w)
    \/ \E s \in Scope : ListCandidates(w, s) \/ ListCandidatesFails(w, s)
    \/ \E b \in Buckets(job[w].rows) : FindCluster(w, b) \/ FindClusterFails(w, b)
    \/ InsertDraft(w) \/ InsertDraftFails(w)
    \/ Promote(w) \/ PromoteFails(w)
    \/ Return(w) \/ ContainerEnds(w)

-----------------------------------------------------------------------------
(* A decayer's invocation.                                                  *)

DecayBecomes(d, r) == decay' = [decay EXCEPT ![d] = r]

\* The row is done with, well or in the except clause.
NextRow(d) == [decay[d] EXCEPT !.step = "next", !.row = {}, !.retire = FALSE]

ListDecaying(d) ==
    /\ decay[d] = NoDecay /\ Room
    /\ DecayBecomes(d, [NoDecay EXCEPT !.todo =
            {k \in Proc : procs[k].status \in {"draft", "active"}}])
    /\ UNCHANGED <<tables, job>>

\* Another decayer has judged k otherwise and not written it.
JudgedOtherwise(d, k, retire) ==
    \E e \in Decayer \ {d} :
        decay[e].step = "write" /\ k \in decay[e].row /\ decay[e].retire # retire

\* confidence and retire are computed from the listed row and the clock.
Judge(d, k) ==
    LET retire == ~Worth(procs[k].good, k \in aged)
    IN  /\ decay[d].step = "next" /\ k \in decay[d].todo
        /\ DecayBecomes(d, [step |-> "write", todo |-> decay[d].todo \ {k},
                            row |-> {k}, retire |-> retire])
        /\ contested' = contested \cup
                           IF JudgedOtherwise(d, k, retire) THEN {k} ELSE {}
        /\ UNCHANGED <<episodes, embedded, procs, aged, items, confirmed, job>>

\* Fault: the UPDATE sets updated_at, too.
UpdateConfidenceFault(d) ==
    /\ decay[d].step = "write"
    /\ \E k \in decay[d].row :
         /\ procs' = IF decay[d].retire
                     THEN [procs EXCEPT ![k].usable = FALSE, ![k].status = "retired"]
                     ELSE [procs EXCEPT ![k].usable = TRUE]
         /\ aged' = aged \ {k}
    /\ DecayBecomes(d, IF decay[d].retire THEN [decay[d] EXCEPT !.step = "items"]
                       ELSE NextRow(d))
    /\ UNCHANGED <<episodes, embedded, items, confirmed, contested, job>>

\* update_procedure_confidence: the status changes with the confidence, and
\* only to 'retired'.
UpdateConfidence(d) ==
    /\ decay[d].step = "write"
    /\ \E k \in decay[d].row :
         procs' = IF decay[d].retire
                  THEN [procs EXCEPT ![k].usable = FALSE, ![k].status = "retired"]
                  ELSE [procs EXCEPT ![k].usable = TRUE]
    /\ DecayBecomes(d, IF decay[d].retire THEN [decay[d] EXCEPT !.step = "items"]
                       ELSE NextRow(d))
    /\ UNCHANGED <<episodes, embedded, aged, items, confirmed, contested, job>>

\* retire_orphaned_memory_items, a statement of its own.
RetireItems(d) ==
    /\ decay[d].step = "items"
    /\ items' = [k \in Proc |-> IF k \in decay[d].row /\ items[k] = "active"
                                THEN "retired" ELSE items[k]]
    /\ DecayBecomes(d, NextRow(d))
    /\ UNCHANGED <<episodes, embedded, procs, aged, confirmed, contested, job>>

\* failed += 1 and on to the next row.
DecayRowFails(d) ==
    /\ decay[d].step \in {"write", "items"}
    /\ DecayBecomes(d, NextRow(d))
    /\ UNCHANGED <<tables, job>>

DecayerEnds(d) ==
    /\ decay[d] # NoDecay
    /\ DecayBecomes(d, NoDecay)
    /\ UNCHANGED <<tables, job>>

Fade(d) ==
    \/ ListDecaying(d)
    \/ \E k \in Proc : Judge(d, k)
    \/ UpdateConfidence(d) \/ RetireItems(d)
    \/ DecayRowFails(d) \/ DecayerEnds(d)

-----------------------------------------------------------------------------
(* Everyone else.                                                           *)

\* act_measure(node) or gate(node) stores an episode, its embedding NULL.
InsertEpisode(e) ==
    /\ e \notin episodes
    /\ episodes' = episodes \cup {e}
    /\ UNCHANGED <<embedded, procs, aged, items, confirmed, contested, job, decay>>

\* update_memory_item_embedding
FillEmbedding(e) ==
    /\ e \in episodes \ embedded
    /\ embedded' = embedded \cup {e}
    /\ UNCHANGED <<episodes, procs, aged, items, confirmed, contested, job, decay>>

\* now() - updated_at passes the age at which the confidence is the floor; what
\* never succeeded is below it at any age.
GrowsOld(k) ==
    /\ procs[k].good /\ k \notin aged
    /\ aged' = aged \cup {k}
    /\ UNCHANGED <<episodes, embedded, procs, items, confirmed, contested, job, decay>>

\* The manual step for a draft: UPDATE procedures SET status = 'active'.
Confirm(k) ==
    /\ procs[k].status = "draft"
    /\ procs' = [procs EXCEPT ![k].status = "active"]
    /\ confirmed' = confirmed \cup {k}
    /\ UNCHANGED <<episodes, embedded, aged, items, contested, job, decay>>

Init ==
    /\ episodes = Seeded /\ embedded = Seeded
    /\ procs = [k \in Proc |-> NoRow]
    /\ aged = {} /\ confirmed = {} /\ contested = {}
    /\ items = [k \in Proc |-> "none"]
    /\ job = [w \in Worker |-> Idle]
    /\ decay = [d \in Decayer |-> NoDecay]

Next ==
    \/ \E w \in Worker : Consolidate(w)
    \/ \E d \in Decayer : Fade(d)
    \/ \E e \in Episode : InsertEpisode(e) \/ FillEmbedding(e)
    \/ \E k \in Proc : GrowsOld(k) \/ Confirm(k)

Spec == Init /\ [][Next]_vars

-----------------------------------------------------------------------------
TypeOK ==
    /\ episodes \subseteq Episode /\ embedded \subseteq Episode
    /\ procs \in [Proc -> ProcRow]
    /\ aged \subseteq Proc /\ confirmed \subseteq Proc /\ contested \subseteq Proc
    /\ items \in [Proc -> {"none", "active", "retired"}]
    /\ job \in [Worker -> Job]
    /\ decay \in [Decayer -> Decay]

\* recall_ann asks for an active item; hybrid() filters by the confidence that
\* get_candidate_details reads.
HardFilter(k) == items[k] = "active" /\ procs[k].usable

\* What recall() may return for a scope.
Citable(s) == {k \in Proc : k[1] = s /\ HardFilter(k)}

\* A promotion is whole: a procedure the consolidator activated has its memory
\* item, and an item always has a procedure behind it that is past its draft
\* (promote_procedure_active: "unrecallable dead weight", "cite something that
\* doesn't really exist").
PromotedWhole ==
    \A k \in Proc :
        /\ items[k] # "none" => procs[k].status \in {"active", "retired"}
        /\ procs[k].status = "active" /\ k \notin confirmed => items[k] # "none"

\* Whatever consolidators and decayers interleave, what recall returns is an
\* active procedure: retirement is visible to recall before the item is retired,
\* because the confidence falls in the same statement as the status, and a rerun
\* judges as the run before it did, as no decayer resets the clock.  Excepted is
\* what two overlapping decayers judged differently, one before and one after the
\* floor was reached.
CitableIsActive ==
    \A s \in Scope : \A k \in Citable(s) :
        procs[k].status = "active" \/ k \in contested

\* The decayer's docstring: twice concurrently, no state a rerun could corrupt.
\* A judgement made before the floor was reached, written after the other's
\* retirement, makes the retired row usable.
RerunsCorruptNothing ==
    \A k \in Proc : procs[k].status = "retired" => ~procs[k].usable

\* The first procedure of a scope is never activated by the consolidator, even
\* when two invocations induce at once: one with an item has a sibling.
FirstIsLeftToHuman ==
    \A k \in Proc : items[k] # "none" =>
        \E j \in Proc : j # k /\ j[1] = k[1] /\ Exists(j)

\* The handler's docstring: a scope with a procedure of any status has had its
\* human confirmation.  It is not so: the first may still be a draft.
HumanCrossedGate ==
    \A s \in Scope : Citable(s) # {} => \E k \in confirmed : k[1] = s

\* The decayer's docstring: after a run nothing in the index points at a
\* retired procedure.
NoOrphan ==
    (\A d \in Decayer : decay[d] = NoDecay) =>
        \A k \in Proc : procs[k].status = "retired" => items[k] # "active"
=============================================================================
