--------------------------- MODULE ProceduresProofs ---------------------------
(***************************************************************************)
(* Theorems about module Procedures: for any number of scopes, episodes    *)
(* and consolidators, a promotion is whole and a scope's first procedure   *)
(* is left to a human; and, for any number of decayers, what recall may    *)
(* cite is an active procedure unless two of them, overlapping, judged it  *)
(* differently.                                                            *)
(***************************************************************************)
EXTENDS Procedures, FiniteSetTheorems, TLAPS

-----------------------------------------------------------------------------
(* Shapes.                                                                 *)

OtherJobs(w) == \A v \in Worker \ {w} : job'[v] = job[v]

LEMMA IdleTyped == Idle \in Job /\ Idle.pc = "idle" /\ NoView \in View
BY DEF Idle, Job, NoView, View

LEMMA JobTyped ==
  ASSUME TypeOK, NEW w \in Worker, NEW r \in Job, Becomes(w, r)
  PROVE  job' \in [Worker -> Job] /\ job'[w] = r /\ OtherJobs(w)
BY DEF TypeOK, Becomes, OtherJobs

LEMMA DbTyped == ASSUME TypeOK PROVE Db \in View
<1>1. UNION {procs[k].sources : k \in Proc} \subseteq Episode
  BY DEF TypeOK, ProcRow
<1> QED
  BY <1>1 DEF Db, View, TypeOK

LEMMA ViewTyped ==
  ASSUME TypeOK, NEW w \in Worker
  PROVE  /\ ViewOf(w) \in View
         /\ ScopesIn(ViewOf(w)) \subseteq Scope
         /\ \A s : Candidates(ViewOf(w), s) \subseteq Episode
<1>1. job[w].view \in View
  BY DEF TypeOK, Job
<1>2. ViewOf(w) \in View
  BY <1>1, DbTyped DEF ViewOf
<1>3. ViewOf(w).episodes \subseteq Episode /\ ViewOf(w).embedded \subseteq Episode
  BY <1>2 DEF View
<1> QED
  BY <1>2, <1>3, ProceduresAssumption DEF ScopesIn, Candidates

LEMMA GoesOn ==
  ASSUME TypeOK, NEW w \in Worker, NEW txn \in {"none", "open", "aborted"},
         NEW view \in View, NEW rows \in SUBSET Episode, GoOn(w, txn, view, rows)
  PROVE  \E r \in Job : Becomes(w, r) /\ r.pc \in {"scopes", "rows"}
<1> DEFINE r == [job[w] EXCEPT !.pc = After(rows), !.txn = txn, !.view = view,
                               !.rows = rows, !.cluster = {}]
<1>1. job[w] \in Job /\ After(rows) \in {"scopes", "rows"}
  BY DEF TypeOK, After
<1>2. r \in Job /\ r.pc = After(rows)
  BY <1>1 DEF Job
<1>3. Becomes(w, r)
  BY DEF GoOn
<1> QED
  BY <1>1, <1>2, <1>3

LEMMA KeyTyped ==
  ASSUME NEW c \in SUBSET Episode, c # {} PROVE KeyOf(c) \in Proc
<1>1. (CHOOSE e \in c : TRUE) \in Episode
  OBVIOUS
<1> QED
  BY <1>1, ProceduresAssumption DEF KeyOf, Proc

LEMMA ClusterIsSome ==
  ASSUME NEW c \in SUBSET Episode, Cardinality(c) >= MinCluster PROVE c # {}
BY FS_EmptySet, ProceduresAssumption

LEMMA DraftTyped ==
  ASSUME NEW c \in SUBSET Episode
  PROVE  Draft(c) \in ProcRow /\ Draft(c).status = "draft"
<1>1. Worth(c \cap Succeeded # {}, FALSE) \in BOOLEAN
  BY DEF Worth
<1> QED
  BY <1>1 DEF Draft, ProcRow

-----------------------------------------------------------------------------
(* The invariant behind PromotedWhole and FirstIsLeftToHuman: a worker     *)
(* that goes on to promote has a procedure to promote and has seen that    *)
(* the scope has another one, and procedures are never deleted.            *)

HasSibling(k) == \E j \in Proc : j # k /\ j[1] = k[1] /\ Exists(j)

JobInv ==
  \A w \in Worker :
    /\ job[w].pc \in {"insert", "promote"} => job[w].cluster # {}
    /\ job[w].pc = "promote" => HasSibling(KeyOf(job[w].cluster))

IInv == TypeOK /\ PromotedWhole /\ FirstIsLeftToHuman /\ JobInv

\* Procedures only come.
Grows == \A k \in Proc : Exists(k) => Exists(k)'

LEMMA SiblingStays ==
  ASSUME Grows, NEW k, HasSibling(k) PROVE HasSibling(k)'
BY DEF Grows, HasSibling

LEMMA ClusterKeepsSibling ==
  ASSUME Grows, NEW v, NEW c, HasSibling(KeyOf(c)), job'[v].cluster = c
  PROVE  HasSibling(KeyOf(job[v].cluster))'
<1>1. KeyOf(job[v].cluster)' = KeyOf(c)
  BY DEF KeyOf
<1>2. PICK j \in Proc : j # KeyOf(c) /\ j[1] = KeyOf(c)[1] /\ Exists(j)
  BY DEF HasSibling
<1>3. Exists(j)'
  BY <1>2 DEF Grows
<1> QED
  BY <1>1, <1>2, <1>3 DEF HasSibling

\* A step of one job that touches no table.
LEMMA JobKeeps ==
  ASSUME IInv, NEW w \in Worker, NEW r \in Job, Becomes(w, r),
         r.pc # "promote", r.pc = "insert" => r.cluster # {},
         UNCHANGED <<tables, decay>>
  PROVE  IInv'
<1>1. job' \in [Worker -> Job] /\ job'[w] = r /\ OtherJobs(w)
  BY JobTyped DEF IInv
<1>2. TypeOK'
  BY <1>1 DEF IInv, TypeOK, tables
<1>3. PromotedWhole' /\ FirstIsLeftToHuman'
  BY DEF IInv, PromotedWhole, FirstIsLeftToHuman, Exists, tables
<1>4. JobInv'
  BY <1>1 DEF IInv, JobInv, OtherJobs, HasSibling, Exists, tables
<1> QED
  BY <1>2, <1>3, <1>4 DEF IInv

LEMMA JobGoesOn ==
  ASSUME IInv, NEW w \in Worker, NEW txn \in {"none", "open", "aborted"},
         NEW view \in View, NEW rows \in SUBSET Episode, GoOn(w, txn, view, rows),
         UNCHANGED <<tables, decay>>
  PROVE  IInv'
<1>1. PICK r \in Job : Becomes(w, r) /\ r.pc \in {"scopes", "rows"}
  BY GoesOn DEF IInv
<1> QED
  BY <1>1, JobKeeps

LEMMA InvInit == Init => IInv
<1> SUFFICES ASSUME Init PROVE IInv
  OBVIOUS
<1>1. NoRow \in ProcRow /\ NoDecay \in Decay
  BY DEF NoRow, ProcRow, NoDecay, Decay
<1>2. TypeOK
  BY <1>1, IdleTyped, ProceduresAssumption DEF Init, TypeOK
<1>3. PromotedWhole /\ FirstIsLeftToHuman
  BY DEF Init, NoRow, PromotedWhole, FirstIsLeftToHuman
<1>4. JobInv
  BY IdleTyped DEF Init, JobInv
<1> QED
  BY <1>2, <1>3, <1>4 DEF IInv

-----------------------------------------------------------------------------
(* The consolidator's steps.                                               *)

LEMMA ListScopesInv ==
  ASSUME IInv, NEW w \in Worker, ListScopes(w) PROVE IInv'
<1> DEFINE r == [Idle EXCEPT !.pc = "scopes", !.txn = "open",
                             !.view = ViewOf(w), !.scopes = ScopesIn(ViewOf(w))]
<1>1. ViewOf(w) \in View /\ ScopesIn(ViewOf(w)) \subseteq Scope
  BY ViewTyped DEF IInv
<1>2. r \in Job /\ r.pc = "scopes"
  BY <1>1 DEF Idle, Job
<1>3. Becomes(w, r)
  BY DEF ListScopes
<1> QED
  BY <1>2, <1>3, JobKeeps DEF ListScopes

LEMMA ListScopesFailsInv ==
  ASSUME IInv, NEW w \in Worker, ListScopesFails(w) PROVE IInv'
<1>1. Becomes(w, Idle) /\ Idle \in Job /\ Idle.pc = "idle"
  BY IdleTyped DEF ListScopesFails
<1> QED
  BY <1>1, JobKeeps DEF ListScopesFails

LEMMA ListCandidatesInv ==
  ASSUME IInv, NEW w \in Worker, NEW s \in Scope, ListCandidates(w, s) PROVE IInv'
<1> DEFINE rows == Candidates(ViewOf(w), s)
           r == [job[w] EXCEPT !.pc = After(rows), !.txn = "open",
                               !.view = ViewOf(w), !.scopes = @ \ {s},
                               !.rows = rows]
<1>1. ViewOf(w) \in View /\ rows \subseteq Episode
  BY ViewTyped DEF IInv
<1>2. job[w] \in Job /\ After(rows) \in {"scopes", "rows"}
  BY DEF IInv, TypeOK, After
<1> HIDE DEF rows
<1>3. r \in Job /\ r.pc \in {"scopes", "rows"}
  BY <1>1, <1>2 DEF Job
<1>4. Becomes(w, r)
  BY DEF ListCandidates, rows
<1> QED
  BY <1>3, <1>4, JobKeeps DEF ListCandidates

LEMMA ListCandidatesFailsInv ==
  ASSUME IInv, NEW w \in Worker, NEW s \in Scope, ListCandidatesFails(w, s)
  PROVE  IInv'
<1> DEFINE r == [job[w] EXCEPT !.txn = "aborted", !.view = NoView,
                               !.scopes = @ \ {s}]
<1>1. job[w] \in Job /\ job[w].pc = "scopes"
  BY DEF IInv, TypeOK, ListCandidatesFails
<1>2. r \in Job /\ r.pc = "scopes"
  BY <1>1, IdleTyped DEF Job
<1>3. Becomes(w, r)
  BY DEF ListCandidatesFails
<1> QED
  BY <1>2, <1>3, JobKeeps DEF ListCandidatesFails

LEMMA FindClusterInv ==
  ASSUME IInv, NEW w \in Worker, NEW b \in Buckets(job[w].rows), FindCluster(w, b)
  PROVE  IInv'
<1>1. job[w] \in Job /\ ViewOf(w) \in View
  BY ViewTyped DEF IInv, TypeOK
<1>2. job[w].rows \in SUBSET Episode
  BY <1>1 DEF Job
<1>3. b \subseteq job[w].rows
  BY DEF Buckets
<1>4. CASE \E c \in SUBSET b :
             /\ Cardinality(c) >= MinCluster
             /\ Becomes(w, [job[w] EXCEPT !.pc = "insert", !.txn = "open",
                                          !.view = ViewOf(w), !.rows = @ \ b,
                                          !.cluster = c])
  <2>1. PICK c \in SUBSET b :
             /\ Cardinality(c) >= MinCluster
             /\ Becomes(w, [job[w] EXCEPT !.pc = "insert", !.txn = "open",
                                          !.view = ViewOf(w), !.rows = @ \ b,
                                          !.cluster = c])
    BY <1>4
  <2> DEFINE r == [job[w] EXCEPT !.pc = "insert", !.txn = "open",
                                 !.view = ViewOf(w), !.rows = @ \ b, !.cluster = c]
  <2>2. c \in SUBSET Episode /\ c # {}
    BY <1>2, <1>3, <2>1, ClusterIsSome
  <2>3. r \in Job /\ r.pc = "insert" /\ r.cluster = c
    BY <1>1, <1>2, <2>2 DEF Job
  <2>4. Becomes(w, r)
    BY <2>1
  <2> QED
    BY <2>2, <2>3, <2>4, JobKeeps DEF FindCluster
<1>5. CASE GoOn(w, "open", ViewOf(w), job[w].rows \ b)
  <2>1. job[w].rows \ b \in SUBSET Episode
    BY <1>2
  <2> QED
    BY <1>1, <1>5, <2>1, JobGoesOn DEF FindCluster
<1> QED
  BY <1>4, <1>5 DEF FindCluster

LEMMA FindClusterFailsInv ==
  ASSUME IInv, NEW w \in Worker, NEW b, FindClusterFails(w, b)
  PROVE  IInv'
<1>1. job[w].rows \ b \in SUBSET Episode
  BY DEF IInv, TypeOK, Job
<1> QED
  BY <1>1, IdleTyped, JobGoesOn DEF FindClusterFails

\* A failed INSERT, a failed promotion: the loop goes on, the tables stay.
LEMMA RowsGoOn ==
  ASSUME IInv, NEW w \in Worker, GoOn(w, "none", NoView, job[w].rows),
         UNCHANGED <<tables, decay>>
  PROVE  IInv'
<1>1. job[w].rows \in SUBSET Episode
  BY DEF IInv, TypeOK, Job
<1> QED
  BY <1>1, IdleTyped, JobGoesOn

\* The draft is new to its key, so no item stands for it.  The worker goes on
\* to promote only when it has counted another procedure of the scope.
LEMMA InsertDraftInv ==
  ASSUME IInv, NEW w \in Worker, InsertDraft(w) PROVE IInv'
<1> DEFINE c == job[w].cluster
           k == KeyOf(c)
<1>1. job[w] \in Job /\ job[w].pc = "insert" /\ c # {}
  BY DEF IInv, TypeOK, JobInv, InsertDraft
<1>2. c \in SUBSET Episode /\ job[w].rows \in SUBSET Episode
  BY <1>1 DEF Job
<1>3. k \in Proc
  BY <1>1, <1>2, KeyTyped
<1>4. CASE Exists(k)
  <2>1. GoOn(w, "none", NoView, job[w].rows) /\ UNCHANGED procs
    BY <1>4 DEF InsertDraft
  <2> QED
    BY <2>1, RowsGoOn DEF InsertDraft, tables
<1>5. CASE ~Exists(k)
  <2>1. procs' = [procs EXCEPT ![k] = Draft(c)]
    BY <1>5 DEF InsertDraft
  <2>2. Draft(c) \in ProcRow /\ Draft(c).status = "draft"
    BY <1>2, DraftTyped
  <2>3. procs' \in [Proc -> ProcRow] /\ procs'[k] = Draft(c)
    BY <1>3, <2>1, <2>2 DEF IInv, TypeOK
  <2>4. \A j \in Proc \ {k} : procs'[j] = procs[j]
    BY <2>1 DEF IInv, TypeOK
  <2>5. Grows
    BY <2>2, <2>3, <2>4 DEF Grows, Exists
  <2>6. items[k] = "none"
    BY <1>3, <1>5 DEF IInv, PromotedWhole, Exists
  <2>7. PromotedWhole'
    BY <2>2, <2>3, <2>4, <2>6 DEF IInv, PromotedWhole, InsertDraft
  <2>8. FirstIsLeftToHuman'
    BY <2>5 DEF IInv, FirstIsLeftToHuman, Grows, InsertDraft
  <2>9. PICK r \in Job :
          /\ Becomes(w, r) /\ r.pc # "insert"
          /\ r.pc = "promote" => r.cluster = c /\ ~FirstEver(k)
    <3>1. CASE FirstEver(k) /\ GoOn(w, "none", NoView, job[w].rows)
      <4>1. \E r \in Job : Becomes(w, r) /\ r.pc \in {"scopes", "rows"}
        BY <1>2, <3>1, IdleTyped, GoesOn DEF IInv
      <4> QED
        BY <4>1
    <3>2. CASE /\ ~FirstEver(k)
               /\ Becomes(w, [job[w] EXCEPT !.pc = "promote",
                                            !.txn = "none", !.view = NoView])
      <4> DEFINE r == [job[w] EXCEPT !.pc = "promote",
                                     !.txn = "none", !.view = NoView]
      <4>1. r \in Job /\ r.pc = "promote" /\ r.cluster = c
        BY <1>1, IdleTyped DEF Job
      <4>2. Becomes(w, r)
        BY <3>2
      <4> QED
        BY <3>2, <4>1, <4>2
    <3> QED
      BY <1>5, <3>1, <3>2 DEF InsertDraft
  <2>10. job' \in [Worker -> Job] /\ job'[w] = r /\ OtherJobs(w)
    BY <2>9, JobTyped DEF IInv
  <2>11. TypeOK'
    BY <2>3, <2>10 DEF IInv, TypeOK, InsertDraft
  <2>12. ~FirstEver(k) => HasSibling(k)
    BY <1>5 DEF FirstEver, HasSibling
  <2>13. JobInv'
    <3> SUFFICES ASSUME NEW v \in Worker
                 PROVE  /\ job'[v].pc \in {"insert", "promote"} => job'[v].cluster # {}
                        /\ job'[v].pc = "promote" => HasSibling(KeyOf(job[v].cluster))'
      BY DEF JobInv
    <3>1. CASE v = w
      BY <1>1, <2>5, <2>9, <2>10, <2>12, <3>1, ClusterKeepsSibling
    <3>2. CASE v # w
      BY <2>5, <2>10, <3>2, ClusterKeepsSibling DEF IInv, JobInv, OtherJobs
    <3> QED
      BY <3>1, <3>2
  <2> QED
    BY <2>7, <2>8, <2>11, <2>13 DEF IInv
<1> QED
  BY <1>4, <1>5

\* The status and the item change together; the sibling counted before the
\* INSERT still exists.
LEMMA PromoteInv ==
  ASSUME IInv, NEW w \in Worker, Promote(w) PROVE IInv'
<1> DEFINE c == job[w].cluster
           k == KeyOf(c)
<1>1. job[w] \in Job /\ job[w].pc = "promote" /\ c # {} /\ HasSibling(k)
  BY DEF IInv, TypeOK, JobInv, Promote
<1>2. c \in SUBSET Episode /\ job[w].rows \in SUBSET Episode
  BY <1>1 DEF Job
<1>3. k \in Proc
  BY <1>1, <1>2, KeyTyped
<1>4. /\ procs' = [procs EXCEPT ![k].status = "active"]
      /\ items' = [items EXCEPT ![k] = "active"]
      /\ GoOn(w, "none", NoView, job[w].rows)
  BY DEF Promote
<1> HIDE DEF k, c
<1>5. /\ procs' \in [Proc -> ProcRow] /\ procs'[k].status = "active"
      /\ \A j \in Proc \ {k} : procs'[j] = procs[j]
  BY <1>3, <1>4 DEF IInv, TypeOK, ProcRow
<1>6. /\ items' \in [Proc -> {"none", "active", "retired"}] /\ items'[k] = "active"
      /\ \A j \in Proc \ {k} : items'[j] = items[j]
  BY <1>3, <1>4 DEF IInv, TypeOK
<1>7. Grows
  BY <1>5 DEF Grows, Exists
<1>8. PICK r \in Job : Becomes(w, r) /\ r.pc \in {"scopes", "rows"}
  BY <1>2, <1>4, IdleTyped, GoesOn DEF IInv
<1>9. job' \in [Worker -> Job] /\ job'[w] = r /\ OtherJobs(w)
  BY <1>8, JobTyped DEF IInv
<1>10. TypeOK'
  BY <1>5, <1>6, <1>9 DEF IInv, TypeOK, Promote
<1>11. PromotedWhole'
  BY <1>5, <1>6 DEF IInv, PromotedWhole, Promote
<1>12. FirstIsLeftToHuman'
  <2> SUFFICES ASSUME NEW j \in Proc, items'[j] # "none"
               PROVE  HasSibling(j)'
    BY DEF FirstIsLeftToHuman, HasSibling
  <2>1. HasSibling(j)
    BY <1>1, <1>6 DEF IInv, FirstIsLeftToHuman, HasSibling, k
  <2> QED
    BY <1>7, <2>1, SiblingStays
<1>13. JobInv'
  <2> SUFFICES ASSUME NEW v \in Worker
               PROVE  /\ job'[v].pc \in {"insert", "promote"} => job'[v].cluster # {}
                      /\ job'[v].pc = "promote" => HasSibling(KeyOf(job[v].cluster))'
    BY DEF JobInv
  <2>1. CASE v = w
    BY <1>8, <1>9, <2>1
  <2>2. CASE v # w
    BY <1>7, <1>9, <2>2, ClusterKeepsSibling DEF IInv, JobInv, OtherJobs
  <2> QED
    BY <2>1, <2>2
<1> QED
  BY <1>10, <1>11, <1>12, <1>13 DEF IInv

LEMMA ReturnInv ==
  ASSUME IInv, NEW w \in Worker, Return(w) PROVE IInv'
<1> DEFINE r == [Idle EXCEPT !.txn = "open", !.view = job[w].view]
<1>1. job[w].view \in View
  BY DEF IInv, TypeOK, Job
<1>2. r \in Job /\ r.pc = "idle"
  BY <1>1, IdleTyped DEF Idle, Job
<1>3. Becomes(w, r) \/ Becomes(w, Idle)
  BY DEF Return
<1> QED
  BY <1>2, <1>3, IdleTyped, JobKeeps DEF Return

LEMMA ContainerEndsInv ==
  ASSUME IInv, NEW w \in Worker, ContainerEnds(w) PROVE IInv'
<1>1. Becomes(w, Idle) /\ Idle \in Job /\ Idle.pc = "idle"
  BY IdleTyped DEF ContainerEnds
<1> QED
  BY <1>1, JobKeeps DEF ContainerEnds

LEMMA ConsolidateInv ==
  ASSUME IInv, NEW w \in Worker, Consolidate(w) PROVE IInv'
<1>1. CASE \E s \in Scope : ListCandidates(w, s) \/ ListCandidatesFails(w, s)
  BY <1>1, ListCandidatesInv, ListCandidatesFailsInv
<1>2. CASE \E b \in Buckets(job[w].rows) : FindCluster(w, b) \/ FindClusterFails(w, b)
  BY <1>2, FindClusterInv, FindClusterFailsInv
<1>3. CASE InsertDraftFails(w) \/ PromoteFails(w)
  BY <1>3, RowsGoOn DEF InsertDraftFails, PromoteFails
<1>4. CASE ListScopes(w) \/ ListScopesFails(w) \/ Return(w) \/ ContainerEnds(w)
  BY <1>4, ListScopesInv, ListScopesFailsInv, ReturnInv, ContainerEndsInv
<1> QED
  BY <1>1, <1>2, <1>3, <1>4, InsertDraftInv, PromoteInv DEF Consolidate

-----------------------------------------------------------------------------
(* The decayer's steps and everyone else's: no job changes.                *)

LEMMA JobInvStays ==
  ASSUME JobInv, Grows, UNCHANGED job PROVE JobInv'
<1> SUFFICES ASSUME NEW v \in Worker
             PROVE  /\ job[v].pc \in {"insert", "promote"} => job[v].cluster # {}
                    /\ job[v].pc = "promote" => HasSibling(KeyOf(job[v].cluster))'
  BY DEF JobInv
<1> QED
  BY ClusterKeepsSibling DEF JobInv

\* A step that leaves the procedures' statuses and the items alone.
LEMMA StatusStays ==
  ASSUME IInv, TypeOK', UNCHANGED <<items, confirmed, job>>,
         \A k \in Proc : procs'[k].status = procs[k].status
  PROVE  IInv'
<1>1. Grows /\ \A k \in Proc : Exists(k)' <=> Exists(k)
  BY DEF Grows, Exists
<1>2. PromotedWhole'
  BY DEF IInv, PromotedWhole
<1>3. FirstIsLeftToHuman'
  BY <1>1 DEF IInv, FirstIsLeftToHuman
<1>4. JobInv'
  BY <1>1, JobInvStays DEF IInv
<1> QED
  BY <1>2, <1>3, <1>4 DEF IInv

OtherDecays(d) == \A e \in Decayer \ {d} : decay'[e] = decay[e]

LEMMA DecayTyped ==
  ASSUME TypeOK, NEW d \in Decayer, NEW r \in Decay, DecayBecomes(d, r)
  PROVE  decay' \in [Decayer -> Decay] /\ decay'[d] = r /\ OtherDecays(d)
BY DEF TypeOK, DecayBecomes, OtherDecays

LEMMA NextRowTyped ==
  ASSUME TypeOK, NEW d \in Decayer
  PROVE  /\ NextRow(d) \in Decay /\ NextRow(d).step = "next"
         /\ NextRow(d).row = {} /\ NextRow(d).todo = decay[d].todo
BY DEF TypeOK, NextRow, Decay

LEMMA NoDecayTyped ==
  /\ NoDecay \in Decay /\ NoDecay.step = "next"
  /\ NoDecay.row = {} /\ NoDecay.todo = {}
BY DEF NoDecay, Decay

\* A step of one decayer that touches no table.
LEMMA DecayKeeps ==
  ASSUME IInv, NEW d \in Decayer, NEW r \in Decay, DecayBecomes(d, r),
         UNCHANGED <<episodes, embedded, procs, aged, items, confirmed, job>>,
         contested' \subseteq Proc
  PROVE  IInv'
<1>1. decay' \in [Decayer -> Decay]
  BY DecayTyped DEF IInv
<1>2. TypeOK'
  BY <1>1 DEF IInv, TypeOK
<1> QED
  BY <1>2, StatusStays

\* The rows a decayer works on, and the ones its steps leave it.
LEMMA ListedTyped ==
  ASSUME NEW d, ListDecaying(d)
  PROVE  \E r \in Decay :
           /\ DecayBecomes(d, r)
           /\ r.step = "next" /\ r.row = {}
           /\ r.todo = {k \in Proc : procs[k].status \in {"draft", "active"}}
<1> DEFINE todo == {k \in Proc : procs[k].status \in {"draft", "active"}}
           r == [NoDecay EXCEPT !.todo = todo]
<1>1. r \in Decay /\ r.step = "next" /\ r.row = {} /\ r.todo = todo
  BY DEF NoDecay, Decay
<1>2. DecayBecomes(d, r)
  BY DEF ListDecaying
<1> QED
  BY <1>1, <1>2

LEMMA JudgedTyped ==
  ASSUME TypeOK, NEW d \in Decayer, NEW k \in Proc, Judge(d, k)
  PROVE  \E r \in Decay :
           /\ DecayBecomes(d, r)
           /\ r.step = "write" /\ r.row = {k} /\ r.todo = decay[d].todo \ {k}
           /\ r.retire <=> ~Worth(procs[k].good, k \in aged)
           /\ contested' = contested \cup
                              IF JudgedOtherwise(d, k, r.retire) THEN {k} ELSE {}
<1> DEFINE retire == ~Worth(procs[k].good, k \in aged)
           r == [step |-> "write", todo |-> decay[d].todo \ {k}, row |-> {k},
                 retire |-> retire]
<1>1. procs[k].good \in BOOLEAN /\ decay[d].todo \subseteq Proc
  BY DEF TypeOK, ProcRow, Decay
<1>2. retire \in BOOLEAN
  <2>1. CASE Worth(procs[k].good, k \in aged)
    BY <2>1
  <2>2. CASE ~Worth(procs[k].good, k \in aged)
    BY <2>2
  <2> QED
    BY <2>1, <2>2
<1>3. r \in Decay
  BY <1>1, <1>2 DEF Decay
<1>4. /\ DecayBecomes(d, r)
      /\ contested' = contested \cup IF JudgedOtherwise(d, k, retire) THEN {k} ELSE {}
  BY DEF Judge
<1> QED
  BY <1>3, <1>4

\* What the UPDATE of one row does to the table and to the decayer.
Updated(d, k, r) ==
  /\ procs' \in [Proc -> ProcRow]
  /\ \A j \in Proc \ {k} : procs'[j] = procs[j]
  /\ r \in Decay /\ DecayBecomes(d, r) /\ r.todo = decay[d].todo
  /\ procs'[k].good = procs[k].good
  /\ \/ /\ decay[d].retire
        /\ procs'[k].status = "retired" /\ ~procs'[k].usable
        /\ r.step = "items" /\ r.row = decay[d].row
     \/ /\ ~decay[d].retire
        /\ procs'[k].status = procs[k].status
        /\ r.step = "next" /\ r.row = {}

LEMMA UpdatesRow ==
  ASSUME TypeOK, NEW d \in Decayer, UpdateConfidence(d)
  PROVE  \E k \in decay[d].row : \E r \in Decay : k \in Proc /\ Updated(d, k, r)
<1>1. PICK k \in decay[d].row :
        procs' = IF decay[d].retire
                 THEN [procs EXCEPT ![k].usable = FALSE, ![k].status = "retired"]
                 ELSE [procs EXCEPT ![k].usable = TRUE]
  BY DEF UpdateConfidence
<1>2. decay[d] \in Decay /\ k \in Proc
  BY <1>1 DEF TypeOK, Decay
<1>3. CASE decay[d].retire
  <2> DEFINE r == [decay[d] EXCEPT !.step = "items"]
  <2>1. /\ r \in Decay /\ r.step = "items"
        /\ r.row = decay[d].row /\ r.todo = decay[d].todo
    BY <1>2 DEF Decay
  <2>2. DecayBecomes(d, r)
    BY <1>3 DEF UpdateConfidence
  <2>3. procs' = [procs EXCEPT ![k].usable = FALSE, ![k].status = "retired"]
    BY <1>1, <1>3
  <2>4. /\ procs' \in [Proc -> ProcRow]
        /\ procs'[k].status = "retired" /\ procs'[k].usable = FALSE
        /\ procs'[k].good = procs[k].good
        /\ \A j \in Proc \ {k} : procs'[j] = procs[j]
    BY <1>2, <2>3 DEF TypeOK, ProcRow
  <2> QED
    BY <1>2, <1>3, <2>1, <2>2, <2>4 DEF Updated
<1>4. CASE ~decay[d].retire
  <2>1. DecayBecomes(d, NextRow(d))
    BY <1>4 DEF UpdateConfidence
  <2>2. procs' = [procs EXCEPT ![k].usable = TRUE]
    BY <1>1, <1>4
  <2>3. /\ procs' \in [Proc -> ProcRow]
        /\ procs'[k].status = procs[k].status /\ procs'[k].good = procs[k].good
        /\ \A j \in Proc \ {k} : procs'[j] = procs[j]
    BY <1>2, <2>2 DEF TypeOK, ProcRow
  <2> QED
    BY <1>2, <1>4, <2>1, <2>3, NextRowTyped DEF Updated
<1> QED
  BY <1>3, <1>4

\* Retirement is a status PromotedWhole allows an item.
LEMMA UpdateConfidenceInv ==
  ASSUME IInv, NEW d \in Decayer, UpdateConfidence(d) PROVE IInv'
<1>1. PICK k \in decay[d].row : \E r \in Decay : k \in Proc /\ Updated(d, k, r)
  BY UpdatesRow DEF IInv
<1>2. PICK r \in Decay : k \in Proc /\ Updated(d, k, r)
  BY <1>1
<1>3. UNCHANGED <<episodes, embedded, aged, items, confirmed, contested, job>>
  BY DEF UpdateConfidence
<1>4. decay' \in [Decayer -> Decay]
  BY <1>2, DecayTyped DEF IInv, Updated
<1>5. TypeOK'
  BY <1>2, <1>3, <1>4 DEF IInv, TypeOK, Updated
<1>6. CASE procs'[k].status = procs[k].status
  <2>1. \A j \in Proc : procs'[j].status = procs[j].status
    BY <1>2, <1>6 DEF Updated
  <2> QED
    BY <1>3, <1>5, <2>1, StatusStays
<1>7. CASE procs'[k].status = "retired"
  <2>1. Grows
    BY <1>2, <1>7 DEF Grows, Exists, Updated
  <2>2. PromotedWhole'
    BY <1>2, <1>3, <1>7 DEF IInv, PromotedWhole, Updated
  <2>3. FirstIsLeftToHuman'
    BY <1>3, <2>1 DEF IInv, FirstIsLeftToHuman, Grows
  <2>4. JobInv'
    BY <1>3, <2>1, JobInvStays DEF IInv
  <2> QED
    BY <1>5, <2>2, <2>3, <2>4 DEF IInv
<1> QED
  BY <1>2, <1>6, <1>7 DEF Updated

LEMMA RetireItemsInv ==
  ASSUME IInv, NEW d \in Decayer, RetireItems(d) PROVE IInv'
<1>1. decay' \in [Decayer -> Decay]
  BY NextRowTyped, DecayTyped DEF IInv, RetireItems
<1>2. items' \in [Proc -> {"none", "active", "retired"}]
  BY DEF IInv, TypeOK, RetireItems
<1>3. \A k \in Proc : items'[k] = "none" <=> items[k] = "none"
  BY DEF RetireItems
<1>4. TypeOK'
  BY <1>1, <1>2 DEF IInv, TypeOK, RetireItems
<1>5. PromotedWhole'
  BY <1>3 DEF IInv, PromotedWhole, RetireItems
<1>6. FirstIsLeftToHuman'
  BY <1>3 DEF IInv, FirstIsLeftToHuman, RetireItems, Exists
<1>7. JobInv'
  BY JobInvStays DEF IInv, RetireItems, Grows, Exists
<1> QED
  BY <1>4, <1>5, <1>6, <1>7 DEF IInv

LEMMA FadeInv ==
  ASSUME IInv, NEW d \in Decayer, Fade(d) PROVE IInv'
<1>0. contested \subseteq Proc
  BY DEF IInv, TypeOK
<1>1. CASE ListDecaying(d)
  BY <1>0, <1>1, ListedTyped, DecayKeeps DEF ListDecaying, tables
<1>2. CASE \E k \in Proc : Judge(d, k)
  <2>1. PICK k \in Proc : Judge(d, k)
    BY <1>2
  <2>2. PICK r \in Decay : DecayBecomes(d, r)
    BY <2>1, JudgedTyped DEF IInv
  <2>3. contested' \subseteq Proc
    BY <1>0, <2>1 DEF Judge
  <2> QED
    BY <2>1, <2>2, <2>3, DecayKeeps DEF Judge
<1>3. CASE DecayRowFails(d)
  BY <1>0, <1>3, NextRowTyped, DecayKeeps DEF DecayRowFails, IInv, tables
<1>4. CASE DecayerEnds(d)
  BY <1>0, <1>4, NoDecayTyped, DecayKeeps DEF DecayerEnds, tables
<1> QED
  BY <1>1, <1>2, <1>3, <1>4, UpdateConfidenceInv, RetireItemsInv DEF Fade

\* An operator's UPDATE makes a draft active without an item, and is recorded.
LEMMA ConfirmInv ==
  ASSUME IInv, NEW k \in Proc, Confirm(k) PROVE IInv'
<1>1. /\ procs' \in [Proc -> ProcRow] /\ procs'[k].status = "active"
      /\ \A j \in Proc \ {k} : procs'[j] = procs[j]
      /\ confirmed' = confirmed \cup {k}
  BY DEF IInv, TypeOK, ProcRow, Confirm
<1>2. TypeOK'
  BY <1>1 DEF IInv, TypeOK, Confirm
<1>3. PromotedWhole'
  BY <1>1 DEF IInv, PromotedWhole, Confirm
<1>4. Grows
  BY <1>1 DEF Grows, Exists
<1>5. FirstIsLeftToHuman'
  BY <1>4 DEF IInv, FirstIsLeftToHuman, Grows, Confirm
<1>6. JobInv'
  BY <1>4, JobInvStays DEF IInv, Confirm
<1> QED
  BY <1>2, <1>3, <1>5, <1>6 DEF IInv

LEMMA OthersInv ==
  ASSUME IInv,
         \/ \E e \in Episode : InsertEpisode(e) \/ FillEmbedding(e)
         \/ \E k \in Proc : GrowsOld(k)
  PROVE  IInv'
<1>1. /\ TypeOK' /\ UNCHANGED <<procs, items, confirmed, job>>
  BY DEF IInv, TypeOK, InsertEpisode, FillEmbedding, GrowsOld
<1> QED
  BY <1>1, StatusStays

LEMMA InvNext == ASSUME IInv, [Next]_vars PROVE IInv'
<1>1. CASE UNCHANGED vars
  <2>1. TypeOK' /\ UNCHANGED <<procs, items, confirmed, job>>
    BY <1>1 DEF IInv, TypeOK, vars
  <2> QED
    BY <2>1, StatusStays
<1> QED
  BY <1>1, ConsolidateInv, FadeInv, OthersInv, ConfirmInv DEF Next

LEMMA InvHolds == Spec => []IInv
<1> QED
  BY InvInit, InvNext, PTL DEF Spec

\* Every variable keeps its type, whatever the containers interleave.
THEOREM TypeCorrect == Spec => []TypeOK
<1>1. IInv => TypeOK
  BY DEF IInv
<1> QED
  BY <1>1, InvHolds, PTL

\* promote_procedure_active: a procedure the consolidator activated has its
\* memory item, and an item has a procedure that is past its draft.
THEOREM PromotionIsWhole == Spec => []PromotedWhole
<1>1. IInv => PromotedWhole
  BY DEF IInv
<1> QED
  BY <1>1, InvHolds, PTL

\* The consolidator never activates the first procedure of a scope, however
\* many invocations induce at once.
THEOREM FirstNeedsHuman == Spec => []FirstIsLeftToHuman
<1>1. IInv => FirstIsLeftToHuman
  BY DEF IInv
<1> QED
  BY <1>1, InvHolds, PTL

-----------------------------------------------------------------------------
(* Any number of decayers.  What was below the floor stays below it: the   *)
(* outcomes are never rewritten and no decayer resets the clock.  So a     *)
(* retired procedure is judged a retirement again by whoever listed it     *)
(* before, and only a judgement that was under way when the retirement was *)
(* judged, and differed from it, can make the row usable.                  *)

Doomed(k) == ~Worth(procs[k].good, k \in aged)

Judging(d, k) == decay[d].step = "write" /\ k \in decay[d].row

ListedExists ==
  \A d \in Decayer :
    /\ \A k \in decay[d].todo : Exists(k)
    /\ decay[d].step = "write" => \A k \in decay[d].row : Exists(k)

RetiredIsDoomed ==
  /\ \A k \in Proc : procs[k].status = "retired" => Doomed(k)
  /\ \A d \in Decayer : \A k \in Proc : Judging(d, k) /\ decay[d].retire => Doomed(k)

RetiredIsUnusable ==
  \A k \in Proc : procs[k].status = "retired" /\ k \notin contested =>
    /\ ~procs[k].usable
    /\ \A d \in Decayer : Judging(d, k) => decay[d].retire

DifferingContest ==
  \A d, e \in Decayer : \A k \in Proc :
    Judging(d, k) /\ Judging(e, k) /\ decay[d].retire # decay[e].retire
      => k \in contested

FInv == ListedExists /\ RetiredIsDoomed /\ RetiredIsUnusable /\ DifferingContest

\* A step that retires nothing, keeps what there is to judge, and leaves the
\* decayers alone.
LEMMA NothingFades ==
  ASSUME IInv, FInv, UNCHANGED <<decay, contested>>,
         \A k \in Proc : procs'[k].status = "retired" => procs'[k] = procs[k],
         \A k \in Proc : Exists(k) => Exists(k)' /\ (Doomed(k) => Doomed(k)')
  PROVE  FInv'
<1>1. \A d \in Decayer : decay[d].todo \subseteq Proc /\ decay[d].row \subseteq Proc
  BY DEF IInv, TypeOK, Decay
<1>2. \A d, k : Judging(d, k)' <=> Judging(d, k)
  BY DEF Judging
<1>3. ListedExists'
  BY <1>1 DEF FInv, ListedExists
<1>4. \A d \in Decayer : \A k \in Proc : Judging(d, k) => Exists(k)
  BY DEF FInv, ListedExists, Judging
<1>5. \A k \in Proc : procs[k].status = "retired" => Exists(k)
  BY DEF Exists
<1>6. RetiredIsDoomed'
  BY <1>2, <1>4, <1>5 DEF FInv, RetiredIsDoomed
<1>7. RetiredIsUnusable'
  BY <1>2 DEF FInv, RetiredIsUnusable
<1>8. DifferingContest'
  BY <1>2 DEF FInv, DifferingContest
<1> QED
  BY <1>3, <1>6, <1>7, <1>8 DEF FInv

\* A new draft, or a promotion.
LEMMA ConsolidateFades ==
  ASSUME IInv, FInv, NEW w \in Worker, Consolidate(w) PROVE FInv'
<1> DEFINE c == job[w].cluster
           k == KeyOf(c)
<1>1. CASE InsertDraft(w)
  <2>1. job[w] \in Job
    BY DEF IInv, TypeOK
  <2>2. c \in SUBSET Episode /\ c # {}
    BY <1>1, <2>1 DEF Job, IInv, JobInv, InsertDraft
  <2>3. k \in Proc /\ Draft(c).status = "draft"
    BY <2>2, KeyTyped, DraftTyped
  <2>4. procs' = procs \/ (~Exists(k) /\ procs' = [procs EXCEPT ![k] = Draft(c)])
    BY <1>1 DEF InsertDraft
  <2>5. \A j \in Proc : procs'[j] = procs[j]
                         \/ (j = k /\ ~Exists(j) /\ procs'[j].status = "draft")
    BY <2>3, <2>4 DEF IInv, TypeOK
  <2>6. UNCHANGED <<aged, decay, contested>>
    BY <1>1 DEF InsertDraft
  <2>7. \A j \in Proc : Exists(j) => Exists(j)' /\ (Doomed(j) => Doomed(j)')
    BY <2>5, <2>6 DEF Exists, Doomed
  <2> QED
    BY <2>5, <2>6, <2>7, NothingFades
<1>2. CASE Promote(w)
  <2>1. job[w] \in Job
    BY DEF IInv, TypeOK
  <2>2. c \in SUBSET Episode /\ c # {}
    BY <1>2, <2>1 DEF Job, IInv, JobInv, Promote
  <2>3. k \in Proc
    BY <2>2, KeyTyped
  <2>4. procs' = [procs EXCEPT ![k].status = "active"]
    BY <1>2 DEF Promote
  <2> HIDE DEF k
  <2>5. \A j \in Proc : procs'[j] = procs[j]
                         \/ (procs'[j].status = "active" /\ procs'[j].good = procs[j].good)
    BY <2>3, <2>4 DEF IInv, TypeOK, ProcRow
  <2>6. UNCHANGED <<aged, decay, contested>>
    BY <1>2 DEF Promote
  <2>7. \A j \in Proc : Exists(j) => Exists(j)' /\ (Doomed(j) => Doomed(j)')
    BY <2>5, <2>6 DEF Exists, Doomed
  <2> QED
    BY <2>5, <2>6, <2>7, NothingFades
<1>3. CASE UNCHANGED <<tables, decay>>
  BY <1>3, NothingFades DEF tables, Exists, Doomed
<1> QED
  BY <1>1, <1>2, <1>3 DEF Consolidate, ListScopes, ListScopesFails, ListCandidates,
     ListCandidatesFails, FindCluster, FindClusterFails, InsertDraftFails,
     PromoteFails, Return, ContainerEnds

\* A decayer's step that writes no procedure and judges none.
LEMMA DecayMoves ==
  ASSUME IInv, FInv, NEW d \in Decayer, NEW r \in Decay, DecayBecomes(d, r),
         UNCHANGED <<procs, aged, contested>>,
         \A k \in r.todo : Exists(k), r.step # "write"
  PROVE  FInv'
<1>1. decay'[d] = r /\ OtherDecays(d)
  BY DecayTyped DEF IInv
<1>2. \A k : Exists(k)' = Exists(k) /\ Doomed(k)' = Doomed(k)
  BY DEF Exists, Doomed
<1>3. \A e \in Decayer : decay'[e].step = "write" => decay'[e] = decay[e]
  BY <1>1 DEF OtherDecays
<1>4. ListedExists'
  <2> SUFFICES ASSUME NEW e \in Decayer
               PROVE  /\ \A k \in decay'[e].todo : Exists(k)'
                      /\ decay'[e].step = "write" => \A k \in decay'[e].row : Exists(k)'
    BY DEF ListedExists
  <2>1. CASE e = d
    BY <1>1, <1>2, <2>1
  <2>2. CASE e # d
    BY <1>1, <1>2, <2>2 DEF OtherDecays, FInv, ListedExists
  <2> QED
    BY <2>1, <2>2
<1>5. \A e \in Decayer : \A k : Judging(e, k)' => Judging(e, k) /\ decay'[e] = decay[e]
  BY <1>3 DEF Judging
<1>6. RetiredIsDoomed'
  BY <1>2, <1>5 DEF FInv, RetiredIsDoomed
<1>7. RetiredIsUnusable'
  BY <1>5 DEF FInv, RetiredIsUnusable
<1>8. DifferingContest'
  BY <1>5 DEF FInv, DifferingContest
<1> QED
  BY <1>4, <1>6, <1>7, <1>8 DEF FInv

\* A judgement: of a retired procedure it is a retirement, and it contests what
\* is judged otherwise at that time.
LEMMA JudgeFades ==
  ASSUME IInv, FInv, NEW d \in Decayer, NEW k \in Proc, Judge(d, k)
  PROVE  FInv'
<1>1. PICK r \in Decay :
        /\ DecayBecomes(d, r)
        /\ r.step = "write" /\ r.row = {k} /\ r.todo = decay[d].todo \ {k}
        /\ r.retire <=> ~Worth(procs[k].good, k \in aged)
        /\ contested' = contested \cup
                           IF JudgedOtherwise(d, k, r.retire) THEN {k} ELSE {}
  BY JudgedTyped DEF IInv
<1>2. decay'[d] = r /\ OtherDecays(d)
  BY <1>1, DecayTyped DEF IInv
<1>3. k \in decay[d].todo /\ UNCHANGED <<procs, aged>>
  BY DEF Judge, tables
<1>4. r.retire <=> Doomed(k)
  BY <1>1 DEF Doomed
<1>5. \A j : Exists(j)' = Exists(j) /\ Doomed(j)' = Doomed(j)
  BY <1>3 DEF Exists, Doomed
<1>6. \A j : Judging(d, j)' <=> j = k
  BY <1>1, <1>2 DEF Judging
<1>7. \A e \in Decayer \ {d} : \A j : decay'[e] = decay[e] /\ (Judging(e, j)' <=> Judging(e, j))
  BY <1>2 DEF OtherDecays, Judging
<1>8. ListedExists'
  <2> SUFFICES ASSUME NEW e \in Decayer
               PROVE  /\ \A j \in decay'[e].todo : Exists(j)'
                      /\ decay'[e].step = "write" => \A j \in decay'[e].row : Exists(j)'
    BY DEF ListedExists
  <2>1. CASE e = d
    BY <1>1, <1>2, <1>3, <1>5, <2>1 DEF FInv, ListedExists
  <2>2. CASE e # d
    BY <1>5, <1>7, <2>2 DEF FInv, ListedExists
  <2> QED
    BY <2>1, <2>2
<1>9. RetiredIsDoomed'
  <2> SUFFICES ASSUME NEW e \in Decayer, NEW j \in Proc
               PROVE  /\ procs'[j].status = "retired" => Doomed(j)'
                      /\ Judging(e, j)' /\ decay'[e].retire => Doomed(j)'
    BY DEF RetiredIsDoomed
  <2>1. CASE e = d
    BY <1>2, <1>3, <1>4, <1>5, <1>6, <2>1 DEF FInv, RetiredIsDoomed
  <2>2. CASE e # d
    BY <1>3, <1>5, <1>7, <2>2 DEF FInv, RetiredIsDoomed
  <2> QED
    BY <2>1, <2>2
<1>10. RetiredIsUnusable'
  <2> SUFFICES ASSUME NEW e \in Decayer, NEW j \in Proc,
                      procs'[j].status = "retired", j \notin contested'
               PROVE  ~procs'[j].usable /\ (Judging(e, j)' => decay'[e].retire)
    BY DEF RetiredIsUnusable
  <2>1. procs[j].status = "retired" /\ j \notin contested /\ Doomed(j)
    BY <1>1, <1>3 DEF FInv, RetiredIsDoomed
  <2>2. ~procs'[j].usable
    BY <1>3, <2>1 DEF FInv, RetiredIsUnusable
  <2>3. CASE e = d
    BY <1>2, <1>4, <1>6, <2>1, <2>2, <2>3
  <2>4. CASE e # d
    BY <1>7, <2>1, <2>2, <2>4 DEF FInv, RetiredIsUnusable
  <2> QED
    BY <2>3, <2>4
<1>11. DifferingContest'
  <2>1. ASSUME NEW e \in Decayer \ {d}, Judging(e, k), decay[e].retire # r.retire
        PROVE  k \in contested'
    BY <1>1, <2>1 DEF JudgedOtherwise, Judging
  <2> SUFFICES ASSUME NEW e \in Decayer, NEW f \in Decayer, NEW j \in Proc,
                      Judging(e, j)', Judging(f, j)', decay'[e].retire # decay'[f].retire
               PROVE  j \in contested'
    BY DEF DifferingContest
  <2>2. CASE e = d
    BY <1>2, <1>6, <1>7, <2>1, <2>2
  <2>3. CASE f = d
    BY <1>2, <1>6, <1>7, <2>1, <2>3
  <2>4. CASE e # d /\ f # d
    BY <1>1, <1>7, <2>4 DEF FInv, DifferingContest
  <2> QED
    BY <2>2, <2>3, <2>4
<1> QED
  BY <1>8, <1>9, <1>10, <1>11 DEF FInv

\* A retirement leaves others' judgements of the row alike or contested; an
\* UPDATE that does not retire is of no retired row that is not contested.
LEMMA UpdateFades ==
  ASSUME IInv, FInv, NEW d \in Decayer, UpdateConfidence(d)
  PROVE  FInv'
<1>1. PICK k \in decay[d].row : \E r \in Decay : k \in Proc /\ Updated(d, k, r)
  BY UpdatesRow DEF IInv
<1>2. PICK r \in Decay : k \in Proc /\ Updated(d, k, r)
  BY <1>1
<1>3. Judging(d, k) /\ UNCHANGED <<aged, contested>> /\ Exists(k)
  BY <1>1 DEF UpdateConfidence, Judging, FInv, ListedExists
<1>4. decay'[d] = r /\ OtherDecays(d) /\ r.step # "write" /\ r.todo = decay[d].todo
  BY <1>2, DecayTyped DEF IInv, Updated
<1>5. \A j \in Proc : j # k => procs'[j] = procs[j]
  BY <1>2 DEF Updated
<1>6. procs'[k].good = procs[k].good
  BY <1>2 DEF Updated
<1>7. \A j \in Proc : (Doomed(j)' <=> Doomed(j)) /\ (Exists(j) => Exists(j)')
  <2> SUFFICES ASSUME NEW j \in Proc
               PROVE  (Doomed(j)' <=> Doomed(j)) /\ (Exists(j) => Exists(j)')
    OBVIOUS
  <2>1. CASE j = k
    BY <1>2, <1>3, <1>6, <2>1 DEF Updated, Exists, Doomed
  <2>2. CASE j # k
    BY <1>3, <1>5, <2>2 DEF Exists, Doomed
  <2> QED
    BY <2>1, <2>2
<1>8. \A e \in Decayer : \A j : Judging(e, j)' => e # d /\ Judging(e, j) /\ decay'[e] = decay[e]
  BY <1>4 DEF OtherDecays, Judging
<1>9. ListedExists'
  <2> SUFFICES ASSUME NEW e \in Decayer
               PROVE  /\ \A j \in decay'[e].todo : Exists(j)'
                      /\ decay'[e].step = "write" => \A j \in decay'[e].row : Exists(j)'
    BY DEF ListedExists
  <2>1. decay[e].todo \subseteq Proc /\ decay[e].row \subseteq Proc
    BY DEF IInv, TypeOK, Decay
  <2>2. CASE e = d
    BY <1>4, <1>7, <2>1, <2>2 DEF FInv, ListedExists
  <2>3. CASE e # d
    BY <1>4, <1>7, <2>1, <2>3 DEF FInv, ListedExists, OtherDecays
  <2> QED
    BY <2>2, <2>3
<1>10. RetiredIsDoomed'
  <2>1. \A j \in Proc : procs'[j].status = "retired" => Doomed(j)
    <3>1. CASE decay[d].retire
      BY <1>3, <1>5, <3>1 DEF FInv, RetiredIsDoomed
    <3>2. CASE ~decay[d].retire
      BY <1>2, <1>5, <3>2 DEF FInv, RetiredIsDoomed, Updated
    <3> QED
      BY <3>1, <3>2
  <2> QED
    BY <1>7, <1>8, <2>1 DEF FInv, RetiredIsDoomed
<1>11. RetiredIsUnusable'
  <2> SUFFICES ASSUME NEW j \in Proc, procs'[j].status = "retired", j \notin contested
               PROVE  /\ ~procs'[j].usable
                      /\ \A e \in Decayer : Judging(e, j)' => decay'[e].retire
    BY <1>3 DEF RetiredIsUnusable
  <2>1. CASE j # k
    BY <1>5, <1>8, <2>1 DEF FInv, RetiredIsUnusable
  <2>2. CASE j = k /\ decay[d].retire
    <3>1. ~procs'[k].usable
      BY <1>2, <2>2 DEF Updated
    <3>2. ASSUME NEW e \in Decayer, Judging(e, k)' PROVE decay'[e].retire
      <4>1. Judging(e, k) /\ decay'[e] = decay[e]
        BY <1>8, <3>2
      <4>2. decay[e].retire = decay[d].retire
        BY <1>3, <2>2, <4>1 DEF FInv, DifferingContest
      <4> QED
        BY <2>2, <4>1, <4>2
    <3> QED
      BY <2>2, <3>1, <3>2
  <2>3. CASE j = k /\ ~decay[d].retire
    BY <1>2, <1>3, <2>3 DEF FInv, RetiredIsUnusable, Updated
  <2> QED
    BY <2>1, <2>2, <2>3
<1>12. DifferingContest'
  BY <1>3, <1>8 DEF FInv, DifferingContest
<1> QED
  BY <1>9, <1>10, <1>11, <1>12 DEF FInv

LEMMA FadeFades ==
  ASSUME IInv, FInv, NEW d \in Decayer, Fade(d) PROVE FInv'
<1>1. CASE ListDecaying(d)
  <2>1. PICK r \in Decay :
          /\ DecayBecomes(d, r)
          /\ r.step = "next" /\ r.row = {}
          /\ r.todo = {k \in Proc : procs[k].status \in {"draft", "active"}}
    BY <1>1, ListedTyped
  <2> QED
    BY <1>1, <2>1, DecayMoves DEF ListDecaying, tables, Exists
<1>2. CASE \E k \in Proc : Judge(d, k)
  BY <1>2, JudgeFades
<1>3. CASE RetireItems(d) \/ DecayRowFails(d)
  <2>1. DecayBecomes(d, NextRow(d)) /\ UNCHANGED <<procs, aged, contested>>
    BY <1>3 DEF RetireItems, DecayRowFails, tables
  <2>2. \A j \in decay[d].todo : Exists(j)
    BY DEF FInv, ListedExists
  <2> QED
    BY <2>1, <2>2, NextRowTyped, DecayMoves DEF IInv
<1>4. CASE DecayerEnds(d)
  BY <1>4, NoDecayTyped, DecayMoves DEF DecayerEnds, tables
<1> QED
  BY <1>1, <1>2, <1>3, <1>4, UpdateFades DEF Fade

LEMMA FInvNext ==
  ASSUME IInv, FInv, [Next]_vars PROVE FInv'
<1>1. CASE \E k \in Proc : Confirm(k)
  <2>1. PICK k \in Proc : Confirm(k)
    BY <1>1
  <2>2. \A j \in Proc : procs'[j] = procs[j]
                         \/ (procs'[j].status = "active" /\ procs'[j].good = procs[j].good)
    BY <2>1 DEF Confirm, IInv, TypeOK, ProcRow
  <2>3. UNCHANGED <<aged, decay, contested>>
    BY <2>1 DEF Confirm
  <2>4. \A j \in Proc : Exists(j) => Exists(j)' /\ (Doomed(j) => Doomed(j)')
    BY <2>2, <2>3 DEF Exists, Doomed
  <2> QED
    BY <2>2, <2>3, <2>4, NothingFades
<1>2. CASE UNCHANGED <<procs, decay, contested>> /\ aged \subseteq aged'
  BY <1>2, NothingFades DEF Exists, Doomed, Worth
<1>3. CASE \/ \E e \in Episode : InsertEpisode(e) \/ FillEmbedding(e)
           \/ \E k \in Proc : GrowsOld(k)
  BY <1>2, <1>3 DEF InsertEpisode, FillEmbedding, GrowsOld
<1>4. CASE UNCHANGED vars
  BY <1>2, <1>4 DEF vars
<1> QED
  BY <1>1, <1>3, <1>4, ConsolidateFades, FadeFades DEF Next

\* Whatever consolidators, the operator and any number of decayers interleave,
\* fail and repeat, what recall returns is an active procedure, or one that two
\* overlapping decayers judged differently.
THEOREM CitedIsActive == Spec => []CitableIsActive
<1>1. Init => FInv
  BY DEF Init, FInv, ListedExists, RetiredIsDoomed, RetiredIsUnusable, DifferingContest,
         Judging, NoRow, NoDecay
<1>2. IInv /\ FInv /\ [Next]_vars => FInv'
  BY FInvNext
<1>3. IInv /\ FInv => CitableIsActive
  BY DEF IInv, PromotedWhole, FInv, RetiredIsUnusable, CitableIsActive, Citable, HardFilter
<1> QED
  BY <1>1, <1>2, <1>3, InvHolds, PTL DEF Spec
=============================================================================
