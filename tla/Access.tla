-------------------------------- MODULE Access --------------------------------
(***************************************************************************)
(* Who may do what, and with which password: the roles the migrations      *)
(* create and grant to (db/migrations/, run by scripts/run_sql.py, and     *)
(* db/target/, run by its bootstrap script), the bootstrap scripts that    *)
(* give a role its password, publish it and verify the role's privileges   *)
(* (scripts/bootstrap_*_role*.py), and the Lambda containers that log in   *)
(* with it (workers/common/).  The memory and the target cluster share no  *)
(* role name: one set of roles and grants stands for both.                 *)
(*                                                                         *)
(* A password is the number of the bootstrap run that set it.  Each        *)
(* statement and each call of Secrets Manager is a step; a script that     *)
(* raises stops where it is.                                               *)
(***************************************************************************)
EXTENDS Naturals, Sequences

CONSTANTS
    File,      \* migrations that are run
    Script,    \* bootstrap scripts that are run
    Worker,    \* roles whose Lambda is deployed
    MaxRuns    \* bound: bootstrap runs

ASSUME AccessAssumption ==
    /\ File \subseteq {"002", "005", "006", "007", "008", "009"}
    /\ Script \subseteq {"reader", "approver", "webhook", "sweep", "lifecycle", "target"}
    /\ MaxRuns \in Nat

VARIABLES
    granted,   \* <<role, verb, table>>
    roles,     \* pg_roles
    sqlrun,    \* the run of run_sql.py: the statements left
    password, env, secret,   \* of each credential; 0: none yet
    boot,      \* the bootstrap run
    exit,      \* how the last run of each script ended
    container, \* the Lambda containers
    runs

vars == <<granted, roles, sqlrun, password, env, secret, boot, exit, container, runs>>

database == <<granted, roles, sqlrun>>

credentials == <<password, env, secret>>

-----------------------------------------------------------------------------
(* The migrations: one statement is a set of grants, {} a CREATE ROLE.      *)

To(role, verbs, tables) == {role} \X verbs \X tables

Statement(role, grants) == [role |-> role, grants |-> grants]

Creates(role) == Statement(role, {})

Grants(role, verbs, tables) == Statement(role, To(role, verbs, tables))

ReaderStatements ==
    <<Creates("engram_reader"),
      Grants("engram_reader", {"SELECT"},
             {"v_recent_tasks", "v_action_feed", "v_memory_inspector", "observations"})>>

ReaderApprovalsStatements ==
    <<Grants("engram_reader", {"SELECT"}, {"approvals"})>>

ApproverStatements ==
    <<Creates("engram_approver"),
      Grants("engram_approver", {"SELECT", "UPDATE"}, {"approvals"})>>

WebhookStatements ==
    <<Creates("engram_webhook"),
      Grants("engram_webhook", {"SELECT", "INSERT"}, {"tasks"}),
      Grants("engram_webhook", {"INSERT"}, {"observations"}),
      Grants("engram_webhook", {"SELECT", "INSERT", "UPDATE"}, {"entities"})>>

SweepStatements ==
    <<Creates("engram_sweep_enumerator"),
      Grants("engram_sweep_enumerator", {"SELECT"}, {"watched_queries"})>>

LifecycleStatements ==
    <<Creates("engram_embedding_backfill"),
      Grants("engram_embedding_backfill", {"SELECT", "UPDATE"}, {"memory_items"}),
      Grants("engram_embedding_backfill", {"SELECT", "INSERT"}, {"embedding_cache"}),
      Creates("engram_decayer"),
      Grants("engram_decayer", {"SELECT", "UPDATE"}, {"procedures"}),
      Grants("engram_decayer", {"SELECT", "UPDATE"}, {"memory_items"}),
      Creates("engram_consolidator"),
      Grants("engram_consolidator", {"SELECT"}, {"remediation_actions"}),
      Grants("engram_consolidator", {"SELECT"}, {"tasks"}),
      Grants("engram_consolidator", {"SELECT"}, {"entities"}),
      Grants("engram_consolidator", {"SELECT", "INSERT"}, {"memory_items"}),
      Grants("engram_consolidator", {"SELECT", "INSERT"}, {"procedures"})>>

\* ALTER DEFAULT PRIVILEGES grants on the tables the admin creates later.
TargetTables == {"existing", "created_later"}

TargetStatements ==
    <<Creates("engram_probe"),
      Grants("engram_probe", {"SELECT"}, {"existing"}),
      Grants("engram_probe", {"SELECT"}, {"created_later"}),
      Creates("engram_operator"),
      Grants("engram_operator", {"SELECT", "CREATE"}, {"existing"}),
      Grants("engram_operator", {"SELECT", "CREATE"}, {"created_later"})>>

StatementsOf(file) ==
    CASE file = "002" -> ReaderStatements
      [] file = "005" -> ReaderApprovalsStatements
      [] file = "006" -> ApproverStatements
      [] file = "007" -> WebhookStatements
      [] file = "008" -> SweepStatements
      [] file = "009" -> LifecycleStatements

-----------------------------------------------------------------------------
(* What the Lambdas' own statements need; an INSERT needs SELECT on the     *)
(* tables its foreign keys refer to, an ON CONFLICT and a WHERE on its own. *)

ApproverNeeds == To("engram_approver", {"SELECT", "UPDATE"}, {"approvals"})

WebhookNeeds ==
    To("engram_webhook", {"SELECT", "INSERT"}, {"tasks"})
    \cup To("engram_webhook", {"INSERT"}, {"observations"})
    \cup To("engram_webhook", {"SELECT", "INSERT", "UPDATE"}, {"entities"})

SweepNeeds == To("engram_sweep_enumerator", {"SELECT"}, {"watched_queries"})

BackfillNeeds ==
    To("engram_embedding_backfill", {"SELECT", "UPDATE"}, {"memory_items"})
    \cup To("engram_embedding_backfill", {"SELECT", "INSERT"}, {"embedding_cache"})

DecayerNeeds ==
    To("engram_decayer", {"SELECT", "UPDATE"}, {"procedures", "memory_items"})

ConsolidatorNeeds ==
    To("engram_consolidator", {"SELECT"},
       {"remediation_actions", "tasks", "entities", "memory_items", "procedures"})
    \cup To("engram_consolidator", {"INSERT"}, {"procedures", "memory_items"})
    \cup To("engram_consolidator", {"UPDATE"}, {"procedures"})  \* promotion

Needs == ApproverNeeds \cup WebhookNeeds \cup SweepNeeds
         \cup BackfillNeeds \cup DecayerNeeds \cup ConsolidatorNeeds

-----------------------------------------------------------------------------
(* The bootstrap scripts: their roles in order, and the probes of each role *)
(* that must succeed and that must fail.                                    *)

RolesOf(script) ==
    CASE script = "reader" -> <<"engram_reader">>
      [] script = "approver" -> <<"engram_approver">>
      [] script = "webhook" -> <<"engram_webhook">>
      [] script = "sweep" -> <<"engram_sweep_enumerator">>
      [] script = "lifecycle" ->
            <<"engram_embedding_backfill", "engram_decayer", "engram_consolidator">>
      [] script = "target" -> <<"engram_probe", "engram_operator">>

\* Each probe by what it needs.
ReaderProbes ==
    [works |-> {To("engram_reader", {"SELECT"}, {t}) : t \in
                  {"v_recent_tasks", "v_action_feed", "v_memory_inspector",
                   "observations", "approvals"}},
     fails |-> {To("engram_reader", {"SELECT"}, {"remediation_actions"}),
                To("engram_reader", {"SELECT"}, {"decisions"}),
                To("engram_reader", {"INSERT"}, {"observations"})}]

ApproverProbes ==
    [works |-> {To("engram_approver", {"SELECT"}, {"approvals"}),
                To("engram_approver", {"SELECT", "UPDATE"}, {"approvals"})},
     fails |-> {To("engram_approver", {"INSERT"}, {"approvals"}),
                To("engram_approver", {"SELECT"}, {"tasks"})}]

WebhookProbes ==
    [works |-> {To("engram_webhook", {"SELECT", "INSERT"}, {"tasks"}),
                To("engram_webhook", {"SELECT"}, {"tasks"}),
                To("engram_webhook", {"INSERT"}, {"observations"}),
                To("engram_webhook", {"SELECT", "INSERT", "UPDATE"}, {"entities"})},
     fails |-> {To("engram_webhook", {"DELETE"}, {"tasks"}),
                To("engram_webhook", {"SELECT"}, {"approvals"})}]

SweepProbes ==
    [works |-> {To("engram_sweep_enumerator", {"SELECT"}, {"watched_queries"})},
     fails |-> {To("engram_sweep_enumerator", {"INSERT"}, {"watched_queries"}),
                To("engram_sweep_enumerator", {"SELECT"}, {"tasks"})}]

BackfillProbes ==
    [works |-> {To("engram_embedding_backfill", {"SELECT"}, {"memory_items"}),
                To("engram_embedding_backfill", {"SELECT", "INSERT"}, {"embedding_cache"})},
     fails |-> {To("engram_embedding_backfill", {"INSERT"}, {"memory_items"}),
                To("engram_embedding_backfill", {"SELECT"}, {"tasks"})}]

DecayerProbes ==
    [works |-> {To("engram_decayer", {"SELECT"}, {"procedures"})},
     fails |-> {To("engram_decayer", {"INSERT"}, {"procedures"}),
                To("engram_decayer", {"SELECT"}, {"tasks"})}]

ConsolidatorProbes ==
    [works |-> {To("engram_consolidator", {"SELECT"}, {"remediation_actions"}),
                To("engram_consolidator", {"INSERT"}, {"procedures"})
                    \cup To("engram_consolidator", {"SELECT"}, {"tasks"}),
                To("engram_consolidator", {"INSERT"}, {"memory_items"})
                    \cup To("engram_consolidator", {"SELECT"}, {"entities"})},
     fails |-> {To("engram_consolidator", {"SELECT", "UPDATE"}, {"procedures"}),
                To("engram_consolidator", {"INSERT"}, {"embedding_cache"})}]

\* On a disposable table, created once the roles have their passwords: CREATE
\* INDEX, ANALYZE, DROP TABLE, GRANT.
TargetProbes ==
    [works |-> {To("engram_probe", {"SELECT"}, {"created_later"})},
     fails |-> {To("engram_probe", {"CREATE"}, {"created_later"})}]

OperatorProbes ==
    [works |-> {To("engram_operator", {verb}, {"created_later"}) : verb \in {"CREATE", "SELECT"}},
     fails |-> {To("engram_operator", {verb}, {"created_later"}) : verb \in {"DROP", "GRANT"}}]

Probes(role) ==
    CASE role = "engram_reader" -> ReaderProbes
      [] role = "engram_approver" -> ApproverProbes
      [] role = "engram_webhook" -> WebhookProbes
      [] role = "engram_sweep_enumerator" -> SweepProbes
      [] role = "engram_embedding_backfill" -> BackfillProbes
      [] role = "engram_decayer" -> DecayerProbes
      [] role = "engram_consolidator" -> ConsolidatorProbes
      [] role = "engram_probe" -> TargetProbes
      [] role = "engram_operator" -> OperatorProbes

Role == UNION {{RolesOf(s)[i] : i \in DOMAIN RolesOf(s)} : s \in Script}

ASSUME WorkerAssumption == Worker \subseteq Role

\* The credentials of a role: its DSN, and the webhook's HMAC secret.
Hmac == "webhook_hmac"

CredentialsOf(role) ==
    IF role = "engram_webhook" THEN <<role, Hmac>> ELSE <<role>>

Credential == UNION {{CredentialsOf(r)[i] : i \in DOMAIN CredentialsOf(r)} : r \in Role}

\* The secrets a script writes for a role: the dashboard and the agent's tools
\* read their DSNs from env.
SecretsOf(role) ==
    IF role \in {"engram_reader", "engram_probe", "engram_operator"}
    THEN <<>> ELSE CredentialsOf(role)

-----------------------------------------------------------------------------
(* run_sql.py: autocommit, one statement after the other.                   *)

RunSql(file) ==
    /\ sqlrun = <<>>
    /\ sqlrun' = StatementsOf(file)
    /\ UNCHANGED <<granted, roles, credentials, boot, exit, container, runs>>

\* A GRANT to a role that is not there is an error like any other.
Does(s) ==
    /\ roles' = IF s.grants = {} THEN roles \cup {s.role} ELSE roles
    /\ granted' = IF s.role \in roles THEN granted \cup s.grants ELSE granted

Execute ==
    /\ sqlrun # <<>>
    /\ Does(Head(sqlrun))
    /\ sqlrun' = Tail(sqlrun)
    /\ UNCHANGED <<credentials, boot, exit, container, runs>>

\* The statement fails: the next one, or --stop-on-error.
ExecuteFails ==
    /\ sqlrun # <<>>
    /\ \/ sqlrun' = Tail(sqlrun)
       \/ sqlrun' = <<>>
    /\ UNCHANGED <<granted, roles, credentials, boot, exit, container, runs>>

-----------------------------------------------------------------------------
(* A bootstrap run.                                                         *)

Step == {"idle", "migrate", "check", "alter", "env", "secret", "probe", "cleanup"}

NoRun == [script |-> "none", step |-> "idle", sql |-> <<>>, left |-> <<>>,
          puts |-> <<>>, failed |-> FALSE]

Doing(step) == boot.step = step

TheRole == Head(boot.left)

Becomes(r) == boot' = r

\* main() returns, or raises; a finally closes the connection and no more.
Exits(how) ==
    /\ exit' = [exit EXCEPT ![boot.script] = how]
    /\ Becomes(NoRun)

\* One operator: a script is not started while one runs.
StartScript(script) ==
    /\ Doing("idle") /\ runs < MaxRuns
    /\ runs' = runs + 1
    /\ exit' = [exit EXCEPT ![script] = "none"]
    /\ Becomes([NoRun EXCEPT !.script = script, !.left = RolesOf(script),
                             !.step = IF script = "target" THEN "migrate" ELSE "check",
                             !.sql = IF script = "target" THEN TargetStatements ELSE <<>>])
    /\ UNCHANGED <<database, credentials, container>>

OfTarget == boot.script = "target"

\* "ABORT: run db/migrations/... first."
CheckRole ==
    /\ Doing("check")
    /\ IF TheRole \in roles
       THEN Becomes([boot EXCEPT !.step = "alter"]) /\ UNCHANGED exit
       ELSE Exits("1")
    /\ UNCHANGED <<database, credentials, container, runs>>

\* ALTER ROLE ... WITH LOGIN PASSWORD, a fresh one.
AlterRole ==
    /\ Doing("alter") /\ ~OfTarget
    /\ password' = [password EXCEPT ![TheRole] = runs]
    /\ Becomes([boot EXCEPT !.step = "env", !.puts = CredentialsOf(TheRole)])
    /\ UNCHANGED <<database, env, secret, exit, container, runs>>

\* _upsert_env_var: a write of the file for each credential of the role.
UpsertEnvVar ==
    /\ Doing("env") /\ ~OfTarget
    /\ env' = [env EXCEPT ![Head(boot.puts)] = runs]
    /\ IF Len(boot.puts) = 1
       THEN Becomes([boot EXCEPT
                !.step = IF SecretsOf(TheRole) = <<>> THEN "probe" ELSE "secret",
                !.puts = SecretsOf(TheRole)])
       ELSE Becomes([boot EXCEPT !.puts = Tail(@)])
    /\ UNCHANGED <<database, password, secret, exit, container, runs>>

NextSecret(ok) ==
    Becomes([boot EXCEPT !.puts = Tail(@), !.failed = @ \/ ~ok,
                         !.step = IF Len(boot.puts) = 1 THEN "probe" ELSE "secret"])

\* Fault: a secret that exists is left as it is.
PutSecretFault ==
    /\ Doing("secret")
    /\ secret' = [secret EXCEPT ![Head(boot.puts)] = IF @ = 0 THEN runs ELSE @]
    /\ NextSecret(TRUE)
    /\ UNCHANGED <<database, password, env, exit, container, runs>>

\* _put_secret creates the secret, or updates the one that exists.
PutSecret ==
    /\ Doing("secret")
    /\ secret' = [secret EXCEPT ![Head(boot.puts)] = runs]
    /\ NextSecret(TRUE)
    /\ UNCHANGED <<database, password, env, exit, container, runs>>

\* Fault: the warning is printed and the result not looked at.
PutSecretDeniedFault ==
    /\ Doing("secret")
    /\ NextSecret(TRUE)
    /\ UNCHANGED <<database, credentials, exit, container, runs>>

\* AccessDenied, no boto3: False, and the script goes on, with what the secret
\* held before.  A put_secret_value denied after "the secret exists" is caught by
\* nothing (ScriptRaises).
PutSecretDenied ==
    /\ Doing("secret")
    /\ NextSecret(FALSE)
    /\ UNCHANGED <<database, credentials, exit, container, runs>>

\* The target's script runs its own migration, and does one thing for both of
\* its roles before the next.
MigrateTarget ==
    /\ Doing("migrate")
    /\ Does(Head(boot.sql))
    /\ Becomes([boot EXCEPT !.sql = Tail(@),
                            !.step = IF Len(boot.sql) = 1 THEN "alter" ELSE "migrate"])
    /\ UNCHANGED <<sqlrun, credentials, exit, container, runs>>

NextRole(phase) ==
    Becomes(IF Len(boot.left) = 1
            THEN [boot EXCEPT !.step = phase, !.left = RolesOf("target")]
            ELSE [boot EXCEPT !.left = Tail(@)])

AlterTargetRole ==
    /\ Doing("alter") /\ OfTarget
    /\ password' = [password EXCEPT ![TheRole] = runs]
    /\ NextRole("env")
    /\ UNCHANGED <<database, env, secret, exit, container, runs>>

UpsertTargetVar ==
    /\ Doing("env") /\ OfTarget
    /\ env' = [env EXCEPT ![TheRole] = runs]
    /\ NextRole("probe")
    /\ UNCHANGED <<database, password, secret, exit, container, runs>>

\* _try_as: the privileges are asked for what the statement needs ...
Allowed(needs) == needs \subseteq granted

\* ... and "correctly FAILS" is any exception: of a probe that must fail, a
\* connection that is lost passes as well.
ProbeRole(lost) ==
    /\ Doing("probe")
    /\ LET p == Probes(TheRole)
           login == env[TheRole] = password[TheRole]
           ok == /\ login
                 /\ \A needs \in p.works : Allowed(needs) /\ needs \notin lost
                 /\ \A needs \in p.fails : ~Allowed(needs) \/ needs \in lost
       IN  Becomes([boot EXCEPT !.left = Tail(@), !.failed = @ \/ ~ok,
                                !.step = IF Len(boot.left) = 1 THEN "cleanup"
                                         ELSE IF OfTarget THEN "probe" ELSE "check"])
    /\ UNCHANGED <<database, credentials, exit, container, runs>>

\* The disposable rows are deleted; 0 iff no check failed.
Cleanup ==
    /\ Doing("cleanup")
    /\ Exits(IF boot.failed THEN "1" ELSE "0")
    /\ UNCHANGED <<database, credentials, container, runs>>

\* An admin statement or put_secret_value fails, the file cannot be written, ^C.
ScriptRaises ==
    /\ ~Doing("idle")
    /\ Exits("raised")
    /\ UNCHANGED <<database, credentials, container, runs>>

Bootstrap ==
    \/ CheckRole \/ AlterRole \/ UpsertEnvVar \/ PutSecret \/ PutSecretDenied
    \/ MigrateTarget \/ AlterTargetRole \/ UpsertTargetVar \/ Cleanup
    \/ \E lost \in SUBSET (IF Doing("probe")
                           THEN Probes(TheRole).works \cup Probes(TheRole).fails
                           ELSE {}) : ProbeRole(lost)

-----------------------------------------------------------------------------
(* The Lambda containers.                                                   *)

\* cached is resolve_secret's, for the life of the process; session the
\* password the open connection has logged in with, 0: none.
Container == [cached: 0 .. MaxRuns, session: 0 .. MaxRuns]

Cold == [cached |-> 0, session |-> 0]

\* resolve_secret
Resolved(w) == IF container[w].cached # 0 THEN container[w].cached ELSE secret[w]

\* get_..._connection: a live connection is used again, whatever the password
\* is now; else one login with the password resolved.
Invoke(w) ==
    /\ container[w].session = 0
    /\ LET p == Resolved(w)
       IN  container' = [container EXCEPT ![w] =
                            [cached |-> p,
                             session |-> IF p = password[w] THEN p ELSE 0]]
    /\ UNCHANGED <<database, credentials, boot, exit, runs>>

\* CockroachDB Cloud closes an idle connection: _is_alive is False.
IdleClose(w) ==
    /\ container[w].session # 0
    /\ container' = [container EXCEPT ![w].session = 0]
    /\ UNCHANGED <<database, credentials, boot, exit, runs>>

\* AWS reclaims the container.
Recycle(w) ==
    /\ container[w] # Cold
    /\ container' = [container EXCEPT ![w] = Cold]
    /\ UNCHANGED <<database, credentials, boot, exit, runs>>

Init ==
    /\ granted = {} /\ roles = {} /\ sqlrun = <<>>
    /\ password = [r \in Role |-> 0]
    /\ env = [c \in Credential |-> 0] /\ secret = [c \in Credential |-> 0]
    /\ boot = NoRun
    /\ exit = [s \in Script |-> "none"]
    /\ container = [w \in Worker |-> Cold]
    /\ runs = 0

Next ==
    \/ \E f \in File : RunSql(f)
    \/ Execute \/ ExecuteFails
    \/ \E s \in Script : StartScript(s)
    \/ Bootstrap \/ ScriptRaises
    \/ \E w \in Worker : Invoke(w) \/ IdleClose(w) \/ Recycle(w)

Spec == Init /\ [][Next]_vars

\* A Lambda is invoked again and again, and no container lives for ever.
Fairness == \A w \in Worker : WF_vars(Invoke(w)) /\ WF_vars(Recycle(w))

FairSpec == Spec /\ Fairness

-----------------------------------------------------------------------------
Version == 0 .. MaxRuns

Statements ==
    {TargetStatements[i] : i \in DOMAIN TargetStatements}
    \cup UNION {{StatementsOf(f)[i] : i \in DOMAIN StatementsOf(f)} : f \in File}

TypeOK ==
    /\ granted \subseteq UNION {s.grants : s \in Statements}
    /\ \A g \in granted : g[1] \in roles
    /\ password \in [Role -> Version]
    /\ env \in [Credential -> Version] /\ secret \in [Credential -> Version]
    /\ boot.script \in Script \cup {"none"} /\ boot.step \in Step
    /\ boot.failed \in BOOLEAN
    /\ \A i \in DOMAIN boot.left : boot.left[i] \in Role
    /\ \A i \in DOMAIN boot.puts : boot.puts[i] \in Credential
    /\ exit \in [Script -> {"none", "0", "1", "raised"}]
    /\ container \in [Worker -> Container]
    /\ runs \in Version

RoleSet(script) == {RolesOf(script)[i] : i \in DOMAIN RolesOf(script)}

\* A script that exits 0 leaves one password: what the role has is what .env and
\* Secrets Manager say, whatever earlier runs left half done.
SuccessMeansCurrent ==
    \A s \in Script : exit[s] = "0" =>
        \A r \in RoleSet(s) :
            /\ env[r] = password[r]
            /\ \A i \in DOMAIN SecretsOf(r) :
                 secret[SecretsOf(r)[i]] = env[SecretsOf(r)[i]]

\* After such a run a Lambda that cached the old password, and lost the session
\* it had, works again by itself, unless a script is run once more.
LambdaRecovers ==
    \A s \in Script : \A w \in RoleSet(s) \cap Worker :
        exit[s] = "0" ~> (container[w].session # 0 \/ exit[s] # "0")

\* A grant that run_sql.py lost on the way does not get past the verification:
\* whatever a probe asked for is granted once a script has exited 0.
VerifiedIsGranted ==
    \A s \in Script : exit[s] = "0" =>
        \A r \in RoleSet(s) : \A needs \in Probes(r).works : Allowed(needs)

MigrationsRun ==
    \A f \in File : \A i \in DOMAIN StatementsOf(f) :
        StatementsOf(f)[i].grants \subseteq granted

\* Migration 009: each role is "scoped to exactly the tables that Lambda's own
\* SQL touches"; with every statement of the migrations executed and a script's
\* verification passed, the Lambda's own statements are allowed.
VerifiedCanWork ==
    \A s \in Script : MigrationsRun /\ exit[s] = "0" =>
        \A n \in Needs : n[1] \in RoleSet(s) => n \in granted
===============================================================================
