----------------------------- MODULE AccessProofs -----------------------------
(***************************************************************************)
(* Theorems about module Access, for any of the migrations and scripts and *)
(* any number of runs: what a bootstrap script that exited 0 leaves behind.*)
(***************************************************************************)
EXTENDS Access, TLAPS

-----------------------------------------------------------------------------
(* Sequences.                                                              *)

Elems(s) == {s[i] : i \in DOMAIN s}

LEMMA EmptyLen ==
  ASSUME NEW S, NEW t \in Seq(S)
  PROVE  Len(t) = 0 <=> t = <<>>
OBVIOUS

LEMMA TailElems ==
  ASSUME NEW S, NEW s \in Seq(S), s # <<>>
  PROVE  /\ Head(s) \in S /\ Head(s) \in Elems(s) /\ Tail(s) \in Seq(S)
         /\ Elems(Tail(s)) \subseteq Elems(s)
         /\ Elems(s) \subseteq {Head(s)} \cup Elems(Tail(s))
         /\ Len(s) = 1 <=> Tail(s) = <<>>
<1>1. Len(s) \in Nat \ {0} /\ DOMAIN s = 1 .. Len(s)
  OBVIOUS
<1>2. /\ Tail(s) \in Seq(S) /\ Len(Tail(s)) = Len(s) - 1
      /\ DOMAIN Tail(s) = 1 .. Len(s) - 1
      /\ \A i \in DOMAIN Tail(s) : Tail(s)[i] = s[i + 1]
  BY <1>1
<1>3. ASSUME NEW i \in DOMAIN s PROVE s[i] \in {Head(s)} \cup Elems(Tail(s))
  <2>1. CASE i = 1
    BY <2>1
  <2>2. CASE i # 1
    <3>1. i - 1 \in DOMAIN Tail(s)
      BY <1>1, <1>2, <2>2
    <3>2. Tail(s)[i - 1] = s[i]
      BY <1>1, <1>2, <3>1
    <3> QED
      BY <3>1, <3>2 DEF Elems
  <2> QED
    BY <2>1, <2>2
<1>4. ASSUME NEW i \in DOMAIN Tail(s) PROVE Tail(s)[i] \in Elems(s)
  <2>1. i + 1 \in DOMAIN s
    BY <1>1, <1>2
  <2> QED
    BY <1>2, <2>1 DEF Elems
<1>5. Head(s) \in Elems(s) /\ Head(s) \in S
  BY <1>1 DEF Elems
<1>6. Len(s) = 1 <=> Tail(s) = <<>>
  <2>1. Len(s) = 1 <=> Len(Tail(s)) = 0
    BY <1>1, <1>2
  <2>2. Len(Tail(s)) = 0 <=> Tail(s) = <<>>
    BY <1>2, EmptyLen
  <2> QED
    BY <2>1, <2>2
<1>7. Elems(Tail(s)) \subseteq Elems(s)
  BY <1>4 DEF Elems
<1>8. Elems(s) \subseteq {Head(s)} \cup Elems(Tail(s))
  BY <1>3 DEF Elems
<1> QED
  BY <1>2, <1>5, <1>6, <1>7, <1>8

-----------------------------------------------------------------------------
(* The tables of the module.                                               *)

KnownRole == {"engram_reader", "engram_approver", "engram_webhook",
              "engram_sweep_enumerator", "engram_embedding_backfill",
              "engram_decayer", "engram_consolidator",
              "engram_probe", "engram_operator"}

LEMMA RolesKnown ==
  ASSUME NEW s \in Script
  PROVE  /\ RolesOf(s) \in Seq(KnownRole) /\ RolesOf(s) # <<>>
         /\ DOMAIN RolesOf(s) = 1 .. Len(RolesOf(s))
<1>1. CASE s \in {"reader", "approver", "webhook", "sweep"}
  <2>1. PICK r \in KnownRole : RolesOf(s) = <<r>>
    BY <1>1 DEF RolesOf, KnownRole
  <2> QED
    BY <2>1
<1>2. CASE s = "lifecycle"
  <2>1. RolesOf(s) =
          <<"engram_embedding_backfill", "engram_decayer", "engram_consolidator">>
    BY <1>2 DEF RolesOf
  <2> HIDE <1>2
  <2> QED
    BY <2>1 DEF KnownRole
<1>3. CASE s = "target"
  <2>1. RolesOf(s) = <<"engram_probe", "engram_operator">>
    BY <1>3 DEF RolesOf
  <2> HIDE <1>3
  <2> QED
    BY <2>1 DEF KnownRole
<1> QED
  BY <1>1, <1>2, <1>3, AccessAssumption

LEMMA RolesTyped ==
  ASSUME NEW s \in Script
  PROVE  /\ RolesOf(s) \in Seq(Role) /\ RolesOf(s) # <<>>
         /\ Elems(RolesOf(s)) = RoleSet(s)
         /\ RoleSet(s) \subseteq Role
<1>1. Elems(RolesOf(s)) = RoleSet(s) /\ RoleSet(s) \subseteq Role
  BY DEF Elems, RoleSet, Role
<1>2. RolesOf(s) \in Seq(Role)
  BY <1>1, RolesKnown DEF Elems
<1> QED
  BY <1>1, <1>2, RolesKnown

LEMMA RoleIsKnown == Role \subseteq KnownRole
<1>1. ASSUME NEW s \in Script, NEW i \in DOMAIN RolesOf(s) PROVE RolesOf(s)[i] \in KnownRole
  BY RolesKnown
<1> QED
  BY <1>1 DEF Role

\* A role has one script.
LEMMA ScriptsDisjoint ==
  ASSUME NEW s \in Script, NEW t \in Script, s # t
  PROVE  RoleSet(s) \cap RoleSet(t) = {}
<1> DEFINE Of(x) == CASE x = "reader" -> {"engram_reader"}
                      [] x = "approver" -> {"engram_approver"}
                      [] x = "webhook" -> {"engram_webhook"}
                      [] x = "sweep" -> {"engram_sweep_enumerator"}
                      [] x = "lifecycle" -> {"engram_embedding_backfill",
                            "engram_decayer", "engram_consolidator"}
                      [] x = "target" -> {"engram_probe", "engram_operator"}
<1>1. ASSUME NEW x \in Script PROVE RoleSet(x) \subseteq Of(x)
  BY AccessAssumption DEF RoleSet, RolesOf
<1>2. Of(s) \cap Of(t) = {}
  BY AccessAssumption
<1> QED
  BY <1>1, <1>2

\* A credential has one role.
LEMMA CredentialsTyped ==
  ASSUME NEW r \in Role
  PROVE  /\ CredentialsOf(r) \in Seq(Credential) /\ SecretsOf(r) \in Seq(Credential)
         /\ r \in Elems(CredentialsOf(r)) /\ r \in Credential
         /\ Elems(SecretsOf(r)) \subseteq Elems(CredentialsOf(r))
         /\ Elems(CredentialsOf(r)) \subseteq Credential
<1>1. Elems(CredentialsOf(r)) \subseteq Credential
  BY DEF Elems, Credential
<1>2. CredentialsOf(r) = <<r>> \/ CredentialsOf(r) = <<r, Hmac>>
  BY DEF CredentialsOf
<1>3. r \in Elems(CredentialsOf(r))
  BY <1>2 DEF Elems
<1>4. CredentialsOf(r) \in Seq(Credential)
  BY <1>1, <1>2 DEF Elems
<1>5. SecretsOf(r) = <<>> \/ SecretsOf(r) = CredentialsOf(r)
  BY DEF SecretsOf
<1>6. SecretsOf(r) \in Seq(Credential)
  <2>1. <<>> \in Seq(Credential)
    OBVIOUS
  <2> QED
    BY <1>4, <1>5, <2>1
<1>7. Elems(SecretsOf(r)) \subseteq Elems(CredentialsOf(r))
  BY <1>5 DEF Elems
<1> QED
  BY <1>1, <1>3, <1>4, <1>6, <1>7

\* The target's roles have a password each, and no secret.
LEMMA TargetCredentials ==
  ASSUME NEW r \in RoleSet("target")
  PROVE  Elems(SecretsOf(r)) = {} /\ Elems(CredentialsOf(r)) = {r}
<1>1. r \in {"engram_probe", "engram_operator"}
  BY DEF RoleSet, RolesOf
<1> QED
  BY <1>1 DEF Elems, SecretsOf, CredentialsOf

LEMMA CredentialsDisjoint ==
  ASSUME NEW r \in Role, NEW q \in Role, r # q
  PROVE  Elems(CredentialsOf(r)) \cap Elems(CredentialsOf(q)) = {}
<1>1. r \in KnownRole /\ q \in KnownRole
  BY RoleIsKnown
<1>2. r # Hmac /\ q # Hmac
  BY <1>1 DEF KnownRole, Hmac
<1>3. ASSUME NEW x
      PROVE  Elems(CredentialsOf(x)) = IF x = "engram_webhook" THEN {x, Hmac} ELSE {x}
  BY DEF Elems, CredentialsOf
<1> QED
  BY <1>2, <1>3

-----------------------------------------------------------------------------
(* Migrations.                                                             *)

\* A statement grants to its role.
GrantsToRole(s) == \A g \in s.grants : g[1] = s.role

LEMMA StatementShape ==
  ASSUME NEW role, NEW verbs, NEW tables
  PROVE  GrantsToRole(Creates(role)) /\ GrantsToRole(Grants(role, verbs, tables))
BY DEF GrantsToRole, Creates, Grants, Statement, To

LEMMA StatementsTyped ==
  ASSUME NEW f \in File
  PROVE  /\ StatementsOf(f) \in Seq(Statements)
         /\ \A s \in Elems(StatementsOf(f)) : GrantsToRole(s)
<1> DEFINE Long == {ReaderStatements, ReaderApprovalsStatements, ApproverStatements,
                    WebhookStatements, SweepStatements, LifecycleStatements}
<1>1. StatementsOf(f) \in Long
  BY AccessAssumption DEF StatementsOf
<1>2. ASSUME NEW t \in Long
      PROVE  /\ t \in Seq(Elems(t))
             /\ \A i \in DOMAIN t : GrantsToRole(t[i])
  <2>1. CASE t = ReaderStatements
    BY <2>1, StatementShape DEF ReaderStatements, Elems
  <2>2. CASE t = ReaderApprovalsStatements
    BY <2>2, StatementShape DEF ReaderApprovalsStatements, Elems
  <2>3. CASE t = ApproverStatements
    BY <2>3, StatementShape DEF ApproverStatements, Elems
  <2>4. CASE t = WebhookStatements
    BY <2>4, StatementShape DEF WebhookStatements, Elems
  <2>5. CASE t = SweepStatements
    BY <2>5, StatementShape DEF SweepStatements, Elems
  <2>6. CASE t = LifecycleStatements
    BY <2>6, StatementShape DEF LifecycleStatements, Elems
  <2> QED
    BY <2>1, <2>2, <2>3, <2>4, <2>5, <2>6
<1>3. Elems(StatementsOf(f)) \subseteq Statements
  BY DEF Elems, Statements
<1>4. StatementsOf(f) \in Seq(Statements)
  BY <1>1, <1>2, <1>3
<1> QED
  BY <1>1, <1>2, <1>4 DEF Elems

LEMMA TargetStatementsTyped ==
  /\ TargetStatements \in Seq(Statements) /\ TargetStatements # <<>>
  /\ \A s \in Elems(TargetStatements) : GrantsToRole(s)
<1>1. Elems(TargetStatements) \subseteq Statements
  BY DEF Elems, Statements
<1>2. /\ TargetStatements \in Seq(Elems(TargetStatements)) /\ TargetStatements # <<>>
      /\ \A i \in DOMAIN TargetStatements : GrantsToRole(TargetStatements[i])
  BY StatementShape DEF TargetStatements, Elems
<1> QED
  BY <1>1, <1>2 DEF Elems

\* A statement adds a role or grants.
LEMMA DoesTyped ==
  ASSUME NEW s \in Statements, GrantsToRole(s), Does(s),
         granted \subseteq UNION {x.grants : x \in Statements},
         \A g \in granted : g[1] \in roles
  PROVE  /\ granted' \subseteq UNION {x.grants : x \in Statements}
         /\ \A g \in granted' : g[1] \in roles'
         /\ granted \subseteq granted'
<1>1. granted' \subseteq granted \cup s.grants /\ granted \subseteq granted'
  BY DEF Does
<1>2. ASSUME NEW g \in granted' PROVE g[1] \in roles'
  <2>1. CASE g \in granted
    BY <2>1 DEF Does
  <2>2. CASE g \notin granted
    BY <1>2, <2>2 DEF Does, GrantsToRole
  <2> QED
    BY <2>1, <2>2
<1> QED
  BY <1>1, <1>2

-----------------------------------------------------------------------------
(* Types.                                                                  *)

Exit == {"none", "0", "1", "raised"}

\* The shape of a bootstrap run's record: while it runs, the roles left are roles
\* of its script, and the step tells whether there is one.
Boot == [script: Script \cup {"none"}, step: Step, sql: Seq(Statements), left: Seq(Role),
         puts: Seq(Credential), failed: BOOLEAN]

BootOK(b) ==
  /\ b \in Boot
  /\ b.step # "idle" => b.script \in Script /\ Elems(b.left) \subseteq RoleSet(b.script)
  /\ b.step \in {"migrate", "check", "alter", "env", "secret", "probe"} => b.left # <<>>
  /\ b.step = "migrate" => b.script = "target" /\ b.sql # <<>>
  /\ b.script = "target" => b.step \notin {"check", "secret"}
  /\ \A s \in Elems(b.sql) : GrantsToRole(s)
  /\ b.step = "cleanup" => b.left = <<>>
  /\ b.step = "secret" => b.puts # <<>>
  /\ b.step = "env" /\ b.script # "target" => b.puts # <<>>

Typed ==
  /\ granted \subseteq UNION {s.grants : s \in Statements}
  /\ \A g \in granted : g[1] \in roles
  /\ sqlrun \in Seq(Statements) /\ \A s \in Elems(sqlrun) : GrantsToRole(s)
  /\ password \in [Role -> Version]
  /\ env \in [Credential -> Version] /\ secret \in [Credential -> Version]
  /\ BootOK(boot)
  /\ exit \in [Script -> Exit]
  /\ container \in [Worker -> Container]
  /\ runs \in Version

LEMMA TypedIsTypeOK == Typed => TypeOK
BY DEF Typed, TypeOK, BootOK, Boot, Exit

LEMMA NoRunTyped == BootOK(NoRun) /\ NoRun \in Boot /\ NoRun.step = "idle"
<1>1. /\ <<>> \in Seq(Role) /\ <<>> \in Seq(Credential) /\ <<>> \in Seq(Statements)
      /\ Elems(<<>>) = {}
  BY DEF Elems
<1> QED
  BY <1>1 DEF NoRun, BootOK, Boot, Step

LEMMA TheRoleTyped ==
  ASSUME Typed, boot.step \in {"check", "alter", "env", "secret", "probe"}
  PROVE  /\ TheRole \in Role /\ TheRole \in RoleSet(boot.script)
         /\ boot.script \in Script
         /\ Tail(boot.left) \in Seq(Role)
         /\ Elems(Tail(boot.left)) \subseteq RoleSet(boot.script)
         /\ Elems(boot.left) \subseteq {TheRole} \cup Elems(Tail(boot.left))
         /\ Len(boot.left) = 1 <=> Tail(boot.left) = <<>>
<1>1. boot.left \in Seq(Role) /\ boot.left # <<>> /\ boot.script \in Script
      /\ Elems(boot.left) \subseteq RoleSet(boot.script)
  BY DEF Typed, BootOK, Boot
<1> QED
  BY <1>1, TailElems DEF TheRole

\* A run goes from one step to another over the same role.
LEMMA SameRole ==
  ASSUME Typed, boot.step \in {"migrate", "check", "alter", "env", "secret", "probe"},
         NEW step \in {"alter", "env", "probe"},
         step = "env" => boot.script = "target"
  PROVE  BootOK([boot EXCEPT !.step = step])
BY DEF Typed, BootOK, Boot, Step

LEMMA RunsTyped == ASSUME Typed PROVE runs \in Version /\ MaxRuns \in Nat
BY AccessAssumption DEF Typed

\* The last secret of a role leads to its probes.
LEMMA NextSecretTyped ==
  ASSUME Typed, boot.step = "secret", NEW ok \in BOOLEAN, NextSecret(ok)
  PROVE  /\ BootOK(boot') /\ boot'.script = boot.script /\ boot'.left = boot.left
         /\ boot'.step \in {"probe", "secret"} /\ boot'.puts = Tail(boot.puts)
         /\ boot'.step = "probe" => boot'.puts = <<>>
         /\ boot'.failed = (boot.failed \/ ~ok)
<1>1. boot \in Boot /\ boot.puts \in Seq(Credential) /\ boot.puts # <<>>
  BY DEF Typed, BootOK, Boot
<1>2. Tail(boot.puts) \in Seq(Credential) /\ (Len(boot.puts) = 1 <=> Tail(boot.puts) = <<>>)
  BY <1>1, TailElems
<1> DEFINE step == IF Len(boot.puts) = 1 THEN "probe" ELSE "secret"
<1>3. step \in {"probe", "secret"} /\ (step = "probe" <=> Tail(boot.puts) = <<>>)
  BY <1>2
<1>4. boot' = [boot EXCEPT !.puts = Tail(boot.puts), !.failed = boot.failed \/ ~ok, !.step = step]
  BY DEF NextSecret, Becomes
<1> HIDE DEF step
<1>5. (boot.failed \/ ~ok) \in BOOLEAN
  OBVIOUS
<1>6. boot' \in Boot /\ boot'.script = boot.script /\ boot'.left = boot.left
      /\ boot'.step = step /\ boot'.puts = Tail(boot.puts)
      /\ boot'.failed = (boot.failed \/ ~ok) /\ boot'.sql = boot.sql
  BY <1>1, <1>2, <1>3, <1>4, <1>5 DEF Boot, Step
<1>7. boot.script # "target"
  BY DEF Typed, BootOK
<1> QED
  BY <1>3, <1>6, <1>7 DEF Typed, BootOK

-----------------------------------------------------------------------------
(* The invariant.  Of a run that has not failed, the roles done are as they *)
(* should be; of the role at hand, what the steps so far have written is of *)
(* this run; of the target's roles, what the phases so far have written.    *)
(* A script of which the last run succeeded is not running.                 *)

Settled(r) ==
  /\ env[r] = password[r]
  /\ \A c \in Elems(SecretsOf(r)) : secret[c] = env[c]

Verified(r) == \A needs \in Probes(r).works : Allowed(needs)

RoleByRole(b) == b.script = "target" => b.step \in {"probe", "cleanup"}

Phases(b) ==
  /\ b.step = "migrate" => Elems(b.left) = RoleSet("target")
  /\ b.step = "alter" =>
       \A r \in RoleSet("target") \ Elems(b.left) : password[r] = runs
  /\ b.step \in {"env", "probe"} => \A r \in RoleSet("target") : password[r] = runs
  /\ b.step = "env" => \A r \in RoleSet("target") \ Elems(b.left) : env[r] = runs
  /\ b.step = "probe" => \A r \in RoleSet("target") : env[r] = runs

Progress(b) ==
  /\ b.step # "idle" => exit[b.script] = "none"
  /\ b.step # "idle" /\ ~b.failed /\ RoleByRole(b) =>
       \A r \in RoleSet(b.script) \ Elems(b.left) : Settled(r) /\ Verified(r)
  /\ b.script # "target" =>
       /\ b.step \in {"env", "secret", "probe"} => password[Head(b.left)] = runs
       /\ b.step = "env" =>
            /\ Elems(b.puts) \subseteq Elems(CredentialsOf(Head(b.left)))
            /\ \A c \in Elems(CredentialsOf(Head(b.left))) \ Elems(b.puts) : env[c] = runs
       /\ b.step \in {"secret", "probe"} =>
            \A c \in Elems(CredentialsOf(Head(b.left))) : env[c] = runs
       /\ b.step \in {"secret", "probe"} /\ ~b.failed =>
            \A c \in Elems(SecretsOf(Head(b.left))) \ Elems(b.puts) : secret[c] = runs
       /\ b.step = "secret" => Elems(b.puts) \subseteq Elems(SecretsOf(Head(b.left)))
       /\ b.step = "probe" => b.puts = <<>>
  /\ b.script = "target" => Phases(b)

Success ==
  \A s \in Script : exit[s] = "0" => \A r \in RoleSet(s) : Settled(r) /\ Verified(r)

Inv == Typed /\ Progress(boot) /\ Success

\* Steps of the migrations and of the Lambdas.
LEMMA OthersPreserve ==
  ASSUME Inv, granted \subseteq granted', UNCHANGED <<credentials, boot, exit, runs>>
  PROVE  Progress(boot)' /\ Success'
<1>1. UNCHANGED <<password, env, secret, boot, exit, runs>>
  BY DEF credentials
<1>2. ASSUME NEW r, Settled(r) /\ Verified(r) PROVE Settled(r)' /\ Verified(r)'
  BY <1>1, <1>2 DEF Settled, Verified, Allowed
<1>3. Success'
  BY <1>1, <1>2 DEF Inv, Success
<1>4. Progress(boot)'
  BY <1>1, <1>2 DEF Inv, Progress, RoleByRole, Phases
<1> QED
  BY <1>3, <1>4

\* A run ends: what the other scripts left is left alone.
LEMMA ExitPreserves ==
  ASSUME Inv, boot.step # "idle", NEW how \in {"0", "1", "raised"}, Exits(how),
         how = "0" => boot.step = "cleanup" /\ ~boot.failed,
         UNCHANGED <<database, credentials, container, runs>>
  PROVE  Inv'
<1>1. /\ exit' = [exit EXCEPT ![boot.script] = how] /\ boot' = NoRun
      /\ UNCHANGED <<granted, roles, sqlrun, password, env, secret, container, runs>>
  BY DEF Exits, Becomes, database, credentials
<1>2. boot.script \in Script
  BY DEF Inv, Typed, BootOK
<1>3. Typed'
  BY <1>1, <1>2, NoRunTyped
  DEF Inv, Typed, BootOK, Boot, Exit
<1>4. Progress(boot)'
  BY <1>1, NoRunTyped DEF Progress, NoRun, Phases
<1>5. ASSUME NEW s \in Script, exit'[s] = "0", NEW r \in RoleSet(s)
      PROVE  Settled(r)' /\ Verified(r)'
  <2>1. CASE s = boot.script
    <3>1. how = "0"
      BY <1>1, <1>2, <1>5, <2>1 DEF Inv, Typed
    <3>2. boot.left = <<>> /\ ~boot.failed
      BY <3>1 DEF Inv, Typed, BootOK
    <3>3. Elems(boot.left) = {}
      BY <3>2 DEF Elems
    <3>4. Settled(r) /\ Verified(r)
      BY <1>5, <2>1, <3>1, <3>2, <3>3 DEF Inv, Progress, RoleByRole
    <3> QED
      BY <1>1, <3>4 DEF Settled, Verified, Allowed
  <2>2. CASE s # boot.script
    <3>1. exit[s] = "0"
      BY <1>1, <1>2, <1>5, <2>2 DEF Inv, Typed
    <3> QED
      BY <1>1, <1>5, <3>1 DEF Inv, Success, Settled, Verified, Allowed
  <2> QED
    BY <2>1, <2>2
<1> QED
  BY <1>3, <1>4, <1>5 DEF Inv, Success

LEMMA StartPreserves ==
  ASSUME Inv, NEW script \in Script, StartScript(script)
  PROVE  Inv'
<1> DEFINE step == IF script = "target" THEN "migrate" ELSE "check"
           stmts == IF script = "target" THEN TargetStatements ELSE <<>>
           b == [NoRun EXCEPT !.script = script, !.left = RolesOf(script),
                              !.step = step, !.sql = stmts]
<1>1. /\ exit' = [exit EXCEPT ![script] = "none"] /\ boot' = b /\ runs' = runs + 1
      /\ runs < MaxRuns /\ boot.step = "idle"
      /\ UNCHANGED <<granted, roles, sqlrun, password, env, secret, container>>
  BY DEF StartScript, Becomes, Doing, database, credentials
<1>10. /\ stmts \in Seq(Statements) /\ \A s \in Elems(stmts) : GrantsToRole(s)
       /\ script = "target" => stmts # <<>>
  <2>1. <<>> \in Seq(Statements) /\ Elems(<<>>) = {}
    BY DEF Elems
  <2> QED
    BY <2>1, TargetStatementsTyped
<1>11. step \in {"migrate", "check"} /\ (step = "migrate" <=> script = "target")
  OBVIOUS
<1> HIDE DEF step, stmts
<1>2. /\ b \in Boot /\ b.script = script /\ b.step = step /\ b.left = RolesOf(script)
      /\ b.sql = stmts /\ b.failed = FALSE
  BY NoRunTyped, RolesTyped, <1>10, <1>11 DEF Boot, Step, NoRun
<1>3. BootOK(b)
  BY <1>2, <1>10, <1>11, RolesTyped DEF BootOK
<1> HIDE DEF b
<1>4. runs' \in Version
  BY <1>1, RunsTyped DEF Inv, Version
<1>5. Typed'
  BY <1>1, <1>3, <1>4 DEF Inv, Typed, BootOK, Boot, Exit
<1>6. RoleSet(script) \ Elems(RolesOf(script)) = {}
  BY RolesTyped
<1>7. exit'[script] = "none"
  BY <1>1 DEF Inv, Typed
<1>8. Progress(boot)'
  BY <1>1, <1>2, <1>6, <1>7, <1>11, RolesTyped DEF Progress, Phases
<1>9. Success'
  BY <1>1 DEF Inv, Typed, Success, Settled, Verified, Allowed
<1> QED
  BY <1>5, <1>8, <1>9 DEF Inv

\* The role at hand belongs neither to a script that succeeded nor to the roles
\* that are done: what is written of it disturbs nothing.
LEMMA TheRoleIsApart ==
  ASSUME Inv, boot.step \in {"alter", "env", "secret"}
  PROVE  /\ \A s \in Script : exit[s] = "0" => TheRole \notin RoleSet(s)
         /\ TheRole \in Elems(boot.left)
<1>1. TheRole \in RoleSet(boot.script) /\ boot.script \in Script
  BY TheRoleTyped DEF Inv
<1>2. exit[boot.script] = "none"
  BY DEF Inv, Progress
<1>3. TheRole \in Elems(boot.left)
  <2>1. boot.left \in Seq(Role) /\ boot.left # <<>>
    BY DEF Inv, Typed, BootOK, Boot
  <2> QED
    BY <2>1, TailElems DEF TheRole
<1> QED
  BY <1>1, <1>2, <1>3, ScriptsDisjoint

\* A step writes of the role at hand alone: the other roles stay settled.
LEMMA WritesTheRole ==
  ASSUME Inv, boot.step \in {"alter", "env", "secret"},
         \A r \in Role \ {TheRole} : password'[r] = password[r],
         \A c \in Credential \ Elems(CredentialsOf(TheRole)) :
            env'[c] = env[c] /\ secret'[c] = secret[c],
         UNCHANGED <<granted, exit>>,
         boot'.script = boot.script, ~boot'.failed => ~boot.failed
  PROVE  /\ Success'
         /\ boot'.left = boot.left /\ boot.script # "target" /\ ~boot'.failed => \A r \in RoleSet(boot'.script) \ Elems(boot'.left) :
                                Settled(r)' /\ Verified(r)'
<1>1. TheRole \in Role /\ boot.script \in Script
  BY TheRoleTyped DEF Inv
<1>2. ASSUME NEW r \in Role, r # TheRole, Settled(r) /\ Verified(r)
      PROVE  Settled(r)' /\ Verified(r)'
  <2>1. Elems(CredentialsOf(r)) \cap Elems(CredentialsOf(TheRole)) = {}
    BY <1>1, <1>2, CredentialsDisjoint
  <2>2. /\ r \in Elems(CredentialsOf(r)) /\ r \in Credential
        /\ Elems(SecretsOf(r)) \subseteq Elems(CredentialsOf(r))
        /\ Elems(SecretsOf(r)) \subseteq Credential
    BY CredentialsTyped
  <2>3. env'[r] = env[r] /\ password'[r] = password[r]
    BY <1>2, <2>1, <2>2
  <2>4. \A c \in Elems(SecretsOf(r)) : env'[c] = env[c] /\ secret'[c] = secret[c]
    BY <2>1, <2>2
  <2> QED
    BY <1>2, <2>3, <2>4 DEF Settled, Verified, Allowed
<1>3. ASSUME NEW s \in Script, exit[s] = "0", NEW r \in RoleSet(s)
      PROVE  Settled(r)' /\ Verified(r)'
  <2>1. r # TheRole /\ r \in Role
    BY <1>3, TheRoleIsApart, RolesTyped
  <2> QED
    BY <1>2, <1>3, <2>1 DEF Inv, Success
<1>4. ASSUME ~boot.failed, boot.script # "target",
             NEW r \in RoleSet(boot.script) \ Elems(boot.left)
      PROVE  Settled(r)' /\ Verified(r)'
  <2>1. r # TheRole /\ r \in Role
    BY <1>1, <1>4, TheRoleIsApart, RolesTyped
  <2> QED
    BY <1>2, <1>4, <2>1 DEF Inv, Progress, RoleByRole
<1> QED
  BY <1>3, <1>4 DEF Success

LEMMA CheckPreserves ==
  ASSUME Inv, CheckRole
  PROVE  Inv'
<1>1. boot.step = "check"
  BY DEF CheckRole, Doing
<1>2. CASE TheRole \in roles
  <2> DEFINE b == [boot EXCEPT !.step = "alter"]
  <2>1. /\ boot' = b
        /\ UNCHANGED <<granted, roles, sqlrun, password, env, secret, exit, container, runs>>
    BY <1>2 DEF CheckRole, Becomes, database, credentials
  <2>2. BootOK(b)
    BY <1>1, SameRole DEF Inv
  <2>3. boot \in Boot
    BY DEF Inv, Typed, BootOK
  <2>4. /\ b.step = "alter" /\ b.script = boot.script /\ b.left = boot.left
        /\ b.failed = boot.failed
    BY <2>3 DEF Boot
  <2> HIDE DEF b
  <2>5. Typed'
    BY <2>1, <2>2 DEF Inv, Typed, BootOK, Boot, Exit
  <2>8. boot.script # "target"
    BY <1>1 DEF Inv, Typed, BootOK
  <2>6. Progress(boot)'
    BY <1>1, <2>1, <2>4, <2>8 DEF Inv, Progress, RoleByRole, Settled, Verified, Allowed
  <2>7. Success'
    BY <2>1 DEF Inv, Success, Settled, Verified, Allowed
  <2> QED
    BY <2>5, <2>6, <2>7 DEF Inv
<1>3. CASE TheRole \notin roles
  BY <1>1, <1>3, ExitPreserves DEF CheckRole
<1> QED
  BY <1>2, <1>3

LEMMA AlterPreserves ==
  ASSUME Inv, AlterRole
  PROVE  Inv'
<1> DEFINE b == [boot EXCEPT !.step = "env", !.puts = CredentialsOf(TheRole)]
<1>1. /\ boot.step = "alter" /\ boot' = b
      /\ password' = [password EXCEPT ![TheRole] = runs]
      /\ UNCHANGED <<granted, roles, sqlrun, env, secret, exit, container, runs>>
  BY DEF AlterRole, Doing, Becomes, database
<1>3. boot \in Boot
  BY DEF Inv, Typed, BootOK
<1>c. CredentialsOf(TheRole) \in Seq(Credential) /\ CredentialsOf(TheRole) # <<>>
  <2>1. TheRole \in Role
    BY <1>1, TheRoleTyped DEF Inv
  <2> QED
    BY <2>1, CredentialsTyped DEF CredentialsOf
<1>4. /\ b.step = "env" /\ b.script = boot.script /\ b.left = boot.left
      /\ b.failed = boot.failed /\ b.puts = CredentialsOf(TheRole) /\ b.sql = boot.sql
      /\ b \in Boot
  BY <1>3, <1>c DEF Boot, Step
<1> HIDE DEF b
<1>2. BootOK(b)
  BY <1>1, <1>4, <1>c DEF Inv, Typed, BootOK
<1>10. boot.script # "target"
  BY DEF AlterRole, OfTarget
<1>5. TheRole \in Role
  BY <1>1, TheRoleTyped DEF Inv
<1>6. /\ password' \in [Role -> Version] /\ password'[TheRole] = runs
      /\ \A r \in Role \ {TheRole} : password'[r] = password[r]
  BY <1>1, <1>5, RunsTyped DEF Inv, Typed
<1>7. Typed'
  BY <1>1, <1>2, <1>6 DEF Inv, Typed, BootOK, Boot, Exit
<1>8. /\ Success'
      /\ ~boot'.failed => \A r \in RoleSet(boot'.script) \ Elems(boot'.left) :
                             Settled(r)' /\ Verified(r)'
  BY <1>1, <1>4, <1>6, <1>10, WritesTheRole
<1>9. Progress(boot)'
  BY <1>1, <1>4, <1>6, <1>8, <1>10 DEF Inv, Progress, TheRole
<1> QED
  BY <1>7, <1>8, <1>9 DEF Inv

LEMMA UpsertPreserves ==
  ASSUME Inv, UpsertEnvVar
  PROVE  Inv'
<1> DEFINE c0 == Head(boot.puts)
           creds == Elems(CredentialsOf(TheRole))
<1>1. /\ boot.step = "env" /\ boot.script # "target"
      /\ env' = [env EXCEPT ![c0] = runs]
      /\ UNCHANGED <<granted, roles, sqlrun, password, secret, exit, container, runs>>
  BY DEF UpsertEnvVar, Doing, OfTarget, database
<1>2. TheRole \in Role
  BY <1>1, TheRoleTyped DEF Inv
<1>3. /\ SecretsOf(TheRole) \in Seq(Credential) /\ creds \subseteq Credential
      /\ Elems(SecretsOf(TheRole)) \subseteq creds
  BY <1>2, CredentialsTyped
<1>4. /\ boot \in Boot /\ boot.puts \in Seq(Credential) /\ boot.puts # <<>>
      /\ Elems(boot.puts) \subseteq creds
      /\ \A c \in creds \ Elems(boot.puts) : env[c] = runs
  BY <1>1 DEF Inv, Typed, BootOK, Boot, Progress, TheRole
<1>5. /\ Tail(boot.puts) \in Seq(Credential) /\ c0 \in Elems(boot.puts)
      /\ Elems(boot.puts) \subseteq {c0} \cup Elems(Tail(boot.puts))
      /\ Elems(Tail(boot.puts)) \subseteq Elems(boot.puts)
      /\ (Len(boot.puts) = 1 <=> Tail(boot.puts) = <<>>)
  BY <1>4, TailElems
<1>6. c0 \in creds /\ c0 \in Credential
  BY <1>3, <1>4, <1>5
<1>7. /\ env' \in [Credential -> Version] /\ env'[c0] = runs
      /\ \A c \in Credential \ {c0} : env'[c] = env[c]
  BY <1>1, <1>6, RunsTyped DEF Inv, Typed
<1>8. \A c \in creds \ Elems(Tail(boot.puts)) : env'[c] = runs
  BY <1>3, <1>4, <1>5, <1>7
<1>9. \A c \in Credential \ creds : env'[c] = env[c]
  BY <1>6, <1>7
<1>10. CASE Len(boot.puts) = 1
  <2> DEFINE step == IF SecretsOf(TheRole) = <<>> THEN "probe" ELSE "secret"
             b == [boot EXCEPT !.step = step, !.puts = SecretsOf(TheRole)]
  <2>1. boot' = b
    BY <1>10 DEF UpsertEnvVar, Becomes
  <2>2. step \in {"probe", "secret"} /\ (step = "probe" <=> SecretsOf(TheRole) = <<>>)
    OBVIOUS
  <2> HIDE DEF step
  <2>3. /\ b \in Boot /\ b.step = step /\ b.script = boot.script /\ b.left = boot.left
        /\ b.failed = boot.failed /\ b.puts = SecretsOf(TheRole) /\ b.sql = boot.sql
    BY <1>3, <1>4, <2>2 DEF Boot, Step
  <2> HIDE DEF b
  <2>4. BootOK(b)
    BY <1>1, <2>2, <2>3 DEF Inv, Typed, BootOK
  <2>5. Typed'
    BY <1>1, <1>7, <2>1, <2>4 DEF Inv, Typed, BootOK, Boot, Exit
  <2>6. /\ Success'
        /\ ~boot'.failed => \A r \in RoleSet(boot'.script) \ Elems(boot'.left) :
                               Settled(r)' /\ Verified(r)'
    BY <1>1, <1>9, <2>1, <2>3, WritesTheRole
  <2>7. Elems(Tail(boot.puts)) = {}
    BY <1>5, <1>10 DEF Elems
  <2>8. Progress(boot)'
    BY <1>1, <1>8, <2>1, <2>2, <2>3, <2>6, <2>7 DEF Inv, Progress, TheRole
  <2> QED
    BY <2>5, <2>6, <2>8 DEF Inv
<1>11. CASE Len(boot.puts) # 1
  <2> DEFINE b == [boot EXCEPT !.puts = Tail(boot.puts)]
  <2>1. boot' = b
    BY <1>11 DEF UpsertEnvVar, Becomes
  <2>2. /\ b \in Boot /\ b.step = "env" /\ b.script = boot.script /\ b.left = boot.left
        /\ b.failed = boot.failed /\ b.puts = Tail(boot.puts) /\ b.sql = boot.sql
    BY <1>1, <1>4, <1>5 DEF Boot
  <2> HIDE DEF b
  <2>3. BootOK(b)
    BY <1>1, <1>5, <1>11, <2>2 DEF Inv, Typed, BootOK
  <2>4. Typed'
    BY <1>1, <1>7, <2>1, <2>3 DEF Inv, Typed, BootOK, Boot, Exit
  <2>5. /\ Success'
        /\ ~boot'.failed => \A r \in RoleSet(boot'.script) \ Elems(boot'.left) :
                               Settled(r)' /\ Verified(r)'
    BY <1>1, <1>9, <2>1, <2>2, WritesTheRole
  <2>6. Elems(b.puts) \subseteq creds
    BY <1>4, <1>5, <2>2
  <2>7. Progress(boot)'
    BY <1>1, <1>8, <2>1, <2>2, <2>5, <2>6 DEF Inv, Progress, TheRole
  <2> QED
    BY <2>4, <2>5, <2>7 DEF Inv
<1> QED
  BY <1>10, <1>11

LEMMA PutPreserves ==
  ASSUME Inv, PutSecret
  PROVE  Inv'
<1>1. /\ boot.step = "secret" /\ NextSecret(TRUE)
      /\ secret' = [secret EXCEPT ![Head(boot.puts)] = runs]
      /\ UNCHANGED <<granted, roles, sqlrun, password, env, exit, container, runs>>
  BY DEF PutSecret, Doing, database
<1>2. TheRole \in Role
  BY <1>1, TheRoleTyped DEF Inv
<1>3. /\ BootOK(boot') /\ boot'.script = boot.script /\ boot'.left = boot.left
      /\ boot'.step \in {"probe", "secret"} /\ boot'.puts = Tail(boot.puts)
      /\ boot'.step = "probe" => boot'.puts = <<>>
      /\ boot'.failed = (boot.failed \/ ~TRUE)
  BY <1>1, NextSecretTyped DEF Inv
<1>14. boot.script # "target"
  BY <1>1 DEF Inv, Typed, BootOK
<1>4. boot'.failed => boot.failed
  BY <1>3
<1>5. /\ boot.puts \in Seq(Credential) /\ boot.puts # <<>>
  BY <1>1 DEF Inv, Typed, BootOK, Boot
<1>6. /\ Head(boot.puts) \in Credential
      /\ Elems(boot.puts) \subseteq {Head(boot.puts)} \cup Elems(boot'.puts)
  BY <1>3, <1>5, TailElems
<1>7. secret' \in [Credential -> Version]
  BY <1>1, <1>6, RunsTyped DEF Inv, Typed
<1>8. Typed'
  BY <1>1, <1>3, <1>7 DEF Inv, Typed, BootOK, Boot, Exit
<1>9. \A c \in Credential \ Elems(CredentialsOf(TheRole)) : secret'[c] = secret[c]
  <2>1. Head(boot.puts) \in Elems(boot.puts)
    BY <1>5, TailElems
  <2>2. Elems(boot.puts) \subseteq Elems(CredentialsOf(TheRole))
    BY <1>1, <1>2, <1>14, CredentialsTyped DEF Inv, Progress, TheRole
  <2> QED
    BY <1>1, <1>6, <2>1, <2>2 DEF Inv, Typed
<1>10. /\ Success'
       /\ ~boot'.failed => \A r \in RoleSet(boot'.script) \ Elems(boot'.left) :
                              Settled(r)' /\ Verified(r)'
  BY <1>1, <1>3, <1>4, <1>9, <1>14, WritesTheRole
<1>11. ASSUME ~boot'.failed, NEW c \in Elems(SecretsOf(TheRole)) \ Elems(boot'.puts)
       PROVE  secret'[c] = runs
  <2>1. c \in Credential
    BY <1>2, CredentialsTyped
  <2>2. CASE c = Head(boot.puts)
    BY <1>1, <2>1, <2>2 DEF Inv, Typed
  <2>3. CASE c # Head(boot.puts)
    <3>1. c \notin Elems(boot.puts)
      BY <1>6, <1>11, <2>3
    <3>2. ~boot.failed
      BY <1>3, <1>11
    <3>3. secret[c] = runs
      BY <1>1, <1>11, <1>14, <3>1, <3>2 DEF Inv, Progress, TheRole
    <3> QED
      BY <1>1, <2>1, <2>3, <3>3 DEF Inv, Typed
  <2> QED
    BY <2>2, <2>3
<1>12. Elems(boot'.puts) \subseteq Elems(SecretsOf(TheRole))
  <2>1. Elems(boot'.puts) \subseteq Elems(boot.puts)
    BY <1>3, <1>5, TailElems
  <2> QED
    BY <1>1, <1>14, <2>1 DEF Inv, Progress, TheRole
<1>13. Progress(boot)'
  BY <1>1, <1>3, <1>10, <1>11, <1>12, <1>14 DEF Inv, Progress, TheRole
<1> QED
  BY <1>8, <1>10, <1>13 DEF Inv

LEMMA DeniedPreserves ==
  ASSUME Inv, PutSecretDenied
  PROVE  Inv'
<1>1. /\ boot.step = "secret" /\ NextSecret(FALSE)
      /\ UNCHANGED <<granted, roles, sqlrun, password, env, secret, exit, container, runs>>
  BY DEF PutSecretDenied, Doing, database, credentials
<1>2. /\ BootOK(boot') /\ boot'.script = boot.script /\ boot'.left = boot.left
      /\ boot'.step \in {"probe", "secret"} /\ boot'.puts = Tail(boot.puts)
      /\ boot'.step = "probe" => boot'.puts = <<>>
      /\ boot'.failed = (boot.failed \/ ~FALSE)
  BY <1>1, NextSecretTyped DEF Inv
<1>3. boot.script # "target"
  BY <1>1 DEF Inv, Typed, BootOK
<1>4. boot'.failed
  BY <1>2
<1>5. Typed'
  BY <1>1, <1>2 DEF Inv, Typed, BootOK, Boot, Exit
<1>6. Success'
  BY <1>1 DEF Inv, Success, Settled, Verified, Allowed
<1>7. Elems(boot'.puts) \subseteq Elems(SecretsOf(TheRole))
  <2>1. boot.puts \in Seq(Credential) /\ boot.puts # <<>>
    BY <1>1 DEF Inv, Typed, BootOK, Boot
  <2>2. Elems(boot'.puts) \subseteq Elems(boot.puts)
    BY <1>2, <2>1, TailElems
  <2> QED
    BY <1>1, <1>3, <2>2 DEF Inv, Progress, TheRole
<1>8. Progress(boot)'
  BY <1>1, <1>2, <1>3, <1>4, <1>7 DEF Inv, Progress, TheRole
<1> QED
  BY <1>5, <1>6, <1>8 DEF Inv

LEMMA ProbePreserves ==
  ASSUME Inv, NEW lost, ProbeRole(lost)
  PROVE  Inv'
<1> DEFINE p == Probes(TheRole)
           ok == /\ env[TheRole] = password[TheRole]
                 /\ \A needs \in p.works : Allowed(needs) /\ needs \notin lost
                 /\ \A needs \in p.fails : ~Allowed(needs) \/ needs \in lost
           step == IF Len(boot.left) = 1 THEN "cleanup"
                   ELSE IF OfTarget THEN "probe" ELSE "check"
           b == [boot EXCEPT !.left = Tail(@), !.failed = @ \/ ~ok, !.step = step]
<1>1. /\ boot.step = "probe" /\ boot' = b
      /\ UNCHANGED <<granted, roles, sqlrun, password, env, secret, exit, container, runs>>
  BY DEF ProbeRole, Doing, Becomes, database, credentials
<1>2. /\ TheRole \in Role /\ TheRole \in RoleSet(boot.script) /\ boot.script \in Script
      /\ Tail(boot.left) \in Seq(Role)
      /\ Elems(Tail(boot.left)) \subseteq RoleSet(boot.script)
      /\ Elems(boot.left) \subseteq {TheRole} \cup Elems(Tail(boot.left))
      /\ Len(boot.left) = 1 <=> Tail(boot.left) = <<>>
  BY <1>1, TheRoleTyped DEF Inv
<1>3. /\ ok \in BOOLEAN
      /\ ok => Verified(TheRole)
  BY DEF Verified
<1>4. /\ step \in {"cleanup", "probe", "check"} /\ (step = "cleanup" <=> Tail(boot.left) = <<>>)
      /\ step = "check" => boot.script # "target"
      /\ step = "probe" => boot.script = "target"
  BY <1>2 DEF OfTarget
<1>5. boot \in Boot
  BY DEF Inv, Typed, BootOK
<1> HIDE DEF step, ok
<1>6. (boot.failed \/ ~ok) \in BOOLEAN
  OBVIOUS
<1>7. /\ b \in Boot /\ b.step = step /\ b.script = boot.script
      /\ b.left = Tail(boot.left) /\ b.failed = (boot.failed \/ ~ok)
      /\ b.sql = boot.sql
  BY <1>2, <1>4, <1>5, <1>6 DEF Boot, Step
<1> HIDE DEF b
<1>8. BootOK(b)
  BY <1>2, <1>4, <1>7 DEF Inv, Typed, BootOK
<1>9. Typed'
  BY <1>1, <1>8 DEF Inv, Typed, BootOK, Boot, Exit
<1>10. Success'
  BY <1>1 DEF Inv, Success, Settled, Verified, Allowed
<1>11. ASSUME ~boot.failed PROVE Settled(TheRole)
  <2>1. /\ TheRole \in Elems(CredentialsOf(TheRole))
        /\ Elems(SecretsOf(TheRole)) \subseteq Elems(CredentialsOf(TheRole))
    BY <1>2, CredentialsTyped
  <2>2. CASE boot.script = "target"
    <3>1. env[TheRole] = runs /\ password[TheRole] = runs
      BY <1>1, <1>2, <2>2 DEF Inv, Progress, Phases
    <3>2. Elems(SecretsOf(TheRole)) = {}
      BY <1>2, <2>2, TargetCredentials
    <3> QED
      BY <3>1, <3>2 DEF Settled
  <2>3. CASE boot.script # "target"
    <3>1. Elems(boot.puts) = {}
      BY <1>1, <2>3 DEF Inv, Progress, Elems
    <3>2. /\ \A c \in Elems(CredentialsOf(TheRole)) : env[c] = runs
          /\ \A c \in Elems(SecretsOf(TheRole)) : secret[c] = runs
          /\ password[TheRole] = runs
      BY <1>1, <1>11, <2>3, <3>1 DEF Inv, Progress, TheRole
    <3> QED
      BY <2>1, <3>2 DEF Settled
  <2> QED
    BY <2>2, <2>3
<1>12. ASSUME ~boot.failed, ok, NEW r \in RoleSet(boot.script) \ Elems(Tail(boot.left))
       PROVE  Settled(r) /\ Verified(r)
  <2>1. CASE r = TheRole
    BY <1>3, <1>11, <1>12, <2>1
  <2>2. CASE r # TheRole
    BY <1>1, <1>2, <1>12, <2>2 DEF Inv, Progress, RoleByRole
  <2> QED
    BY <2>1, <2>2
<1>13. ASSUME ~b.failed, NEW r \in RoleSet(b.script) \ Elems(b.left)
       PROVE  Settled(r)' /\ Verified(r)'
  <2>1. ~boot.failed /\ ok
    BY <1>7, <1>13
  <2> QED
    BY <1>1, <1>7, <1>12, <1>13, <2>1 DEF Settled, Verified, Allowed
<1>14. Progress(boot)'
  BY <1>1, <1>4, <1>7, <1>13 DEF Inv, Progress, Phases
<1> QED
  BY <1>9, <1>10, <1>14 DEF Inv

\* The target's phases: the migration, then one thing for each role in turn.
LEMMA MigrateTargetPreserves ==
  ASSUME Inv, MigrateTarget
  PROVE  Inv'
<1> DEFINE step == IF Len(boot.sql) = 1 THEN "alter" ELSE "migrate"
           b == [boot EXCEPT !.sql = Tail(@), !.step = step]
<1>1. /\ boot.step = "migrate" /\ Does(Head(boot.sql)) /\ boot' = b
      /\ UNCHANGED <<sqlrun, password, env, secret, exit, container, runs>>
  BY DEF MigrateTarget, Doing, Becomes, credentials
<1>2. /\ boot \in Boot /\ boot.script = "target" /\ boot.left # <<>>
      /\ boot.sql \in Seq(Statements) /\ boot.sql # <<>>
      /\ \A s \in Elems(boot.sql) : GrantsToRole(s)
      /\ Elems(boot.left) \subseteq RoleSet("target")
  BY <1>1 DEF Inv, Typed, BootOK, Boot
<1>3. /\ Head(boot.sql) \in Statements /\ GrantsToRole(Head(boot.sql))
      /\ Tail(boot.sql) \in Seq(Statements)
      /\ \A s \in Elems(Tail(boot.sql)) : GrantsToRole(s)
      /\ Len(boot.sql) = 1 <=> Tail(boot.sql) = <<>>
  BY <1>2, TailElems
<1>4. /\ step \in {"alter", "migrate"}
      /\ step = "migrate" => Tail(boot.sql) # <<>>
  BY <1>3
<1> HIDE DEF step
<1>5. /\ b \in Boot /\ b.script = boot.script /\ b.left = boot.left /\ b.step = step
      /\ b.sql = Tail(boot.sql) /\ b.failed = boot.failed
  BY <1>2, <1>3, <1>4 DEF Boot, Step
<1> HIDE DEF b
<1>6. BootOK(b)
  BY <1>1, <1>2, <1>3, <1>4, <1>5 DEF Inv, Typed, BootOK
<1>7. /\ granted' \subseteq UNION {s.grants : s \in Statements}
      /\ \A g \in granted' : g[1] \in roles'
      /\ granted \subseteq granted'
  BY <1>1, <1>3, DoesTyped DEF Inv, Typed
<1>8. Typed'
  BY <1>1, <1>6, <1>7 DEF Inv, Typed, BootOK, Boot, Exit
<1>9. Success'
  BY <1>1, <1>7 DEF Inv, Success, Settled, Verified, Allowed
<1>10. Elems(boot.left) = RoleSet("target")
  BY <1>1, <1>2 DEF Inv, Progress, Phases
<1>11. Progress(boot)'
  BY <1>1, <1>2, <1>4, <1>5, <1>10 DEF Inv, Progress, RoleByRole, Phases
<1> QED
  BY <1>8, <1>9, <1>11 DEF Inv

LEMMA NextRoleTyped ==
  ASSUME Inv, boot.script = "target", boot.step \in {"alter", "env"},
         NEW phase \in {"env", "probe"}, NextRole(phase)
  PROVE  /\ BootOK(boot') /\ boot'.script = "target" /\ boot'.failed = boot.failed
         /\ TheRole \in RoleSet("target")
         /\ \/ /\ boot'.step = phase /\ Elems(boot'.left) = RoleSet("target")
               /\ Elems(boot.left) \subseteq {TheRole}
            \/ /\ boot'.step = boot.step
               /\ Elems(boot.left) \subseteq {TheRole} \cup Elems(boot'.left)
<1>1. /\ TheRole \in RoleSet("target") /\ "target" \in Script
      /\ Tail(boot.left) \in Seq(Role)
      /\ Elems(Tail(boot.left)) \subseteq RoleSet("target")
      /\ Elems(boot.left) \subseteq {TheRole} \cup Elems(Tail(boot.left))
      /\ Len(boot.left) = 1 <=> Tail(boot.left) = <<>>
  BY TheRoleTyped DEF Inv
<1>2. boot \in Boot
  BY DEF Inv, Typed, BootOK
<1>3. CASE Len(boot.left) = 1
  <2> DEFINE b == [boot EXCEPT !.step = phase, !.left = RolesOf("target")]
  <2>1. boot' = b
    BY <1>3 DEF NextRole, Becomes
  <2>2. /\ b \in Boot /\ b.script = "target" /\ b.step = phase
        /\ b.left = RolesOf("target") /\ b.failed = boot.failed /\ b.sql = boot.sql
    BY <1>1, <1>2, RolesTyped DEF Boot, Step
  <2> HIDE DEF b
  <2>3. BootOK(b) /\ Elems(b.left) = RoleSet("target")
    BY <1>1, <2>2, RolesTyped DEF Inv, Typed, BootOK
  <2>4. Elems(boot.left) \subseteq {TheRole}
    <3>1. Tail(boot.left) = <<>> /\ Elems(<<>>) = {}
      BY <1>1, <1>3 DEF Elems
    <3> QED
      BY <1>1, <3>1
  <2> QED
    BY <1>1, <2>1, <2>2, <2>3, <2>4
<1>4. CASE Len(boot.left) # 1
  <2> DEFINE b == [boot EXCEPT !.left = Tail(boot.left)]
  <2>1. boot' = b
    BY <1>4 DEF NextRole, Becomes
  <2>2. /\ b \in Boot /\ b.script = "target" /\ b.step = boot.step
        /\ b.left = Tail(boot.left) /\ b.failed = boot.failed /\ b.sql = boot.sql
    BY <1>1, <1>2 DEF Boot, Step
  <2> HIDE DEF b
  <2>3. BootOK(b)
    BY <1>1, <1>4, <2>2 DEF Inv, Typed, BootOK
  <2> QED
    BY <1>1, <2>1, <2>2, <2>3
<1> QED
  BY <1>3, <1>4

LEMMA AlterTargetPreserves ==
  ASSUME Inv, AlterTargetRole
  PROVE  Inv'
<1>1. /\ boot.step = "alter" /\ boot.script = "target" /\ NextRole("env")
      /\ password' = [password EXCEPT ![TheRole] = runs]
      /\ UNCHANGED <<granted, roles, sqlrun, env, secret, exit, container, runs>>
  BY DEF AlterTargetRole, OfTarget, Doing, database
<1>2. /\ BootOK(boot') /\ boot'.script = "target" /\ boot'.failed = boot.failed
      /\ TheRole \in RoleSet("target")
      /\ \/ /\ boot'.step = "env" /\ Elems(boot'.left) = RoleSet("target")
            /\ Elems(boot.left) \subseteq {TheRole}
         \/ /\ boot'.step = "alter"
            /\ Elems(boot.left) \subseteq {TheRole} \cup Elems(boot'.left)
  BY <1>1, NextRoleTyped
<1>3. "target" \in Script /\ RoleSet("target") \subseteq Role
  BY <1>1, RolesTyped DEF Inv, Typed, BootOK
<1>4. /\ password' \in [Role -> Version] /\ password'[TheRole] = runs
      /\ \A r \in Role \ {TheRole} : password'[r] = password[r]
  BY <1>1, <1>2, <1>3, RunsTyped DEF Inv, Typed
<1>5. Typed'
  BY <1>1, <1>2, <1>4 DEF Inv, Typed, BootOK, Boot, Exit
<1>6. Success'
  BY <1>1, <1>2, <1>4, WritesTheRole
<1>7. Phases(boot)'
  <2>1. ASSUME NEW r \in RoleSet("target"), r \notin Elems(boot.left) \/ r = TheRole
        PROVE  password'[r] = runs
    BY <1>1, <1>3, <1>4, <2>1 DEF Inv, Progress, Phases
  <2> QED
    BY <1>1, <1>2, <2>1 DEF Phases
<1>8. Progress(boot)'
  BY <1>1, <1>2, <1>7 DEF Inv, Progress, RoleByRole
<1> QED
  BY <1>5, <1>6, <1>8 DEF Inv

LEMMA UpsertTargetPreserves ==
  ASSUME Inv, UpsertTargetVar
  PROVE  Inv'
<1>1. /\ boot.step = "env" /\ boot.script = "target" /\ NextRole("probe")
      /\ env' = [env EXCEPT ![TheRole] = runs]
      /\ UNCHANGED <<granted, roles, sqlrun, password, secret, exit, container, runs>>
  BY DEF UpsertTargetVar, OfTarget, Doing, database
<1>2. /\ BootOK(boot') /\ boot'.script = "target" /\ boot'.failed = boot.failed
      /\ TheRole \in RoleSet("target")
      /\ \/ /\ boot'.step = "probe" /\ Elems(boot'.left) = RoleSet("target")
            /\ Elems(boot.left) \subseteq {TheRole}
         \/ /\ boot'.step = "env"
            /\ Elems(boot.left) \subseteq {TheRole} \cup Elems(boot'.left)
  BY <1>1, NextRoleTyped
<1>3. "target" \in Script /\ RoleSet("target") \subseteq Role
  BY <1>1, RolesTyped DEF Inv, Typed, BootOK
<1>4. \A r \in RoleSet("target") : r \in Credential /\ Elems(CredentialsOf(r)) = {r}
  BY <1>3, CredentialsTyped, TargetCredentials
<1>5. /\ env' \in [Credential -> Version] /\ env'[TheRole] = runs
      /\ \A c \in Credential \ {TheRole} : env'[c] = env[c]
  BY <1>1, <1>2, <1>4, RunsTyped DEF Inv, Typed
<1>6. Typed'
  BY <1>1, <1>2, <1>5 DEF Inv, Typed, BootOK, Boot, Exit
<1>7. Success'
  <2>1. \A c \in Credential \ Elems(CredentialsOf(TheRole)) :
           env'[c] = env[c] /\ secret'[c] = secret[c]
    BY <1>1, <1>2, <1>4, <1>5
  <2> QED
    BY <1>1, <1>2, <2>1, WritesTheRole
<1>8. Phases(boot)'
  <2>1. ASSUME NEW r \in RoleSet("target"), r \notin Elems(boot.left) \/ r = TheRole
        PROVE  env'[r] = runs
    BY <1>1, <1>4, <1>5, <2>1 DEF Inv, Progress, Phases
  <2>2. \A r \in RoleSet("target") : password'[r] = runs
    BY <1>1 DEF Inv, Progress, Phases
  <2> QED
    BY <1>1, <1>2, <2>1, <2>2 DEF Phases
<1>9. Progress(boot)'
  BY <1>1, <1>2, <1>8 DEF Inv, Progress, RoleByRole
<1> QED
  BY <1>6, <1>7, <1>9 DEF Inv

LEMMA LambdaTyped ==
  ASSUME Inv, NEW w \in Worker, Invoke(w) \/ IdleClose(w) \/ Recycle(w)
  PROVE  Typed'
<1>1. w \in Role /\ w \in Credential
  BY WorkerAssumption, CredentialsTyped
<1>2. container[w] \in Container /\ secret[w] \in Version /\ 0 \in Version
  BY <1>1, AccessAssumption DEF Inv, Typed, Version
<1>3. Resolved(w) \in Version /\ Cold \in Container
  BY <1>2 DEF Resolved, Container, Cold, Version
<1>4. container' \in [Worker -> Container]
  <2>1. CASE Invoke(w)
    BY <1>2, <1>3, <2>1 DEF Invoke, Inv, Typed, Container, Version
  <2>2. CASE IdleClose(w)
    BY <1>2, <2>2 DEF IdleClose, Inv, Typed, Container, Version
  <2>3. CASE Recycle(w)
    BY <1>3, <2>3 DEF Recycle, Inv, Typed
  <2> QED
    BY <2>1, <2>2, <2>3
<1> QED
  BY <1>4 DEF Invoke, IdleClose, Recycle, database, credentials, Inv, Typed, BootOK, Boot

LEMMA MigrationTyped ==
  ASSUME Inv, (\E f \in File : RunSql(f)) \/ Execute \/ ExecuteFails
  PROVE  Typed' /\ granted \subseteq granted'
<1>1. UNCHANGED <<password, env, secret, boot, exit, container, runs>>
  BY DEF RunSql, Execute, ExecuteFails, credentials
<1>2. ASSUME NEW f \in File, RunSql(f) PROVE Typed' /\ granted \subseteq granted'
  <2>1. sqlrun' \in Seq(Statements) /\ \A s \in Elems(sqlrun') : GrantsToRole(s)
    BY <1>2, StatementsTyped DEF RunSql
  <2> QED
    BY <1>1, <1>2, <2>1 DEF RunSql, Inv, Typed, BootOK, Boot
<1>3. ASSUME sqlrun # <<>>
      PROVE  /\ Head(sqlrun) \in Statements /\ GrantsToRole(Head(sqlrun))
             /\ Tail(sqlrun) \in Seq(Statements)
             /\ \A s \in Elems(Tail(sqlrun)) : GrantsToRole(s)
  <2>1. sqlrun \in Seq(Statements) /\ \A s \in Elems(sqlrun) : GrantsToRole(s)
    BY DEF Inv, Typed
  <2> QED
    BY <1>3, <2>1, TailElems
<1>4. CASE Execute
  <2> DEFINE s == Head(sqlrun)
  <2>1. /\ s \in Statements /\ GrantsToRole(s)
        /\ sqlrun' \in Seq(Statements) /\ \A t \in Elems(sqlrun') : GrantsToRole(t)
    BY <1>3, <1>4 DEF Execute
  <2>2. Does(s)
    BY <1>4 DEF Execute
  <2>3. /\ granted' \subseteq UNION {t.grants : t \in Statements}
        /\ \A g \in granted' : g[1] \in roles'
        /\ granted \subseteq granted'
    BY <2>1, <2>2, DoesTyped DEF Inv, Typed
  <2> QED
    BY <1>1, <2>1, <2>3 DEF Inv, Typed, BootOK, Boot
<1>5. CASE ExecuteFails
  <2>1. sqlrun' \in Seq(Statements) /\ \A t \in Elems(sqlrun') : GrantsToRole(t)
    <3>1. <<>> \in Seq(Statements) /\ Elems(<<>>) = {}
      BY DEF Elems
    <3> QED
      BY <1>3, <1>5, <3>1 DEF ExecuteFails
  <2> QED
    BY <1>1, <1>5, <2>1 DEF ExecuteFails, Inv, Typed, BootOK, Boot
<1> QED
  BY <1>2, <1>4, <1>5

LEMMA NextInv == Inv /\ [Next]_vars => Inv'
<1> SUFFICES ASSUME Inv, [Next]_vars PROVE Inv'
  OBVIOUS
<1>1. CASE (\E f \in File : RunSql(f)) \/ Execute \/ ExecuteFails
  <2>1. UNCHANGED <<credentials, boot, exit, runs>>
    BY <1>1 DEF RunSql, Execute, ExecuteFails
  <2> QED
    BY <1>1, <2>1, MigrationTyped, OthersPreserve DEF Inv
<1>2. ASSUME NEW s \in Script, StartScript(s) PROVE Inv'
  BY <1>2, StartPreserves
<1>3. CASE Bootstrap
  <2>1. CASE Cleanup
    <3>1. /\ boot.step = "cleanup" /\ Exits(IF boot.failed THEN "1" ELSE "0")
          /\ UNCHANGED <<database, credentials, container, runs>>
      BY <2>1 DEF Cleanup, Doing
    <3>2. CASE boot.failed
      BY <3>1, <3>2, ExitPreserves
    <3>3. CASE ~boot.failed
      BY <3>1, <3>3, ExitPreserves
    <3> QED
      BY <3>2, <3>3
  <2> QED
    BY <1>3, <2>1, CheckPreserves, AlterPreserves, UpsertPreserves, PutPreserves,
       DeniedPreserves, MigrateTargetPreserves, AlterTargetPreserves,
       UpsertTargetPreserves, ProbePreserves DEF Bootstrap
<1>4. CASE ScriptRaises
  BY <1>4, ExitPreserves DEF ScriptRaises, Doing
<1>5. ASSUME NEW w \in Worker, Invoke(w) \/ IdleClose(w) \/ Recycle(w) PROVE Inv'
  <2>1. granted \subseteq granted' /\ UNCHANGED <<credentials, boot, exit, runs>>
    BY <1>5 DEF Invoke, IdleClose, Recycle, database
  <2> QED
    BY <1>5, <2>1, LambdaTyped, OthersPreserve DEF Inv
<1>6. CASE UNCHANGED vars
  <2>1. /\ granted \subseteq granted' /\ UNCHANGED <<credentials, boot, exit, runs>>
        /\ Typed'
    BY <1>6 DEF vars, credentials, Inv, Typed, BootOK, Boot
  <2> QED
    BY <2>1, OthersPreserve DEF Inv
<1> QED
  BY <1>1, <1>2, <1>3, <1>4, <1>5, <1>6 DEF Next

LEMMA InitInv == Init => Inv
<1> SUFFICES ASSUME Init PROVE Inv
  OBVIOUS
<1>1. 0 \in Version /\ Cold \in Container
  BY AccessAssumption DEF Version, Cold, Container
<1>2. <<>> \in Seq(Statements) /\ Elems(<<>>) = {}
  BY DEF Elems
<1>3. Typed
  BY <1>1, <1>2, NoRunTyped DEF Init, Typed, Exit
<1>4. Progress(boot)
  BY NoRunTyped DEF Init, Progress, NoRun, Phases
<1>5. Success
  BY DEF Init, Success
<1> QED
  BY <1>3, <1>4, <1>5 DEF Inv

LEMMA Invariance == Spec => []Inv
BY InitInv, NextInv, PTL DEF Spec

-----------------------------------------------------------------------------
(* Theorems.                                                               *)

\* Grants are the migrations' and go to roles that exist; credentials, runs and
\* containers have their types.
THEOREM TypeCorrect == Spec => []TypeOK
<1>1. Inv => TypeOK
  BY TypedIsTypeOK DEF Inv
<1> QED
  BY Invariance, <1>1, PTL

\* However runs before it were cut off between role, .env and secret, a script
\* that exits 0 leaves one password for each of its roles.
THEOREM OnePassword == Spec => []SuccessMeansCurrent
<1>1. Inv => SuccessMeansCurrent
  BY DEF Inv, Success, Settled, Elems, SuccessMeansCurrent
<1> QED
  BY Invariance, <1>1, PTL

\* What a probe asked for is granted once the script has exited 0, and grants
\* that ran meanwhile take nothing of it away.
THEOREM ProbesAreGrants == Spec => []VerifiedIsGranted
<1>1. Inv => VerifiedIsGranted
  BY DEF Inv, Success, Verified, VerifiedIsGranted
<1> QED
  BY Invariance, <1>1, PTL
=============================================================================
