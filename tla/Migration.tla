------------------------------- MODULE Migration -------------------------------
(***************************************************************************)
(* The migration of the database (cmd/gorm-gen/models/migrate.go), run by  *)
(* hand or by the deployment as often as it takes.  gormigrate records the *)
(* id of a migration after its steps, and every id after InitSchema, one   *)
(* by one; no transaction holds them together: a run that fails or dies    *)
(* leaves what it did.                                                     *)
(***************************************************************************)
EXTENDS Integers, Sequences, FiniteSets, SequencesExt

CONSTANT MaxMigrationFaults   \* bound: calls that fail, and runs that die

VARIABLES
    schema,     \* tables and columns the migrations are about
    recorded,   \* ids in the table of migrations
    seeded,     \* rows of InitSchema: default account, administrator, membership
    migrate,    \* the run
    admin,      \* CRATER_ADMIN_USERNAME and CRATER_ADMIN_PASSWORD are set
    migrationFaults

migrationVars == <<schema, recorded, seeded, migrate, admin, migrationFaults>>

-----------------------------------------------------------------------------
(* The migrations in their order, each with what its steps add.            *)

Until202504 ==
    << <<"datasets.type", "datasets.extra">>, <<"jobs.alert_enabled">>, <<"jobs.profile_data">>,
       <<"jobtemplates">>, <<"jobs.locked_timestamp">>, <<"users.last_email_verified_at">> >>
In202504 ==
    << <<"jobs.schedule_data", "jobs.events", "jobs.terminated_states">>, <<"alerts">>,
       <<"ai_tasks.deleted_at">>, <<"resources.type">>, <<"resource_networks">>, <<"kanikos.tags">>,
       <<"images.tags">> >>
Until202508 ==
    << <<"kanikos.template">>, <<"image_users">>, <<"image_accounts">>, <<"cuda_base_images">>,
       <<"kanikos.archs">>, <<"images.archs">>, <<"approval_orders">>, <<"resource_vgpus">> >>
Later ==
    << <<"accounts.user_default_quota">>, <<"cron_job_records">>,
       <<"cron_job_configs", "clean-long-time-job", "clean-low-gpu-util-job", "clean-waiting-jupyter">> >>

Migrations == Until202504 \o In202504 \o Until202508 \o Later
MigrationIds == DOMAIN Migrations
Added(i)     == ToSet(Migrations[i])

\* The record that InitSchema has run.
SCHEMA_INIT == 0

\* A step that adds what is there already fails, but for the rows of
\* cron_job_configs, which are looked for first.
Repeatable == {"clean-long-time-job", "clean-low-gpu-util-job", "clean-waiting-jupyter"}

\* What AutoMigrate makes of the models InitSchema lists.
LeftOut     == Added(Len(Migrations)) \cup {"cron_job_records"}
AutoMigrate == (UNION {Added(i) : i \in MigrationIds}) \ LeftOut

Seeds == <<"account", "user", "membership">>

Idle == [pc |-> "idle", id |-> 0, at |-> 0]

\* A new database, or one that earlier versions of the program have migrated step
\* by step.
MigrationInit ==
    /\ \E k \in 0 .. Len(Migrations) :
          /\ recorded = 1 .. k
          /\ schema = UNION {Added(i) : i \in 1 .. k}
          /\ seeded = IF k = 0 THEN {} ELSE ToSet(Seeds)
    /\ migrate = Idle /\ admin \in BOOLEAN /\ migrationFaults = 0

Unfaulted == UNCHANGED migrationFaults

\* InitSchema runs when neither SCHEMA_INIT nor any other id is recorded.
StartRun ==
    /\ migrate.pc = "idle"
    /\ migrate' = IF recorded = {} THEN [pc |-> "auto", id |-> SCHEMA_INIT, at |-> 1]
                  ELSE [pc |-> "steps", id |-> 1, at |-> 1]
    /\ UNCHANGED <<schema, recorded, seeded, admin>> /\ Unfaulted

\* The run panics; what it has done stays.
RunFails == migrate' = Idle /\ UNCHANGED <<schema, recorded, seeded, admin>>

\* Any call may fail, or the run is killed before it.
MigrationFault ==
    /\ migrate.pc # "idle" /\ migrationFaults < MaxMigrationFaults
    /\ migrationFaults' = migrationFaults + 1
    /\ RunFails

SetAdmin ==
    /\ migrate.pc = "idle" /\ ~admin
    /\ admin' = TRUE
    /\ UNCHANGED <<schema, recorded, seeded, migrate>> /\ Unfaulted

-----------------------------------------------------------------------------
(* InitSchema, on a database without a record.                             *)

\* AutoMigrate adds what is missing: a part of it is made up for by the next run.
InitTables ==
    /\ migrate.pc = "auto"
    /\ schema' = schema \cup AutoMigrate
    /\ migrate' = [migrate EXCEPT !.pc = "seed"]
    /\ UNCHANGED <<recorded, seeded, admin>> /\ Unfaulted

\* The names are unique: a second account or user of the name is refused.  The
\* variables of the environment are looked up when the account is there.
Seed ==
    /\ migrate.pc = "seed" /\ migrate.at <= Len(Seeds)
    /\ LET row == Seeds[migrate.at]
       IN  IF row \in seeded \/ (row = "user" /\ ~admin) THEN RunFails
           ELSE /\ seeded' = seeded \cup {row}
                /\ migrate' = [migrate EXCEPT !.at = @ + 1]
                /\ UNCHANGED <<schema, recorded, admin>>
    /\ Unfaulted

\* SCHEMA_INIT is recorded, and then every id, without the steps.
InitRecorded ==
    /\ migrate.pc = "seed" /\ migrate.at > Len(Seeds)
    /\ recorded' = recorded \cup {migrate.id}
    /\ migrate' = IF migrate.id = Len(Migrations) THEN Idle ELSE [migrate EXCEPT !.id = @ + 1]
    /\ UNCHANGED <<schema, seeded, admin>> /\ Unfaulted

-----------------------------------------------------------------------------
(* The migrations, one after the other.                                    *)

SkipRecorded ==
    /\ migrate.pc = "steps" /\ migrate.id \in recorded /\ migrate.at = 1
    /\ migrate' = IF migrate.id = Len(Migrations) THEN Idle ELSE [migrate EXCEPT !.id = @ + 1]
    /\ UNCHANGED <<schema, recorded, seeded, admin>> /\ Unfaulted

RunStep ==
    /\ migrate.pc = "steps" /\ migrate.id \notin recorded /\ migrate.at <= Len(Migrations[migrate.id])
    /\ LET item == Migrations[migrate.id][migrate.at]
       IN  IF item \in schema \ Repeatable THEN RunFails
           ELSE /\ schema' = schema \cup {item}
                /\ migrate' = [migrate EXCEPT !.at = @ + 1]
                /\ UNCHANGED <<recorded, seeded, admin>>
    /\ Unfaulted

\* Mutant: a migration is recorded before its steps.
RecordId_First ==
    /\ migrate.pc = "steps" /\ migrate.id \notin recorded
    /\ recorded' = recorded \cup {migrate.id}
    /\ UNCHANGED <<schema, seeded, admin, migrate>> /\ Unfaulted

RecordId ==
    /\ migrate.pc = "steps" /\ migrate.id \notin recorded /\ migrate.at > Len(Migrations[migrate.id])
    /\ recorded' = recorded \cup {migrate.id}
    /\ migrate' = [migrate EXCEPT !.at = 1]
    /\ UNCHANGED <<schema, seeded, admin>> /\ Unfaulted

MigrationNext ==
    \/ StartRun \/ SetAdmin \/ MigrationFault
    \/ InitTables \/ Seed \/ InitRecorded
    \/ SkipRecorded \/ RunStep \/ RecordId

MigrationSpec == MigrationInit /\ [][MigrationNext]_migrationVars

-----------------------------------------------------------------------------
(* Properties.                                                             *)

\* However often the migration fails, dies and is started again, the records tell
\* what the schema has: everything of the migrations recorded, and beyond that
\* parts of the one that is next.  A database that InitSchema has made is excepted
\* in two ways: it never gets the tables InitSchema leaves out, and it has all others
\* before their ids are recorded - for good, when the run dies between two ids, as
\* the steps of the ids that are missing fail for what they find.
SchemaMatchesRecords ==
    LET Ids  == recorded \ {SCHEMA_INIT}
        Told == UNION {Added(i) : i \in Ids}
        Initialised == recorded = {} \/ SCHEMA_INIT \in recorded
    IN  /\ \A i \in Ids : 1 .. i \subseteq Ids
        /\ Told \ schema \subseteq IF Initialised THEN LeftOut ELSE {}
        /\ schema \ Told \subseteq (IF Initialised THEN AutoMigrate ELSE {})
                                \cup (IF Ids = MigrationIds THEN {} ELSE Added(Cardinality(Ids) + 1))

-----------------------------------------------------------------------------
(* The inductive invariant: the records are a prefix, a run has done the    *)
(* steps of the next migration that it has passed, and what InitSchema      *)
(* makes is there before its record.                                        *)

Prefix(k) == UNION {Added(i) : i \in 1 .. k}

MigrationTypeOK ==
    /\ migrate.pc \in {"idle", "auto", "seed", "steps"}
    /\ migrate = [pc |-> migrate.pc, id |-> migrate.id, at |-> migrate.at]
    /\ migrate.id \in Nat /\ migrate.at \in Nat

\* The first k ids are recorded.
Recorded(k) ==
    /\ recorded \ {SCHEMA_INIT} = 1 .. k
    /\ recorded = {} => schema \subseteq AutoMigrate
    /\ SCHEMA_INIT \in recorded =>
          /\ AutoMigrate \subseteq schema
          /\ schema \subseteq AutoMigrate \cup Prefix(k) \cup (IF k = Len(Migrations) THEN {} ELSE Added(k + 1))
    /\ SCHEMA_INIT \notin recorded /\ k # 0 =>
          /\ Prefix(k) \subseteq schema
          /\ schema \subseteq Prefix(k) \cup (IF k = Len(Migrations) THEN {} ELSE Added(k + 1))

\* And this is how far the run is.
Doing(k) ==
    /\ migrate.pc = "auto" => recorded = {} /\ migrate.id = SCHEMA_INIT
    /\ migrate.pc = "seed" => schema = AutoMigrate /\ recorded = 0 .. migrate.id - 1 /\ migrate.id <= Len(Migrations)
    /\ migrate.pc = "seed" /\ migrate.at <= Len(Seeds) => migrate.id = SCHEMA_INIT
    /\ migrate.pc = "steps" =>
          /\ recorded # {} /\ migrate.id \in 1 .. Len(Migrations) /\ migrate.id <= k + 1 /\ migrate.at >= 1
          /\ migrate.id = k + 1 =>
                \A n \in 1 .. Len(Migrations[k + 1]) :
                    n < migrate.at => Migrations[k + 1][n] \in schema

MigrationInv == MigrationTypeOK /\ \E k \in 0 .. Len(Migrations) : Recorded(k) /\ Doing(k)
================================================================================
