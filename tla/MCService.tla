------------------------------- MODULE MCService -------------------------------
(***************************************************************************)
(* A job with every fault and the pages that show it, the pages of what is *)
(* used, how the process starts and stops, how its tables migrate, and a   *)
(* user's place in the image registry.  focus picks one of them at the     *)
(* start.                                                                  *)
(***************************************************************************)
EXTENDS VcJob, JobPages, Usage, Startup, Migration, Registry

MCJobAmount == [w \in 1..3 |-> w]

VARIABLE focus   \* the part this behaviour is about

allVars == <<focus, vars, pagesVars, usageVars, startupVars, migrationVars, registryVars>>

MCInit ==
    /\ focus \in {"job", "lists", "token", "events", "usage", "startup", "migration", "registry"}
    /\ Init
    /\ StartupInit
    /\ focus # "startup" => conf = [enabled |-> {}, complete |-> Sections]
    /\ MigrationInit
    /\ focus # "migration" => admin /\ recorded = MigrationIds
    /\ RegistryInit
    /\ PagesInit
    /\ focus \notin {"lists", "token", "events"} => kind = "spjob" /\ record.recent
    /\ focus \in {"token", "events"} => record.recent /\ record.status \in {"Running", "Queueing", "none"}
    /\ UsageInit
    /\ focus # "usage" => limits.deserved /\ limits.capability = 0

\* A step of the part, in a behaviour about it.
Only(part) ==
    /\ focus = part /\ UNCHANGED focus
    /\ IF part = "job"       THEN TRUE ELSE UNCHANGED vars
    /\ IF part \in {"lists", "token", "events"} THEN TRUE ELSE UNCHANGED pagesVars
    /\ IF part = "usage"     THEN TRUE ELSE UNCHANGED usageVars
    /\ IF part = "startup"   THEN TRUE ELSE UNCHANGED startupVars
    /\ IF part = "migration" THEN TRUE ELSE UNCHANGED migrationVars
    /\ IF part = "registry"  THEN TRUE ELSE UNCHANGED registryVars

MCNext ==
    \/ Only("job") /\ Next
    \/ Only("lists") /\ ListsNext
    \/ Only("token") /\ TokenNext
    \/ Only("events") /\ EventsNext
    \/ Only("usage") /\ UsageNext
    \/ Only("startup") /\ StartupNext
    \/ Only("migration") /\ MigrationNext
    \/ Only("registry") /\ RegistryNext

MCSpec == MCInit /\ [][MCNext]_allVars
================================================================================
