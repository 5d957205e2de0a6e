--------------------------- MODULE MCCronManager ----------------------------
(***************************************************************************)
(* Two configurations, so that one can hold the id of the other's entry    *)
(* after a restart; a type and a configuration that AddCronJob refuses.    *)
(***************************************************************************)
EXTENDS CronManager

CONSTANTS n1, n2

MCValidConfigs == {<<n1, "c1">>, <<n1, "c2">>, <<n2, "c1">>}

\* SyncCronJob has run before the first request: what goes wrong then is
\* UpdateJobConfig's doing alone.
SyncedFirst == CronInit /\ [][CronNext /\ (~synced => SyncCronJob)]_cronVars
=============================================================================
