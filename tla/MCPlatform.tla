------------------------------ MODULE MCPlatform ------------------------------
(***************************************************************************)
(* Image builds, shares of images, the cluster's resources, the marks on   *)
(* its nodes, and scheduled jobs.  focus picks one of them at the start.   *)
(***************************************************************************)
EXTENDS Builds, Images, Resources, Nodes, CronManager, TLC

CONSTANTS n1, n2

VARIABLE focus   \* the part this behaviour is about

allVars == <<focus, buildVars, imageVars, resourceVars, nodeVars, cronVars>>

MCInit ==
    /\ focus \in {"builds", "images", "resources", "nodes", "cron"}
    /\ BuildInit
    /\ ImageInit
    /\ ResourceInit
    /\ NodesInit
    /\ CronInit
    /\ focus # "cron" => \A n \in Names : rows[n].set = CHOOSE s \in Settings : TRUE

\* A step of the part, in a behaviour about it.
Only(part) ==
    /\ focus = part /\ UNCHANGED focus
    /\ IF part = "builds"    THEN TRUE ELSE UNCHANGED buildVars
    /\ IF part = "images"    THEN TRUE ELSE UNCHANGED imageVars
    /\ IF part = "resources" THEN TRUE ELSE UNCHANGED resourceVars
    /\ IF part = "nodes"     THEN TRUE ELSE UNCHANGED nodeVars
    /\ IF part = "cron"      THEN TRUE ELSE UNCHANGED cronVars

MCNext ==
    \/ Only("builds") /\ BuildNext
    \/ Only("images") /\ ImageNext
    \/ Only("resources") /\ ResourceNext
    \/ Only("nodes") /\ NodesNext
    \/ Only("cron") /\ CronNext

MCSpec == MCInit /\ [][MCNext]_allVars

\* The fairness of BuildFairSpec, for the behaviours that are about builds.
MCFairSpec ==
    /\ MCSpec
    /\ WF_allVars(Only("builds") /\ StartBackend)
    /\ \A b \in Builds :
          /\ WF_allVars(Only("builds") /\ ReconcileBuild(b))
          /\ WF_allVars(/\ Only("builds")
                        /\ \/ handleJobNotFound(b) \/ FetchRecord(b) \/ handleRecordNotFound(b)
                           \/ RecordSize(b) \/ createImageRecord(b) \/ updateKanikoStatus(b))
          /\ WF_allVars(/\ Only("builds")
                        /\ \E phase \in {"running", "succeeded", "failed"} : RunBuild(b, phase))
          /\ WF_allVars(Only("builds") /\ DropBuildJob(b))

MCValidConfigs == {<<n1, "c1">>, <<n1, "c2">>, <<n2, "c1">>}
=============================================================================
