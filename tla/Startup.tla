-------------------------------- MODULE Startup --------------------------------
(***************************************************************************)
(* How the process starts and stops (cmd/crater/main.go, cmd/crater/helper *)
(* and pkg/config).  main fills a RegisterConfig step by step and hands it,*)
(* or what it holds at that moment, to the parts that keep running: the    *)
(* cron manager, the scheduler of EMIAS tasks and its profiler, the        *)
(* reconcilers and the handlers of the HTTP server.                        *)
(***************************************************************************)
EXTENDS Naturals, FiniteSets

CONSTANT MaxSignals   \* bound: SIGTERM and SIGINT

VARIABLES
    conf,      \* the configuration file: features enabled, sections complete
    deps,      \* RegisterConfig: the fields that are set
    held,      \* what each part holds of RegisterConfig since it was made
    step,      \* where main is
    loops,     \* parts that run
    manager,   \* controller-runtime's manager
    server,    \* the HTTP server
    signals    \* signals received, and whether the server's channel got one

startupVars == <<conf, deps, held, step, loops, manager, server, signals>>

Features == {"leaderElection", "emias", "profiling", "seacs", "smtp", "registry", "raidsLab"}

\* What a feature requires; the sections of Always are required in any case.
RequiredBy ==
    [f \in Features |->
        CASE f = "registry" -> {"harbor", "buildTools"}
          [] f = "smtp"     -> {"smtp"}
          [] f = "raidsLab" -> {"ldap", "openAPI", "uidServer"}
          [] f = "seacs"    -> {"prediction"}
          [] OTHER          -> {}]
Always   == {"server", "namespaces", "auth", "postgres", "storage", "secrets"}
Sections == Always \cup UNION {RequiredBy[f] : f \in Features}

ValidateConfig(c) == Always \cup UNION {RequiredBy[f] : f \in c.enabled} \subseteq c.complete

RegisterConfig == {"KubeConfig", "KubeClient", "PrometheusClient", "CronJobManager", "Client",
                   "ServiceManager", "AITaskCtrl", "ImagePacker", "ImageRegistry"}

Reconcilers == {"aijobReconciler", "buildReconciler", "vcjobReconciler"}
Parts       == Reconcilers \cup {"cron", "scheduler", "profiler", "handlers"}

\* The managers of the handlers; two register only when their feature is enabled.
Registers(c) ==
    {"auth", "account", "image", "tool", "operations", "vcjob", "node"}
    \cup (IF "emias" \in c.enabled THEN {"aijobs"} ELSE {})
    \cup (IF "seacs" \in c.enabled THEN {"spjobs"} ELSE {})

UsedByManager ==
    [auth       |-> {},
     account    |-> {"Client"},
     image      |-> {"Client", "ImagePacker", "ImageRegistry"},
     tool       |-> {"KubeConfig", "Client", "KubeClient", "ServiceManager"},
     operations |-> {"Client", "KubeClient", "PrometheusClient", "CronJobManager"},
     vcjob      |-> {"Client", "KubeConfig", "KubeClient", "ImagePacker", "ImageRegistry", "ServiceManager"},
     node       |-> {"Client", "KubeClient", "PrometheusClient"},
     aijobs     |-> {"Client", "KubeClient", "AITaskCtrl"},
     spjobs     |-> {"Client", "KubeClient"}]

\* What a part dereferences of what it was given.
Uses(part) ==
    CASE part = "handlers"        -> UNION {UsedByManager[m] : m \in Registers(conf)}
      [] part = "cron"            -> {"Client", "KubeClient", "PrometheusClient"}
      [] part = "scheduler"       -> {"ServiceManager", "KubeClient"}
      [] part = "profiler"        -> {"PrometheusClient"}
      [] part = "vcjobReconciler" -> {"PrometheusClient", "KubeClient"}
      [] OTHER                    -> {}

Make(part) == held' = [held EXCEPT ![part] = deps]
Set(fields) == deps' = deps \cup fields
GoTo(s) == step' = s

\* The configuration is read when the packages are initialised, before main.
StartupInit ==
    /\ conf \in {[enabled |-> on, complete |-> Sections \ gap] :
                    on \in SUBSET Features, gap \in {{}} \cup {{s} : s \in Sections}}
    /\ deps = {} /\ held = [p \in Parts |-> {}]
    /\ step = "config"
    /\ loops = {} /\ manager = "none" /\ server = "none"
    /\ signals = [count |-> 0, heard |-> FALSE]

-----------------------------------------------------------------------------
(* The process ends: klog.Fatalf, os.Exit, a signal nobody handles.        *)

ProcessEnds ==
    /\ GoTo("exited")
    /\ loops' = {} /\ manager' = "none" /\ server' = "none"
    /\ UNCHANGED <<conf, deps, held>>

\* Any call to the cluster, the database or the environment may fail.
Fatal ==
    /\ step \in {"config", "env", "register", "manager", "emias", "packer", "volcano", "indexers", "health"}
    /\ ProcessEnds /\ UNCHANGED signals

GetConfig ==
    /\ step = "config" /\ ValidateConfig(conf)
    /\ GoTo("env")
    /\ UNCHANGED <<conf, deps, held, loops, manager, server, signals>>

ConfigRefused ==
    /\ step = "config" /\ ~ValidateConfig(conf)
    /\ ProcessEnds /\ UNCHANGED signals

LoadDebugEnvironment ==
    /\ step = "env" /\ GoTo("register")
    /\ UNCHANGED <<conf, deps, held, loops, manager, server, signals>>

\* The cron manager gets the clients there are now and starts its own loop.
InitializeRegisterConfig ==
    /\ step = "register" /\ GoTo("clients")
    /\ Set({"KubeConfig", "KubeClient", "PrometheusClient"})
    /\ UNCHANGED <<conf, held, loops, manager, server, signals>>

NewCronJobManager ==
    /\ step = "clients" /\ GoTo("signals")
    /\ Make("cron") /\ Set({"CronJobManager"})
    /\ loops' = loops \cup {"cron"}
    /\ UNCHANGED <<conf, manager, server, signals>>

SetupSignalHandler ==
    /\ step = "signals" /\ GoTo("manager")
    /\ UNCHANGED <<conf, deps, held, loops, manager, server, signals>>

CreateCRDManager ==
    /\ step = "manager" /\ GoTo("deps")
    /\ manager' = "created"
    /\ UNCHANGED <<conf, deps, held, loops, server, signals>>

\* Mutant: the service manager is left to a later step.
SetupManagerDependencies_ClientOnly ==
    /\ step = "deps" /\ GoTo("emias")
    /\ Set({"Client"})
    /\ UNCHANGED <<conf, held, loops, manager, server, signals>>

SetupManagerDependencies ==
    /\ step = "deps" /\ GoTo("emias")
    /\ Set({"Client", "ServiceManager"})
    /\ UNCHANGED <<conf, held, loops, manager, server, signals>>

Cancelled == signals.count > 0

\* The loops of the scheduler and the profiler end with the context.
setupEMIASJob ==
    /\ step = "emias" /\ GoTo("packer")
    /\ IF "emias" \in conf.enabled
       THEN LET made == {"scheduler", "aijobReconciler"}
                        \cup (IF "profiling" \in conf.enabled THEN {"profiler"} ELSE {})
            IN  /\ held' = [p \in Parts |-> IF p \in made THEN deps ELSE held[p]]
                /\ loops' = IF Cancelled THEN loops ELSE loops \cup (made \ Reconcilers)
                /\ Set({"AITaskCtrl"})
       ELSE UNCHANGED <<held, loops, deps>>
    /\ UNCHANGED <<conf, manager, server, signals>>

setupImagePacker ==
    /\ step = "packer" /\ GoTo("volcano")
    /\ Make("buildReconciler")
    /\ Set({"ImagePacker", "ImageRegistry"})
    /\ UNCHANGED <<conf, loops, manager, server, signals>>

setupVolcano ==
    /\ step = "volcano" /\ GoTo("indexers")
    /\ Make("vcjobReconciler")
    /\ UNCHANGED <<conf, deps, loops, manager, server, signals>>

SetupIndexers ==
    /\ step = "indexers" /\ GoTo("health")
    /\ UNCHANGED <<conf, deps, held, loops, manager, server, signals>>

SetupHealthChecks ==
    /\ step = "health" /\ GoTo("start")
    /\ UNCHANGED <<conf, deps, held, loops, manager, server, signals>>

-----------------------------------------------------------------------------
(* The manager runs beside main, which waits for its caches.               *)

StartManager ==
    /\ step = "start" /\ GoTo("sync")
    /\ manager' = IF Cancelled THEN "stopped" ELSE "starting"
    /\ UNCHANGED <<conf, deps, held, loops, server, signals>>

CachesSync ==
    /\ manager = "starting"
    /\ manager' = "synced"
    /\ UNCHANGED <<conf, deps, held, step, loops, server, signals>>

\* With leader election the reconcilers wait for the lease.
StartReconcilers ==
    /\ manager = "synced"
    /\ manager' = "leading"
    /\ loops' = loops \cup (Reconcilers \ IF "emias" \in conf.enabled THEN {} ELSE {"aijobReconciler"})
    /\ UNCHANGED <<conf, deps, held, step, server, signals>>

\* It cannot start, or loses the lease.
ManagerFails ==
    /\ \/ manager = "starting"
       \/ manager = "leading" /\ "leaderElection" \in conf.enabled
    /\ ProcessEnds /\ UNCHANGED signals

\* A context that is cancelled ends the wait too; its answer is not looked at.
WaitForCacheSync ==
    /\ step = "sync" /\ manager \in {"synced", "leading", "stopped"}
    /\ GoTo("listen")
    /\ UNCHANGED <<conf, deps, held, loops, manager, server, signals>>

-----------------------------------------------------------------------------
(* The HTTP server.                                                        *)

StartServer ==
    /\ step = "listen" /\ GoTo("notify")
    /\ Make("handlers")
    /\ loops' = loops \cup {"handlers"}
    /\ server' = "up"
    /\ UNCHANGED <<conf, deps, manager, signals>>

ListenFails ==
    /\ step \in {"notify", "wait"} /\ server = "up"
    /\ ProcessEnds /\ UNCHANGED signals

NotifySignals ==
    /\ step = "notify" /\ GoTo("wait")
    /\ UNCHANGED <<conf, deps, held, loops, manager, server, signals>>

\* Requests under way have ten seconds; then main returns.
Shutdown ==
    /\ step = "wait" /\ signals.heard
    /\ GoTo("shutdown")
    /\ server' = "down" /\ loops' = loops \ {"handlers"}
    /\ UNCHANGED <<conf, deps, held, manager, signals>>

MainReturns ==
    /\ step = "shutdown"
    /\ ProcessEnds /\ UNCHANGED signals

\* The first signal cancels the context and reaches the server if it listens for
\* it already; the second one ends the process.
Signal ==
    /\ signals.count < MaxSignals /\ step # "exited"
    /\ signals' = [count |-> signals.count + 1, heard |-> step \in {"wait", "shutdown"}]
    /\ IF step \in {"config", "env", "register", "clients", "signals"} \/ Cancelled
       THEN ProcessEnds
       ELSE /\ manager' = IF manager \in {"starting", "synced", "leading"} THEN "stopped" ELSE manager
            /\ loops' = loops \ (Reconcilers \cup {"scheduler", "profiler"})
            /\ UNCHANGED <<conf, deps, held, step, server>>

Main ==
    \/ GetConfig \/ ConfigRefused \/ LoadDebugEnvironment \/ InitializeRegisterConfig \/ NewCronJobManager
    \/ SetupSignalHandler \/ CreateCRDManager \/ SetupManagerDependencies \/ setupEMIASJob
    \/ setupImagePacker \/ setupVolcano \/ SetupIndexers \/ SetupHealthChecks \/ StartManager
    \/ WaitForCacheSync \/ StartServer \/ NotifySignals \/ Shutdown \/ MainReturns

StartupNext ==
    \/ Main \/ Fatal
    \/ CachesSync \/ StartReconcilers \/ ManagerFails
    \/ ListenFails \/ Signal

StartupSpec == StartupInit /\ [][StartupNext]_startupVars

-----------------------------------------------------------------------------
(* The inductive invariant: what is set, and what is held, by the step that *)
(* main has come to.                                                        *)

Serving     == {"notify", "wait", "shutdown"}
PastVolcano == {"indexers", "health", "start", "sync", "listen"} \cup Serving
PastPacker  == {"volcano"} \cup PastVolcano
PastEmias   == {"packer"} \cup PastPacker
PastDeps    == {"emias"} \cup PastEmias
PastCron    == {"signals", "manager", "deps"} \cup PastDeps
PastClients == {"clients"} \cup PastCron

StartupTypeOK ==
    /\ conf \in [enabled : SUBSET Features, complete : SUBSET Sections]
    /\ deps \subseteq RegisterConfig
    /\ held \in [Parts -> SUBSET RegisterConfig]
    /\ step \in {"config", "env", "register", "exited"} \cup PastClients
    /\ loops \subseteq Parts
    /\ manager \in {"none", "created", "starting", "synced", "leading", "stopped"}
    /\ server \in {"none", "up", "down"}
    /\ signals \in [count : Nat, heard : BOOLEAN]

SetByNow ==
    /\ step \in PastClients => {"KubeConfig", "KubeClient", "PrometheusClient"} \subseteq deps
    /\ step \in PastCron => "CronJobManager" \in deps
    /\ step \in PastDeps => {"Client", "ServiceManager"} \subseteq deps
    /\ step \in PastEmias /\ "emias" \in conf.enabled => "AITaskCtrl" \in deps
    /\ step \in PastPacker => {"ImagePacker", "ImageRegistry"} \subseteq deps
    /\ step \in PastVolcano => Uses("vcjobReconciler") \subseteq held["vcjobReconciler"]

\* The manager runs from the step that starts it on, and main passes the wait
\* for its caches when they are filled or the process was asked to stop.
InStep ==
    /\ manager \in {"starting", "synced", "leading"} => step \in PastVolcano
    /\ manager = "stopped" => Cancelled
    /\ step \in {"listen", "notify", "wait"} => manager \in {"synced", "leading", "stopped"}
    /\ server = "up" => step \in {"notify", "wait"}

-----------------------------------------------------------------------------
(* Properties.                                                             *)

\* Whatever runs was made when all it uses was set already: the steps of main are
\* in an order that serves every part.  The cron manager is the exception: it is
\* made before there is a client, and its cleaners find none.
NothingMissing ==
    \A p \in loops : Uses(p) \subseteq held[p] \cup IF p = "cron" THEN {"Client"} ELSE {}

\* Requests are served once the manager's caches are filled, however slow the
\* cluster is and whoever holds the lease, as long as nobody has asked the process
\* to stop.
ServedIsSynced ==
    server = "up" /\ ~Cancelled => manager \in {"synced", "leading"}

StartupInv == StartupTypeOK /\ SetByNow /\ InStep /\ NothingMissing
================================================================================
