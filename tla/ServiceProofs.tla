---------------------------- MODULE ServiceProofs ----------------------------
(***************************************************************************)
(* The process, its database, the image registry and the pages of a job:   *)
(* every part that runs has what it uses, the records of the migration     *)
(* tell what the schema has, a credential that was answered works, and the *)
(* pages answer what the cluster has - for any number of signals, of runs  *)
(* that fail or die, and of requests beside each other.                    *)
(***************************************************************************)
EXTENDS Startup, Migration, Registry, JobPages, FiniteSetTheorems, SequenceTheorems, TLAPS

-----------------------------------------------------------------------------
(* How the process starts. *)

\* What the parts use, part by part; the EMIAS handlers alone use its controller.
LEMMA UsesOf ==
    /\ Uses("cron") = {"Client", "KubeClient", "PrometheusClient"}
    /\ Uses("scheduler") = {"ServiceManager", "KubeClient"}
    /\ Uses("profiler") = {"PrometheusClient"}
    /\ Uses("vcjobReconciler") = {"PrometheusClient", "KubeClient"}
    /\ Uses("aijobReconciler") = {} /\ Uses("buildReconciler") = {}
    /\ Uses("handlers") \subseteq RegisterConfig
    /\ "emias" \notin conf.enabled => "AITaskCtrl" \notin Uses("handlers")
  BY DEF Uses, UsedByManager, Registers, RegisterConfig

\* A process that has ended holds nothing that could be missing.
LEMMA EndedKeeps ==
    ASSUME StartupInv, ProcessEnds, signals' \in [count : Nat, heard : BOOLEAN]
    PROVE  StartupInv'
  BY DEF StartupInv, StartupTypeOK, SetByNow, InStep, NothingMissing, Uses, ProcessEnds, GoTo, Cancelled,
         PastClients, PastCron, PastDeps, PastEmias, PastPacker, PastVolcano, Serving

\* The steps before the manager is there.
LEMMA EarlyTypes ==
    ASSUME StartupInv,
           \/ GetConfig \/ LoadDebugEnvironment \/ InitializeRegisterConfig \/ NewCronJobManager
           \/ SetupSignalHandler \/ CreateCRDManager \/ SetupManagerDependencies
    PROVE  StartupTypeOK' /\ SetByNow' /\ InStep'
  BY DEF StartupInv, StartupTypeOK, SetByNow, InStep, Uses, GoTo, Make, Set, Cancelled,
         GetConfig, LoadDebugEnvironment, InitializeRegisterConfig, NewCronJobManager,
         SetupSignalHandler, CreateCRDManager, SetupManagerDependencies, RegisterConfig, Parts,
         PastClients, PastCron, PastDeps, PastEmias, PastPacker, PastVolcano, Serving

\* The steps before the reconcilers find what they use.
LEMMA EarlyKeeps ==
    ASSUME StartupInv,
           \/ GetConfig \/ LoadDebugEnvironment \/ InitializeRegisterConfig \/ NewCronJobManager
           \/ SetupSignalHandler \/ CreateCRDManager \/ SetupManagerDependencies
    PROVE  NothingMissing'
  BY UsesOf DEF StartupInv, StartupTypeOK, SetByNow, NothingMissing, Uses, GoTo, Make, Set,
         GetConfig, LoadDebugEnvironment, InitializeRegisterConfig, NewCronJobManager,
         SetupSignalHandler, CreateCRDManager, SetupManagerDependencies, Parts,
         PastClients

\* The parts that main makes after the manager.
LEMMA LaterTypes ==
    ASSUME StartupInv,
           \/ setupEMIASJob \/ setupImagePacker \/ setupVolcano \/ SetupIndexers \/ SetupHealthChecks
           \/ StartManager \/ WaitForCacheSync \/ StartServer \/ NotifySignals \/ Shutdown
    PROVE  StartupTypeOK' /\ SetByNow' /\ InStep'
  <1>1. ASSUME setupEMIASJob PROVE StartupTypeOK' /\ SetByNow' /\ InStep'
    BY <1>1 DEF StartupInv, StartupTypeOK, SetByNow, InStep, Uses, GoTo, Set, Cancelled, setupEMIASJob,
         RegisterConfig, Parts, Reconcilers, PastClients, PastCron, PastDeps, PastEmias, PastPacker,
         PastVolcano, Serving
  <1>2. ASSUME setupImagePacker \/ setupVolcano PROVE StartupTypeOK' /\ SetByNow' /\ InStep'
    BY <1>2, UsesOf DEF StartupInv, StartupTypeOK, SetByNow, InStep, Uses, GoTo, Make, Set, Cancelled,
         setupImagePacker, setupVolcano, RegisterConfig, Parts, Reconcilers,
         PastClients, PastCron, PastDeps, PastEmias, PastPacker, PastVolcano, Serving
  <1>3. ASSUME SetupIndexers \/ SetupHealthChecks \/ StartManager \/ WaitForCacheSync
        PROVE  StartupTypeOK' /\ SetByNow' /\ InStep'
    BY <1>3 DEF StartupInv, StartupTypeOK, SetByNow, InStep, Uses, GoTo, Cancelled,
         SetupIndexers, SetupHealthChecks, StartManager, WaitForCacheSync,
         PastClients, PastCron, PastDeps, PastEmias, PastPacker, PastVolcano, Serving
  <1>4. ASSUME StartServer PROVE StartupTypeOK' /\ SetByNow' /\ InStep'
    <2>1. held' \in [Parts -> SUBSET RegisterConfig] /\ held'["vcjobReconciler"] = held["vcjobReconciler"]
      BY <1>4 DEF StartupInv, StartupTypeOK, StartServer, Make, Parts
    <2>2. "handlers" \in Parts
      BY DEF Parts
    <2> QED
      BY <1>4, <2>1, <2>2 DEF StartupInv, StartupTypeOK, SetByNow, InStep, Uses, GoTo, Cancelled, StartServer,
         PastClients, PastCron, PastDeps, PastEmias, PastPacker, PastVolcano, Serving
  <1>5. ASSUME NotifySignals \/ Shutdown PROVE StartupTypeOK' /\ SetByNow' /\ InStep'
    BY <1>5 DEF StartupInv, StartupTypeOK, SetByNow, InStep, Uses, GoTo, Cancelled, NotifySignals, Shutdown,
         PastClients, PastCron, PastDeps, PastEmias, PastPacker, PastVolcano, Serving
  <1> QED
    BY <1>1, <1>2, <1>3, <1>4, <1>5

\* So do the reconcilers and the steps that start and stop the server.
LEMMA LaterKeeps ==
    ASSUME StartupInv,
           \/ setupEMIASJob \/ setupImagePacker \/ setupVolcano \/ SetupIndexers \/ SetupHealthChecks
           \/ StartManager \/ WaitForCacheSync \/ StartServer \/ NotifySignals \/ Shutdown
    PROVE  NothingMissing'
  <1>1. ASSUME setupEMIASJob \/ setupImagePacker \/ setupVolcano PROVE NothingMissing'
    BY <1>1, UsesOf DEF StartupInv, StartupTypeOK, SetByNow, InStep, NothingMissing, Uses, GoTo, Make, Set,
         setupEMIASJob, setupImagePacker, setupVolcano, Parts, Reconcilers,
         PastClients, PastCron, PastDeps, PastEmias, PastPacker, PastVolcano, Serving
  <1>2. ASSUME StartServer PROVE NothingMissing'
    <2>1. RegisterConfig \ (IF "emias" \in conf.enabled THEN {} ELSE {"AITaskCtrl"}) \subseteq deps
      BY <1>2 DEF StartupInv, SetByNow, StartServer, RegisterConfig,
           PastClients, PastCron, PastDeps, PastEmias, PastPacker, PastVolcano, Serving
    <2>2. Uses("handlers") \subseteq deps
      BY <2>1, UsesOf
    <2>3. \A p : Uses(p)' = Uses(p)
      BY <1>2 DEF StartServer, Uses
    <2>4. held' = [held EXCEPT !["handlers"] = deps] /\ loops' = loops \cup {"handlers"}
      BY <1>2 DEF StartServer, Make
    <2> QED
      BY <2>2, <2>3, <2>4 DEF StartupInv, StartupTypeOK, NothingMissing, Parts
  <1>3. ASSUME \/ SetupIndexers \/ SetupHealthChecks \/ StartManager \/ WaitForCacheSync
               \/ NotifySignals \/ Shutdown
        PROVE  NothingMissing'
    BY <1>3 DEF StartupInv, NothingMissing, Uses,
         SetupIndexers, SetupHealthChecks, StartManager, WaitForCacheSync, NotifySignals, Shutdown
  <1> QED
    BY <1>1, <1>2, <1>3

\* A signal keeps the type of the signals.
LEMMA SignalType ==
    ASSUME StartupInv, Signal
    PROVE  signals' \in [count : Nat, heard : BOOLEAN]
  <1>1. signals.count + 1 \in Nat
    BY DEF StartupInv, StartupTypeOK
  <1>2. \A n \in Nat, b \in BOOLEAN : [count |-> n, heard |-> b] \in [count : Nat, heard : BOOLEAN]
    OBVIOUS
  <1>3. (step \in {"wait", "shutdown"}) \in BOOLEAN
    OBVIOUS
  <1>4. signals' = [count |-> signals.count + 1, heard |-> step \in {"wait", "shutdown"}]
    BY DEF Signal
  <1>5. [count |-> signals.count + 1, heard |-> step \in {"wait", "shutdown"}] \in [count : Nat, heard : BOOLEAN]
    BY <1>1, <1>2, <1>3, Zenon
  <1> QED
    BY <1>4, <1>5, Zenon

\* The manager and the signals, beside main.
LEMMA BesideKeeps ==
    ASSUME StartupInv, CachesSync \/ StartReconcilers \/ Signal, ~ProcessEnds
    PROVE  StartupInv'
  <1>1. StartupTypeOK' /\ SetByNow'
    <2>1. signals' \in [count : Nat, heard : BOOLEAN]
      BY SignalType DEF StartupInv, StartupTypeOK, CachesSync, StartReconcilers
    <2>2. loops' \subseteq Parts
      BY DEF StartupInv, StartupTypeOK, CachesSync, StartReconcilers, Signal, Reconcilers, Parts
    <2>3. /\ manager' \in {"none", "created", "starting", "synced", "leading", "stopped"}
          /\ UNCHANGED <<conf, deps, held, step, server>>
      BY DEF StartupInv, StartupTypeOK, CachesSync, StartReconcilers, Signal
    <2> QED
      BY <2>1, <2>2, <2>3 DEF StartupInv, StartupTypeOK, SetByNow, Uses
  <1>2. InStep'
    BY DEF StartupInv, StartupTypeOK, InStep, Cancelled, CachesSync, StartReconcilers, Signal, Reconcilers,
         PastVolcano, Serving
  <1>3. NothingMissing'
    <2>1. loops' \subseteq loops \cup Reconcilers /\ UNCHANGED <<conf, held>>
      BY DEF CachesSync, StartReconcilers, Signal
    <2>2. loops' \subseteq loops \/ step \in PastVolcano
      BY DEF CachesSync, StartReconcilers, Signal, StartupInv, InStep
    <2>3. \A p \in Reconcilers : step \in PastVolcano => Uses(p) \subseteq held[p]
      BY UsesOf DEF Reconcilers, StartupInv, SetByNow
    <2> QED
      BY <2>1, <2>2, <2>3 DEF StartupInv, NothingMissing, Uses
  <1> QED
    BY <1>1, <1>2, <1>3 DEF StartupInv

\* The invariant of the start-up: the parts set so far are those of the step main
\* has reached (cmd/crater/main.go).
THEOREM StartupInvariance == StartupSpec => []StartupInv
  <1>1. StartupInit => StartupInv
    BY DEF StartupInit, StartupInv, StartupTypeOK, SetByNow, InStep, NothingMissing, RegisterConfig,
         PastClients, PastCron, PastDeps, PastEmias, PastPacker, PastVolcano, Serving
  <1>2. StartupInv /\ [StartupNext]_startupVars => StartupInv'
    <2> SUFFICES ASSUME StartupInv, [StartupNext]_startupVars PROVE StartupInv'
      OBVIOUS
    <2>1. CASE ProcessEnds
      <3>1. signals' \in [count : Nat, heard : BOOLEAN]
        <4>1. UNCHANGED signals \/ Signal
          BY <2>1 DEF ProcessEnds, GoTo, StartupNext, startupVars, Main, Fatal, ConfigRefused, ManagerFails, ListenFails,
            MainReturns, GetConfig, LoadDebugEnvironment, InitializeRegisterConfig, NewCronJobManager,
            SetupSignalHandler, CreateCRDManager, SetupManagerDependencies, setupEMIASJob, setupImagePacker,
            setupVolcano, SetupIndexers, SetupHealthChecks, StartManager, WaitForCacheSync, StartServer,
            NotifySignals, Shutdown, CachesSync, StartReconcilers
        <4> QED
          BY <4>1, SignalType DEF StartupInv, StartupTypeOK
      <3> QED
        BY <2>1, <3>1, EndedKeeps
    <2>2. CASE \/ GetConfig \/ LoadDebugEnvironment \/ InitializeRegisterConfig \/ NewCronJobManager
               \/ SetupSignalHandler \/ CreateCRDManager \/ SetupManagerDependencies
      BY <2>2, EarlyTypes, EarlyKeeps DEF StartupInv
    <2>3. CASE \/ setupEMIASJob \/ setupImagePacker \/ setupVolcano \/ SetupIndexers \/ SetupHealthChecks
               \/ StartManager \/ WaitForCacheSync \/ StartServer \/ NotifySignals \/ Shutdown
      BY <2>3, LaterTypes, LaterKeeps DEF StartupInv
    <2>4. CASE ~ProcessEnds /\ (CachesSync \/ StartReconcilers \/ Signal)
      BY <2>4, BesideKeeps
    <2>5. CASE UNCHANGED startupVars
      BY <2>5 DEF StartupInv, StartupTypeOK, SetByNow, InStep, NothingMissing, Uses, Cancelled, startupVars
    <2> QED
      BY <2>1, <2>2, <2>3, <2>4, <2>5 DEF StartupNext, Main, Fatal, ConfigRefused, ManagerFails, ListenFails,
        MainReturns
  <1> QED
    BY <1>1, <1>2, PTL DEF StartupSpec

\* Whatever runs has what it uses: pkg, cmd/crater/main.go and helper make the parts
\* in an order that serves them all (but for the client of the cron manager).
THEOREM NothingIsMissing == StartupSpec => []NothingMissing
  <1>1. StartupInv => NothingMissing
    BY DEF StartupInv
  <1> QED
    BY <1>1, StartupInvariance, PTL

\* Requests are served after the caches are filled, unless somebody asked the
\* process to stop meanwhile (WaitForCacheSync in cmd/crater/helper).
THEOREM ServedAfterSync == StartupSpec => []ServedIsSynced
  <1>1. StartupInv => ServedIsSynced
    BY DEF StartupInv, InStep, ServedIsSynced
  <1> QED
    BY <1>1, StartupInvariance, PTL

-----------------------------------------------------------------------------
(* The credentials of the image registry. *)

\* The shapes of a request for a credential.
LEMMA AskShapes ==
    /\ NoAsk \in Ask
    /\ \A a \in Ask, pc \in {"quota", "project", "ready", "delete", "create", "member"} :
          /\ [a EXCEPT !.pc = pc] \in Ask /\ [a EXCEPT !.pc = pc].pc = pc
          /\ [a EXCEPT !.pc = pc].then = a.then /\ [a EXCEPT !.pc = pc].alone = a.alone
          /\ [a EXCEPT !.pc = pc].password = a.password
    /\ \A a \in Ask : [a EXCEPT !.alone = FALSE] \in Ask
  BY DEF Ask, NoAsk

\* A request that goes on, in the same project and with the same account, keeps
\* the invariant.
LEMMA GoKeeps ==
    ASSUME RegistryInv, NEW r \in HarborCalls, NEW pc \in {"quota", "project", "ready", "delete", "create"},
           Go(r, pc), UNCHANGED <<account, member, nextPassword, answered>>, project' \in Nat,
           project # 0 => project' # 0,
           ask[r].pc # "idle",
           pc \in {"delete", "create"} => ask[r].then = "credential",
           pc \in {"ready", "delete", "create"} => project' # 0
    PROVE  RegistryInv'
  <1>1. ask \in [HarborCalls -> Ask] /\ ask[r] \in Ask
    BY DEF RegistryInv, RegistryTypeOK
  <1>2. ask' = [ask EXCEPT ![r] = [ask[r] EXCEPT !.pc = pc]]
    BY <1>1 DEF Go
  <1>3. [ask[r] EXCEPT !.pc = pc] \in Ask
    BY <1>1, AskShapes
  <1>4. \A s \in HarborCalls : /\ ask'[s].then = ask[s].then /\ ask'[s].alone = ask[s].alone
                               /\ ask'[s].password = ask[s].password
                               /\ ask'[s].pc = IF s = r THEN pc ELSE ask[s].pc
    BY <1>1, <1>2, AskShapes
  <1>5. Credentials' = Credentials
    BY <1>4 DEF Credentials
  <1>6. RegistryTypeOK'
    BY <1>1, <1>2, <1>3 DEF RegistryInv, RegistryTypeOK
  <1>7. \A s \in HarborCalls : AskInOrder(s)'
    BY <1>4, <1>5 DEF RegistryInv, AskInOrder
  <1>8. CredentialWorks'
    BY <1>5 DEF RegistryInv, CredentialWorks
  <1> QED
    BY <1>6, <1>7, <1>8 DEF RegistryInv

\* A request that ends leaves the others in order; the last credential that ends
\* decides what was answered.
LEMMA EndKeeps ==
    ASSUME RegistryInv, NEW r \in HarborCalls, ask[r].pc # "idle", Refuse(r), UNCHANGED <<account, project>>,
           nextPassword' \in Nat \ {0}, member' \in BOOLEAN, answered' \in Nat,
           ask[r].then # "credential" => UNCHANGED <<answered, member>>,
           ask[r].then = "credential" =>
               \/ answered' = 0
               \/ ask[r].alone /\ ask[r].pc = "member" /\ answered' = ask[r].password /\ member'
    PROVE  RegistryInv'
  <1>1. ask \in [HarborCalls -> Ask] /\ ask[r] \in Ask
    BY DEF RegistryInv, RegistryTypeOK
  <1>2. ask' = [ask EXCEPT ![r] = NoAsk]
    BY DEF Refuse
  <1>3. RegistryTypeOK'
    BY <1>1, <1>2, AskShapes DEF RegistryInv, RegistryTypeOK
  <1>4. Credentials' = Credentials \ {r}
    BY <1>1, <1>2 DEF Credentials, NoAsk
  <1>5. \A s \in HarborCalls : AskInOrder(s)'
    <2> SUFFICES ASSUME NEW s \in HarborCalls PROVE AskInOrder(s)'
      OBVIOUS
    <2>1. AskInOrder(s)
      BY DEF RegistryInv
    <2>2. CASE s = r
      BY <1>1, <1>2, <2>2 DEF AskInOrder, NoAsk
    <2>3. CASE s # r
      <3>1. ask'[s] = ask[s]
        BY <1>1, <1>2, <2>3
      <3> QED
        BY <1>4, <2>1, <2>3, <3>1 DEF AskInOrder
    <2> QED
      BY <2>2, <2>3
  <1>6. CredentialWorks'
    <2>1. CASE ask[r].then # "credential"
      <3>1. Credentials' = Credentials
        BY <1>4, <2>1 DEF Credentials
      <3> QED
        BY <2>1, <3>1 DEF RegistryInv, CredentialWorks
    <2>2. CASE ask[r].then = "credential"
      BY <2>2 DEF RegistryInv, CredentialWorks, AskInOrder
    <2> QED
      BY <2>1, <2>2
  <1> QED
    BY <1>3, <1>5, <1>6 DEF RegistryInv

\* Only a credential that is alone has an account that counts; another that
\* removes or makes one is not alone, or is that one.
LEMMA AccountKeeps ==
    ASSUME RegistryInv, NEW r \in HarborCalls, ask[r].then = "credential",
           NEW a \in Ask, ask' = [ask EXCEPT ![r] = a], a.then = "credential", a.alone = ask[r].alone,
           ask[r].pc \in {"delete", "create"},
           account' \in Nat, member' \in BOOLEAN, nextPassword' \in Nat \ {0}, UNCHANGED <<project, answered>>,
           \/ a.pc = "create"
           \/ a.pc = "member" /\ account' = a.password /\ account' # 0
    PROVE  RegistryInv'
  <1>1. ask \in [HarborCalls -> Ask]
    BY DEF RegistryInv, RegistryTypeOK
  <1>2. \A s \in HarborCalls : ask'[s] = IF s = r THEN a ELSE ask[s]
    BY <1>1
  <1>3. Credentials' = Credentials /\ r \in Credentials
    BY <1>2 DEF Credentials
  <1>4. RegistryTypeOK'
    BY <1>1 DEF RegistryInv, RegistryTypeOK
  <1>5. \A s \in HarborCalls : AskInOrder(s)'
    <2> SUFFICES ASSUME NEW s \in HarborCalls PROVE AskInOrder(s)'
      OBVIOUS
    <2>1. AskInOrder(s) /\ AskInOrder(r)
      BY DEF RegistryInv
    <2>2. CASE s = r
      BY <1>2, <1>3, <2>1, <2>2 DEF AskInOrder
    <2>3. CASE s # r
      <3>1. ask'[s] = ask[s]
        BY <1>2, <2>3
      <3>2. ~(ask[s].pc = "member" /\ ask[s].alone)
        BY <1>3, <2>1, <2>3 DEF AskInOrder
      <3> QED
        BY <1>3, <2>1, <3>1, <3>2 DEF AskInOrder
    <2> QED
      BY <2>2, <2>3
  <1>6. CredentialWorks'
    BY <1>3 DEF CredentialWorks
  <1> QED
    BY <1>4, <1>5, <1>6 DEF RegistryInv

\* A credential that starts beside others takes from them that they are alone.
LEMMA BeginKeeps ==
    ASSUME RegistryInv, NEW r \in HarborCalls, At(r, "idle"), NEW then \in {"build", "credential"},
           NEW pc \in {"quota", "ready"}, Begin(r, then, pc), HarborUnchanged, UNCHANGED answered,
           pc = "ready" => project # 0
    PROVE  RegistryInv'
  <1> DEFINE beside == then = "credential" /\ Credentials # {}
             made(b)   == [pc |-> pc, then |-> then, password |-> 0, alone |-> b]
             others(s) == IF beside THEN [ask[s] EXCEPT !.alone = FALSE] ELSE ask[s]
  <1>1. ask \in [HarborCalls -> Ask] /\ AskInOrder(r)
    BY DEF RegistryInv, RegistryTypeOK
  <1>2. ask' = [s \in HarborCalls |-> IF s = r THEN made(~beside) ELSE others(s)]
    BY DEF Begin
  <1>4. PICK a \in Ask : /\ a.pc = pc /\ a.then = then /\ (a.alone <=> ~beside)
                         /\ ask' = [s \in HarborCalls |-> IF s = r THEN a ELSE others(s)]
    <2>1. CASE beside
      <3>1. made(~beside) = made(FALSE) /\ made(FALSE) \in Ask
        BY <2>1 DEF Ask
      <3> QED
        BY <1>2, <2>1, <3>1
    <2>2. CASE ~beside
      <3>1. made(~beside) = made(TRUE) /\ made(TRUE) \in Ask
        BY <2>2 DEF Ask
      <3> QED
        BY <1>2, <2>2, <3>1
    <2> QED
      BY <2>1, <2>2
  <1>5. ask' \in [HarborCalls -> Ask]
    BY <1>1, <1>4, AskShapes
  <1>6. \A s \in HarborCalls \ {r} : /\ ask'[s].pc = ask[s].pc /\ ask'[s].then = ask[s].then
                                     /\ ask'[s].password = ask[s].password
                                     /\ ask'[s].alone => ask[s].alone /\ ~beside
    BY <1>1, <1>4 DEF Ask
  <1>7. /\ ask[r].then = "none"
        /\ ask'[r].then = then /\ ask'[r].pc = pc
        /\ ask'[r].alone => ~beside
    <2>1. ask[r].then = "none"
      BY <1>1 DEF At, AskInOrder
    <2>2. ask'[r] = a
      BY <1>4
    <2> HIDE DEF beside
    <2> QED
      BY <1>4, <2>1, <2>2
  <1>8. Credentials' = Credentials \cup (IF then = "credential" THEN {r} ELSE {}) /\ r \notin Credentials
    <2> HIDE DEF beside
    <2>1. \A s \in HarborCalls : ask'[s].then = IF s = r THEN then ELSE ask[s].then
      BY <1>6, <1>7
    <2> QED
      BY <1>7, <2>1 DEF Credentials
  <1>9. \A s \in HarborCalls : AskInOrder(s)'
    <2> SUFFICES ASSUME NEW s \in HarborCalls PROVE AskInOrder(s)'
      OBVIOUS
    <2>1. AskInOrder(s)
      BY DEF RegistryInv
    <2>2. CASE s = r
      <3>1. ask'[r].then = "credential" /\ ask'[r].alone => Credentials' = {r}
        BY <1>7, <1>8
      <3> HIDE DEF beside
      <3> QED
        BY <1>7, <2>2, <3>1 DEF AskInOrder, HarborUnchanged
    <2>3. CASE s # r
      <3>1. ask[s].then = "credential" /\ ask'[s].alone => then # "credential"
        BY <1>6, <2>3 DEF Credentials
      <3> QED
        BY <1>6, <1>8, <2>1, <2>3, <3>1 DEF AskInOrder, HarborUnchanged
    <2> QED
      BY <2>2, <2>3
  <1>10. CredentialWorks'
    BY <1>8 DEF RegistryInv, CredentialWorks, HarborUnchanged
  <1>11. RegistryTypeOK'
    BY <1>5 DEF RegistryInv, RegistryTypeOK, HarborUnchanged
  <1> QED
    BY <1>9, <1>10, <1>11 DEF RegistryInv

\* Every step keeps the invariant of accounts, projects and requests.
LEMMA RegistryNextKeeps == RegistryInv /\ [RegistryNext]_registryVars => RegistryInv'
  <1> SUFFICES ASSUME RegistryInv, [RegistryNext]_registryVars PROVE RegistryInv'
    OBVIOUS
  <1>0. /\ RegistryTypeOK /\ CredentialWorks
        /\ \A r \in HarborCalls : ask[r] \in Ask /\ AskInOrder(r)
    BY DEF RegistryInv, RegistryTypeOK
  <1>1. ASSUME NEW r \in HarborCalls, NEW then \in {"build", "credential"}, CheckProject(r, then)
        PROVE  RegistryInv'
    <2>1. PICK pc \in {"quota", "ready"} : Begin(r, then, pc) /\ (pc = "ready" => project # 0)
      BY <1>1 DEF CheckProject
    <2> QED
      BY <1>1, <2>1, BeginKeeps DEF CheckProject
  <1>2. ASSUME NEW r \in HarborCalls, RecordQuota(r) PROVE RegistryInv'
    <2>1. CASE Go(r, "project") /\ UNCHANGED answered
      BY <1>0, <1>2, <2>1, GoKeeps DEF RecordQuota, At, RegistryTypeOK, Refused
    <2>2. CASE Refused(r)
      BY <1>0, <1>2, <2>2, EndKeeps DEF RecordQuota, At, RegistryTypeOK, Refused
    <2> QED
      BY <1>2, <2>1, <2>2 DEF RecordQuota
  <1>3. ASSUME NEW r \in HarborCalls, NewProject(r) PROVE RegistryInv'
    <2>1. CASE Go(r, "ready") /\ project = 0 /\ project' = DefaultQuotaSize /\ UNCHANGED answered
      BY <1>0, <1>3, <2>1, GoKeeps, RegistryAssumption DEF NewProject, At, RegistryTypeOK
    <2>2. CASE Refused(r) /\ UNCHANGED project
      BY <1>0, <1>3, <2>2, EndKeeps DEF NewProject, At, RegistryTypeOK, Refused
    <2> QED
      BY <1>3, <2>1, <2>2 DEF NewProject
  <1>4. ASSUME NEW r \in HarborCalls, BuildGoesOn(r) PROVE RegistryInv'
    BY <1>0, <1>4, EndKeeps DEF BuildGoesOn, HarborUnchanged, At, RegistryTypeOK
  <1>5. ASSUME NEW r \in HarborCalls, CheckUserExist(r) PROVE RegistryInv'
    <2>1. PICK pc \in {"delete", "create"} : Go(r, pc)
      BY <1>5 DEF CheckUserExist
    <2>2. project # 0
      BY <1>0, <1>5 DEF CheckUserExist, At, AskInOrder
    <2> QED
      BY <1>0, <1>5, <2>1, <2>2, GoKeeps DEF CheckUserExist, HarborUnchanged, At, RegistryTypeOK
  <1>6. ASSUME NEW r \in HarborCalls, HarborDeletesUser(r) PROVE RegistryInv'
    <2>1. ask[r].then = "credential"
      BY <1>0, <1>6 DEF HarborDeletesUser, At, AskInOrder
    <2>2. CASE Go(r, "create") /\ account' = 0 /\ member' = FALSE /\ UNCHANGED answered
      <3>1. ask' = [ask EXCEPT ![r] = [ask[r] EXCEPT !.pc = "create"]]
        BY <2>2 DEF Go
      <3>2. PICK a \in Ask : a = [ask[r] EXCEPT !.pc = "create"]
        BY <1>0, AskShapes
      <3>3. a.then = ask[r].then /\ a.alone = ask[r].alone /\ a.pc = "create"
        BY <1>0, <3>2, AskShapes
      <3> QED
        BY <1>0, <1>6, <2>1, <2>2, <3>1, <3>2, <3>3, AccountKeeps DEF HarborDeletesUser, At, RegistryTypeOK
    <2>3. CASE Refused(r) /\ UNCHANGED <<account, member>>
      BY <1>0, <1>6, <2>1, <2>3, EndKeeps DEF HarborDeletesUser, At, RegistryTypeOK, Refused
    <2> QED
      BY <1>6, <2>2, <2>3 DEF HarborDeletesUser
  <1>7. ASSUME NEW r \in HarborCalls, CreateUser(r) PROVE RegistryInv'
    <2>1. ask[r].then = "credential" /\ ask[r].pc = "create"
      BY <1>0, <1>7 DEF CreateUser, At, AskInOrder
    <2>2. CASE account' = nextPassword /\ UNCHANGED answered
               /\ ask' = [ask EXCEPT ![r].pc = "member", ![r].password = nextPassword]
      <3> DEFINE new == [ask[r] EXCEPT !.pc = "member", !.password = nextPassword]
      <3>1. ask' = [ask EXCEPT ![r] = new]
        BY <2>2, Zenon
      <3>2. /\ new \in Ask /\ new.then = ask[r].then /\ new.alone = ask[r].alone
            /\ new.pc = "member" /\ new.password = nextPassword
        <4>1. \A a \in Ask, n \in Nat :
                  LET b == [a EXCEPT !.pc = "member", !.password = n]
                  IN  b \in Ask /\ b.then = a.then /\ b.alone = a.alone /\ b.pc = "member" /\ b.password = n
          BY DEF Ask
        <4> QED
          BY <1>0, <4>1 DEF RegistryTypeOK
      <3> HIDE DEF new
      <3>3. nextPassword' \in Nat \ {0} /\ UNCHANGED <<project, member>> /\ nextPassword \in Nat \ {0}
        BY <1>0, <1>7 DEF CreateUser, RegistryTypeOK
      <3>4. account' \in Nat /\ member' \in BOOLEAN /\ account' = new.password /\ account' # 0
        BY <1>0, <2>2, <3>2, <3>3 DEF RegistryTypeOK
      <3>5. new.then = "credential" /\ UNCHANGED <<project, answered>>
        BY <2>1, <2>2, <3>2, <3>3
      <3> QED
        BY <2>1, <3>1, <3>2, <3>3, <3>4, <3>5, AccountKeeps
    <2>3. CASE Refused(r) /\ UNCHANGED account
      <3>1. nextPassword' \in Nat \ {0}
        BY <1>0, <1>7 DEF CreateUser, RegistryTypeOK
      <3> QED
        BY <1>0, <1>7, <2>1, <2>3, <3>1, EndKeeps DEF CreateUser, RegistryTypeOK, Refused
    <2> QED
      BY <1>7, <2>2, <2>3 DEF CreateUser
  <1>8. ASSUME NEW r \in HarborCalls, AddProjectMember(r) PROVE RegistryInv'
    <2>1. ask[r].then = "credential" /\ ask[r].pc = "member"
      BY <1>0, <1>8 DEF AddProjectMember, At, AskInOrder
    <2>2. CASE Answer(r) /\ member' = TRUE
      <3>1. Refuse(r) /\ answered' = IF ask[r].alone THEN ask[r].password ELSE 0
        BY <2>2 DEF Answer
      <3>2. answered' \in Nat
        BY <1>0, <3>1 DEF Ask
      <3> QED
        BY <1>0, <1>8, <2>1, <2>2, <3>1, <3>2, EndKeeps DEF AddProjectMember, RegistryTypeOK
    <2>3. CASE Refused(r) /\ UNCHANGED member
      BY <1>0, <1>8, <2>1, <2>3, EndKeeps DEF AddProjectMember, RegistryTypeOK, Refused
    <2> QED
      BY <1>8, <2>2, <2>3 DEF AddProjectMember
  <1>9. ASSUME NEW size \in Sizes, UpdateQuotaForProject(size) PROVE RegistryInv'
    BY <1>0, <1>9, RegistryAssumption
    DEF RegistryInv, RegistryTypeOK, AskInOrder, CredentialWorks, Credentials, UpdateQuotaForProject
  <1>10. CASE GetProjectDetail \/ UNCHANGED registryVars
    BY <1>0, <1>10 DEF RegistryInv, RegistryTypeOK, AskInOrder, CredentialWorks, Credentials,
      GetProjectDetail, HarborUnchanged, registryVars
  <1> QED
    BY <1>1, <1>2, <1>3, <1>4, <1>5, <1>6, <1>7, <1>8, <1>9, <1>10 DEF RegistryNext

\* The invariant of the registry: a request that is alone has made the account
\* that is there (internal/handler/image/harbor.go).
THEOREM RegistryInvariance == RegistrySpec => []RegistryInv
  <1>1. RegistryInit => RegistryInv
    <2> SUFFICES ASSUME RegistryInit PROVE RegistryInv
      OBVIOUS
    <2>1. NoAsk \in Ask
      BY AskShapes
    <2>2. RegistryTypeOK
      <3>1. /\ project = 0 /\ account = 0 /\ member = FALSE /\ nextPassword = 1 /\ answered = 0
            /\ ask = [r \in HarborCalls |-> NoAsk]
        BY DEF RegistryInit
      <3> QED
        <4>1. ask \in [HarborCalls -> Ask]
          BY <2>1, <3>1
        <4>2. project \in Nat /\ account \in Nat
          BY <3>1
        <4>3. member \in BOOLEAN
          BY <3>1
        <4>4. nextPassword \in Nat \ {0} /\ answered \in Nat
          BY <3>1
        <4> QED
          BY <4>1, <4>2, <4>3, <4>4 DEF RegistryTypeOK
    <2>3. \A r \in HarborCalls : AskInOrder(r)
      BY DEF RegistryInit, AskInOrder, NoAsk
    <2> QED
      BY <2>2, <2>3 DEF RegistryInv, RegistryInit, CredentialWorks
  <1> QED
    BY <1>1, RegistryNextKeeps, PTL DEF RegistrySpec

\* The credential that was answered works (UserGetProjectCredential,
\* internal/handler/image/harbor.go), for any number of requests.
THEOREM CredentialsWork == RegistrySpec => []CredentialWorks
  <1>1. RegistryInv => CredentialWorks
    BY DEF RegistryInv
  <1> QED
    BY <1>1, RegistryInvariance, PTL

-----------------------------------------------------------------------------
(* The migration of the database. *)

\* The list of migrations is put together from lists that are written out.
IsList(s) == Len(s) \in Nat /\ DOMAIN s = 1 .. Len(s)
ListOfLists(s) == \E S : s \in Seq(S) /\ \A x \in S : IsList(x)

\* Short lists are lists.
LEMMA ShortLists ==
    \A w, x, y, z : IsList(<<w>>) /\ IsList(<<w, x>>) /\ IsList(<<w, x, y>>) /\ IsList(<<w, x, y, z>>)
  BY DEF IsList

\* A sequence of lists is a list of lists.
LEMMA ListsOfSet == \A S : \A s \in Seq(S) : (\A x \in S : IsList(x)) => ListOfLists(s)
  BY DEF ListOfLists

\* A list that is written out.
LEMMA Written ==
    ASSUME NEW a, NEW b, NEW c, IsList(a), IsList(b), IsList(c)
    PROVE  /\ ListOfLists(<<a, b, c>>) /\ Len(<<a, b, c>>) = 3
           /\ \A d, e, f : IsList(d) /\ IsList(e) /\ IsList(f) =>
                 ListOfLists(<<a, b, c, d, e, f>>) /\ Len(<<a, b, c, d, e, f>>) = 6
           /\ \A d, e, f, g : IsList(d) /\ IsList(e) /\ IsList(f) /\ IsList(g) =>
                 ListOfLists(<<a, b, c, d, e, f, g>>) /\ Len(<<a, b, c, d, e, f, g>>) = 7
           /\ \A d, e, f, g, h : IsList(d) /\ IsList(e) /\ IsList(f) /\ IsList(g) /\ IsList(h) =>
                 ListOfLists(<<a, b, c, d, e, f, g, h>>) /\ Len(<<a, b, c, d, e, f, g, h>>) = 8
  <1>1. ListOfLists(<<a, b, c>>) /\ Len(<<a, b, c>>) = 3
    <2>1. PICK S : S = {a, b, c}
      OBVIOUS
    <2>2. <<a, b, c>> \in Seq(S) /\ Len(<<a, b, c>>) = 3 /\ \A x \in S : IsList(x)
      BY <2>1
    <2> QED
      BY <2>2, ListsOfSet, Zenon
  <1>2. ASSUME NEW d, NEW e, NEW f, IsList(d), IsList(e), IsList(f)
        PROVE  ListOfLists(<<a, b, c, d, e, f>>) /\ Len(<<a, b, c, d, e, f>>) = 6
    <2>1. PICK S : S = {a, b, c, d, e, f}
      OBVIOUS
    <2>2. <<a, b, c, d, e, f>> \in Seq(S) /\ Len(<<a, b, c, d, e, f>>) = 6 /\ \A x \in S : IsList(x)
      BY <1>2, <2>1
    <2> QED
      BY <2>2, ListsOfSet, Zenon
  <1>3. ASSUME NEW d, NEW e, NEW f, NEW g, IsList(d), IsList(e), IsList(f), IsList(g)
        PROVE  ListOfLists(<<a, b, c, d, e, f, g>>) /\ Len(<<a, b, c, d, e, f, g>>) = 7
    <2>1. PICK S : S = {a, b, c, d, e, f, g}
      OBVIOUS
    <2>2. <<a, b, c, d, e, f, g>> \in Seq(S) /\ Len(<<a, b, c, d, e, f, g>>) = 7 /\ \A x \in S : IsList(x)
      BY <1>3, <2>1
    <2> QED
      BY <2>2, ListsOfSet, Zenon
  <1>4. ASSUME NEW d, NEW e, NEW f, NEW g, NEW h, IsList(d), IsList(e), IsList(f), IsList(g), IsList(h)
        PROVE  ListOfLists(<<a, b, c, d, e, f, g, h>>) /\ Len(<<a, b, c, d, e, f, g, h>>) = 8
    <2>1. PICK S : S = {a, b, c, d, e, f, g, h}
      OBVIOUS
    <2>2. <<a, b, c, d, e, f, g, h>> \in Seq(S) /\ Len(<<a, b, c, d, e, f, g, h>>) = 8 /\ \A x \in S : IsList(x)
      BY <1>4, <2>1
    <2> QED
      BY <2>2, ListsOfSet, Zenon
  <1> QED
    BY <1>1, <1>2, <1>3, <1>4, Zenon

\* So is the concatenation of two of them.
LEMMA ConcatLists ==
    ASSUME NEW s, NEW t, ListOfLists(s), ListOfLists(t)
    PROVE  ListOfLists(s \o t) /\ Len(s \o t) = Len(s) + Len(t)
  <1>1. PICK S : s \in Seq(S) /\ \A x \in S : IsList(x)
    BY DEF ListOfLists
  <1>2. PICK T : t \in Seq(T) /\ \A x \in T : IsList(x)
    BY DEF ListOfLists
  <1>3. s \in Seq(S \cup T) /\ t \in Seq(S \cup T)
    BY <1>1, <1>2
  <1>4. s \o t \in Seq(S \cup T) /\ Len(s \o t) = Len(s) + Len(t)
    BY <1>3, ConcatProperties
  <1>5. \A x \in S \cup T : IsList(x)
    BY <1>1, <1>2
  <1> QED
    BY <1>4, <1>5 DEF ListOfLists

\* The migrations are a list of lists, numbered from 1.
LEMMA MigrationsType ==
    /\ Len(Migrations) \in Nat \ {0}
    /\ MigrationIds = 1 .. Len(Migrations)
    /\ \A i \in MigrationIds : Len(Migrations[i]) \in Nat
                               /\ Added(i) = {Migrations[i][n] : n \in 1 .. Len(Migrations[i])}
  <1>1. ListOfLists(Until202504) /\ Len(Until202504) = 6
    BY ShortLists, Written, Zenon DEF Until202504
  <1>2. ListOfLists(In202504) /\ Len(In202504) = 7
    BY ShortLists, Written, Zenon DEF In202504
  <1>3. ListOfLists(Until202508) /\ Len(Until202508) = 8
    BY ShortLists, Written, Zenon DEF Until202508
  <1>4. ListOfLists(Later) /\ Len(Later) = 3
    BY ShortLists, Written, Zenon DEF Later
  <1>5. Migrations = ((Until202504 \o In202504) \o Until202508) \o Later
    BY DEF Migrations
  <1>6. ListOfLists(Migrations) /\ Len(Migrations) = 24
    <2> DEFINE a == Until202504 \o In202504
               b == a \o Until202508
    <2>1. ListOfLists(a) /\ Len(a) = 6 + 7
      BY <1>1, <1>2, ConcatLists, Zenon
    <2>2. ListOfLists(b) /\ Len(b) = (6 + 7) + 8
      <3> HIDE DEF a
      <3> QED
        BY <1>3, <2>1, ConcatLists, Zenon
    <2>3. ListOfLists(b \o Later) /\ Len(b \o Later) = ((6 + 7) + 8) + 3
      <3> HIDE DEF b
      <3> QED
        BY <1>4, <2>2, ConcatLists, Zenon
    <2> QED
      BY <1>5, <2>3
  <1>7. PICK S : Migrations \in Seq(S) /\ \A x \in S : IsList(x)
    BY <1>6 DEF ListOfLists
  <1>8. MigrationIds = 1 .. Len(Migrations)
    BY <1>7 DEF MigrationIds
  <1>9. ASSUME NEW i \in MigrationIds
        PROVE  Len(Migrations[i]) \in Nat /\ Added(i) = {Migrations[i][n] : n \in 1 .. Len(Migrations[i])}
    <2>1. IsList(Migrations[i])
      BY <1>7, <1>8, <1>9
    <2> QED
      BY <2>1 DEF Added, ToSet, IsList
  <1> QED
    <2>1. Len(Migrations) \in Nat \ {0}
      BY <1>6
    <2> QED
      BY <1>8, <1>9, <2>1

\* A prefix of the migrations adds one migration to the prefix before it.
LEMMA PrefixSteps ==
    /\ Prefix(0) = {}
    /\ \A k \in Nat : Prefix(k + 1) = Prefix(k) \cup Added(k + 1)
    /\ AutoMigrate = Prefix(Len(Migrations)) \ LeftOut
  <1>1. Prefix(0) = {}
    BY DEF Prefix
  <1>2. ASSUME NEW k \in Nat PROVE Prefix(k + 1) = Prefix(k) \cup Added(k + 1)
    <2>1. 1 .. (k + 1) = (1 .. k) \cup {k + 1}
      OBVIOUS
    <2> QED
      BY <2>1 DEF Prefix
  <1>3. UNION {Added(i) : i \in MigrationIds} = Prefix(Len(Migrations))
    BY MigrationsType, Zenon DEF Prefix
  <1>4. AutoMigrate = Prefix(Len(Migrations)) \ LeftOut
    BY <1>3, Zenon DEF AutoMigrate
  <1> QED
    BY <1>1, <1>2, <1>4

\* The invariant before and after a step.
LEMMA InvOf ==
    /\ MigrationInv <=> MigrationTypeOK /\ \E k \in 0 .. Len(Migrations) : Recorded(k) /\ Doing(k)
    /\ MigrationInv' <=> MigrationTypeOK' /\ \E k \in 0 .. Len(Migrations) : Recorded(k)' /\ Doing(k)'
  BY DEF MigrationInv

\* The number of ids recorded tells whether there are any.
LEMMA RecordedIs ==
    ASSUME NEW k \in 0 .. Len(Migrations), Recorded(k)
    PROVE  /\ Len(Migrations) \in Nat \ {0} /\ k \in Nat /\ SCHEMA_INIT = 0
           /\ \A i \in Nat \ {0} : i \in recorded <=> i <= k
           /\ recorded \subseteq 0 .. k
           /\ recorded = {} <=> k = 0 /\ SCHEMA_INIT \notin recorded
  <1>1. Len(Migrations) \in Nat \ {0} /\ k \in Nat /\ SCHEMA_INIT = 0
    BY MigrationsType DEF SCHEMA_INIT
  <1>2. recorded \ {0} = 1 .. k
    BY <1>1 DEF Recorded
  <1> QED
    BY <1>1, <1>2

\* Every step keeps the invariant of the schema and its records.
LEMMA MigrationNextKeeps == MigrationInv /\ [MigrationNext]_migrationVars => MigrationInv'
  <1> SUFFICES ASSUME MigrationInv, [MigrationNext]_migrationVars PROVE MigrationInv'
    OBVIOUS
  <1>0. PICK k \in 0 .. Len(Migrations) : Recorded(k) /\ Doing(k)
    BY InvOf
  <1>t. MigrationTypeOK
    BY InvOf
  <1>1. ASSUME migrate' = Idle, UNCHANGED <<schema, recorded>> PROVE MigrationInv'
    BY <1>0, <1>1, InvOf DEF MigrationTypeOK, Recorded, Doing, Idle
  <1>r. /\ Len(Migrations) \in Nat \ {0} /\ k \in Nat /\ SCHEMA_INIT = 0
        /\ \A i \in Nat \ {0} : i \in recorded <=> i <= k
        /\ recorded = {} <=> k = 0 /\ SCHEMA_INIT \notin recorded
    BY <1>0, RecordedIs
  <1>2. CASE StartRun
    <2>2. Recorded(k)'
      BY <1>0, <1>2 DEF StartRun, Recorded
    <2>3. Doing(k)' /\ MigrationTypeOK'
      BY <1>2, <1>r DEF StartRun, MigrationTypeOK, Doing
    <2> QED
      BY <2>2, <2>3, InvOf
  <1>3. CASE SetAdmin \/ UNCHANGED migrationVars
    BY <1>0, <1>t, <1>3, InvOf DEF SetAdmin, migrationVars, MigrationTypeOK, Recorded, Doing
  <1>4. CASE InitTables
    <2>1. recorded = {} /\ schema' = AutoMigrate /\ recorded' = {} /\ migrate.id = 0
      BY <1>0, <1>4, <1>r DEF InitTables, Recorded, Doing
    <2>2. migrate' = [pc |-> "seed", id |-> 0, at |-> migrate.at] /\ migrate.at \in Nat
      BY <1>t, <1>4, <2>1 DEF InitTables, MigrationTypeOK
    <2>3. Recorded(k)'
      BY <1>0, <2>1 DEF Recorded
    <2>4. Doing(k)' /\ MigrationTypeOK'
      BY <1>r, <2>1, <2>2 DEF Doing, MigrationTypeOK
    <2> QED
      BY <2>3, <2>4, InvOf
  <1>5. CASE Seed
    <2>1. CASE RunFails
      BY <1>1, <2>1 DEF RunFails
    <2>2. CASE /\ migrate' = [migrate EXCEPT !.at = @ + 1] /\ UNCHANGED <<schema, recorded>>
               /\ migrate.pc = "seed" /\ migrate.at <= Len(Seeds)
      <3>1. Len(Seeds) = 3
        BY DEF Seeds
      <3>2. /\ migrate' = [pc |-> "seed", id |-> migrate.id, at |-> migrate.at + 1]
            /\ migrate.id = SCHEMA_INIT
        BY <1>0, <1>t, <2>2 DEF MigrationTypeOK, Doing
      <3>3. Recorded(k)'
        BY <1>0, <2>2 DEF Recorded
      <3>4. schema = AutoMigrate /\ recorded = 0 .. migrate.id - 1 /\ migrate.id <= Len(Migrations)
        BY <1>0, <2>2 DEF Doing
      <3>5. migrate'.pc = "seed" /\ migrate'.id = migrate.id /\ migrate'.at = migrate.at + 1
        BY <3>2
      <3>6. Doing(k)'
        BY <2>2, <3>2, <3>4, <3>5 DEF Doing
      <3>7. MigrationTypeOK'
        BY <1>t, <3>2, <3>5 DEF MigrationTypeOK
      <3> QED
        BY <3>3, <3>6, <3>7, InvOf
    <2> QED
      BY <1>5, <2>1, <2>2 DEF Seed
  <1>6. CASE InitRecorded
    <2>0. PICK m : m = migrate.id
      OBVIOUS
    <2>1. /\ migrate.pc = "seed" /\ ~(migrate.at <= Len(Seeds)) /\ schema' = schema
          /\ recorded' = recorded \cup {m}
          /\ migrate' = IF m = Len(Migrations) THEN Idle ELSE [migrate EXCEPT !.id = m + 1]
      <3>1. Len(Seeds) = 3
        BY DEF Seeds
      <3> QED
        BY <1>6, <1>t, <2>0, <3>1 DEF InitRecorded, MigrationTypeOK
    <2>2. schema = AutoMigrate /\ recorded = 0 .. m - 1 /\ m \in 0 .. Len(Migrations)
      BY <1>0, <1>t, <1>r, <2>0, <2>1 DEF Doing, MigrationTypeOK
    <2>3. recorded' = 0 .. m /\ recorded' \ {0} = 1 .. m /\ 0 \in recorded'
      BY <1>r, <2>1, <2>2
    <2>4. Recorded(m)'
      BY <1>r, <2>1, <2>2, <2>3 DEF Recorded
    <2>5. CASE migrate' = Idle
      <3>1. Doing(m)' /\ MigrationTypeOK'
        BY <2>5 DEF Doing, MigrationTypeOK, Idle
      <3> QED
        BY <2>2, <2>4, <3>1, InvOf
    <2>6. CASE m # Len(Migrations) /\ migrate' = [pc |-> "seed", id |-> m + 1, at |-> migrate.at]
      <3>1. ~(migrate'.at <= Len(Seeds)) /\ migrate'.pc = "seed" /\ migrate'.id = m + 1
        BY <2>1, <2>6
      <3>2. recorded' = 0 .. migrate'.id - 1 /\ migrate'.id <= Len(Migrations) /\ schema' = AutoMigrate
        BY <1>r, <2>1, <2>2, <2>3, <2>6, <3>1
      <3>3. Doing(m)'
        BY <3>1, <3>2 DEF Doing
      <3>4. MigrationTypeOK'
        BY <1>t, <1>r, <2>2, <2>6 DEF MigrationTypeOK
      <3> QED
        BY <2>2, <2>4, <3>3, <3>4, InvOf
    <2>7. migrate' = Idle \/ (m # Len(Migrations) /\ migrate' = [pc |-> "seed", id |-> m + 1, at |-> migrate.at])
      BY <1>t, <2>1 DEF MigrationTypeOK
    <2> QED
      BY <2>5, <2>6, <2>7
  <1>7. CASE SkipRecorded
    <2>1. CASE migrate' = Idle
      BY <1>1, <1>7, <2>1 DEF SkipRecorded
    <2>2. CASE migrate' = [migrate EXCEPT !.id = @ + 1] /\ migrate.id # Len(Migrations)
      <3>1. migrate.at = 1 /\ migrate.pc = "steps" /\ UNCHANGED <<schema, recorded>>
        BY <1>7 DEF SkipRecorded
      <3>4. recorded # {} /\ migrate.id \in 1 .. Len(Migrations)
        BY <1>0, <3>1 DEF Doing
      <3>5. migrate.id <= k
        BY <1>7, <1>r, <3>4 DEF SkipRecorded
      <3>2. migrate'.id = migrate.id + 1 /\ migrate'.at = 1 /\ migrate'.pc = "steps" /\ MigrationTypeOK'
        BY <1>t, <2>2, <3>1 DEF MigrationTypeOK
      <3>3. Recorded(k)'
        BY <1>0, <3>1 DEF Recorded
      <3>6. Doing(k)'
        BY <1>r, <2>2, <3>1, <3>2, <3>4, <3>5 DEF Doing
      <3> QED
        BY <3>2, <3>3, <3>6, InvOf
    <2> QED
      BY <1>7, <2>1, <2>2 DEF SkipRecorded
  <1>8. CASE RunStep \/ RecordId
    <2>1. /\ migrate.pc = "steps" /\ migrate.id \notin recorded /\ migrate.id \in 1 .. Len(Migrations)
          /\ migrate.at \in Nat \ {0} /\ migrate.id <= k + 1 /\ recorded # {}
      BY <1>0, <1>t, <1>8 DEF RunStep, RecordId, Doing, MigrationTypeOK
    <2>2. migrate.id = k + 1 /\ k \in 0 .. Len(Migrations) - 1
      BY <1>r, <2>1
    <2>3. CASE RunFails
      BY <1>1, <2>3 DEF RunFails
    <2> DEFINE item == Migrations[k + 1][migrate.at]
    <2>4. CASE schema' = schema \cup {item} /\ migrate' = [migrate EXCEPT !.at = @ + 1] /\ UNCHANGED recorded
               /\ migrate.at <= Len(Migrations[k + 1])
      <3>1. item \in Added(k + 1)
        BY <2>1, <2>2, <2>4, MigrationsType
      <3>2. migrate'.at = migrate.at + 1 /\ migrate'.id = k + 1 /\ migrate'.pc = "steps" /\ MigrationTypeOK'
        BY <1>t, <2>1, <2>2, <2>4 DEF MigrationTypeOK
      <3>3. Recorded(k)'
        BY <1>0, <1>r, <2>1, <2>2, <2>4, <3>1 DEF Recorded
      <3>4. \A n \in 1 .. Len(Migrations[k + 1]) : n < migrate.at + 1 => Migrations[k + 1][n] \in schema'
        BY <1>0, <2>1, <2>2, <2>4 DEF Doing
      <3>5. Doing(k)'
        BY <2>1, <2>2, <2>4, <3>2, <3>4 DEF Doing
      <3> QED
        BY <3>2, <3>3, <3>5, InvOf
    <2>5. CASE recorded' = recorded \cup {k + 1} /\ migrate' = [migrate EXCEPT !.at = 1] /\ UNCHANGED schema
               /\ migrate.at > Len(Migrations[k + 1])
      <3>1. Added(k + 1) \subseteq schema
        BY <1>0, <2>1, <2>2, <2>5, MigrationsType DEF Doing
      <3>2. migrate'.at = 1 /\ migrate'.id = k + 1 /\ migrate'.pc = "steps" /\ MigrationTypeOK'
        BY <1>t, <2>1, <2>2, <2>5 DEF MigrationTypeOK
      <3>3. /\ recorded' \ {SCHEMA_INIT} = 1 .. (k + 1) /\ recorded' # {}
            /\ SCHEMA_INIT \in recorded' <=> SCHEMA_INIT \in recorded
        BY <1>0, <1>r, <2>2, <2>5 DEF Recorded
      <3>4. Prefix(k + 1) = Prefix(k) \cup Added(k + 1) /\ Prefix(0) = {}
        BY <1>r, PrefixSteps
      <3>5. Recorded(k + 1)'
        <4>1. CASE SCHEMA_INIT \in recorded
          BY <1>0, <1>r, <2>2, <2>5, <3>1, <3>3, <3>4, <4>1 DEF Recorded
        <4>2. CASE SCHEMA_INIT \notin recorded
          <5>1. k # 0
            BY <1>r, <2>1, <4>2
          <5>2. Prefix(k + 1) \subseteq schema /\ schema \subseteq Prefix(k + 1)
            BY <1>0, <1>r, <2>2, <3>1, <3>4, <4>2, <5>1 DEF Recorded
          <5> QED
            BY <2>5, <3>3, <4>2, <5>2 DEF Recorded
        <4> QED
          BY <4>1, <4>2
      <3>6. Doing(k + 1)'
        BY <1>r, <2>1, <2>2, <3>2, <3>3 DEF Doing
      <3> QED
        BY <1>r, <2>2, <3>2, <3>5, <3>6, InvOf
    <2> QED
      BY <1>8, <2>2, <2>3, <2>4, <2>5 DEF RunStep, RecordId
  <1>9. CASE MigrationFault
    BY <1>1, <1>9 DEF MigrationFault, RunFails
  <1> QED
    BY <1>2, <1>3, <1>4, <1>5, <1>6, <1>7, <1>8, <1>9 DEF MigrationNext

\* The invariant of the migration: the schema is between two prefixes of the list, the
\* lower one recorded, or has what InitSchema makes (cmd/gorm-gen/models/migrate.go).
THEOREM MigrationInvariance == MigrationSpec => []MigrationInv
  <1>1. MigrationInit => MigrationInv
    <2> SUFFICES ASSUME MigrationInit PROVE MigrationInv
      OBVIOUS
    <2>1. PICK k \in 0 .. Len(Migrations) : recorded = 1 .. k /\ schema = UNION {Added(i) : i \in 1 .. k}
      BY DEF MigrationInit
    <2>2. schema = Prefix(k)
      BY <2>1 DEF Prefix
    <2>3. Recorded(k)
      <3>1. Len(Migrations) \in Nat \ {0} /\ k \in Nat
        BY MigrationsType
      <3>2. recorded \ {SCHEMA_INIT} = 1 .. k /\ SCHEMA_INIT \notin recorded /\ (recorded = {} <=> k = 0)
        BY <2>1, <3>1 DEF SCHEMA_INIT
      <3> QED
        BY <2>2, <3>1, <3>2, PrefixSteps DEF Recorded
    <2>4. Doing(k) /\ MigrationTypeOK
      BY DEF MigrationInit, Idle, Doing, MigrationTypeOK
    <2> QED
      BY <2>3, <2>4, InvOf
  <1> QED
    BY <1>1, MigrationNextKeeps, PTL DEF MigrationSpec

\* The table of migrations tells what the schema has, however often a run of
\* cmd/gorm-gen/models/migrate.go fails, dies and is started again, but for a database
\* that InitSchema has made.
THEOREM RecordsTellSchema == MigrationSpec => []SchemaMatchesRecords
  <1>1. MigrationInv => SchemaMatchesRecords
    <2> SUFFICES ASSUME MigrationInv PROVE SchemaMatchesRecords
      OBVIOUS
    <2>1. PICK k \in 0 .. Len(Migrations) : Recorded(k)
      BY InvOf
    <2>2. /\ Len(Migrations) \in Nat \ {0} /\ k \in Nat
          /\ recorded = {} <=> k = 0 /\ SCHEMA_INIT \notin recorded
      BY <2>1, RecordedIs
    <2>3. PICK ids : ids = recorded \ {SCHEMA_INIT}
      OBVIOUS
    <2>4. ids = 1 .. k
      BY <2>1, <2>3 DEF Recorded
    <2>5. Cardinality(ids) = k /\ UNION {Added(i) : i \in ids} = Prefix(k)
      BY <2>2, <2>4, FS_Interval DEF Prefix
    <2>6. (\A i \in ids : 1 .. i \subseteq ids) /\ (ids = MigrationIds <=> k = Len(Migrations))
      BY <2>2, <2>4, MigrationsType
    <2>7. /\ Prefix(k) \ schema \subseteq IF recorded = {} \/ SCHEMA_INIT \in recorded THEN LeftOut ELSE {}
          /\ schema \ Prefix(k) \subseteq (IF recorded = {} \/ SCHEMA_INIT \in recorded THEN AutoMigrate ELSE {})
                                       \cup (IF k = Len(Migrations) THEN {} ELSE Added(k + 1))
      <3>1. CASE recorded = {}
        BY <2>1, <2>2, <3>1, PrefixSteps DEF Recorded
      <3>2. CASE SCHEMA_INIT \in recorded
        <4>1. Prefix(k) \subseteq Prefix(Len(Migrations))
          BY <2>2 DEF Prefix
        <4>2. Prefix(k) \ schema \subseteq LeftOut
          BY <2>1, <3>2, <4>1, PrefixSteps DEF Recorded
        <4> QED
          BY <2>1, <3>2, <4>2 DEF Recorded
      <3>3. CASE recorded # {} /\ SCHEMA_INIT \notin recorded
        BY <2>1, <2>2, <3>3 DEF Recorded
      <3> QED
        BY <3>1, <3>2, <3>3
    <2> QED
      BY <2>3, <2>5, <2>6, <2>7 DEF SchemaMatchesRecords
  <1> QED
    BY <1>1, MigrationInvariance, PTL

-----------------------------------------------------------------------------
(* The pages of a job. *)

\* What the cluster and the users do, away from the object, its copy and the
\* events, disturbs no request.
LEMMA BesidesKeeps ==
    ASSUME PagesInv, UNCHANGED <<kind, object, objectSeen, tokenAsk, tokens, eventsAsk>>,
           eventsOf \subseteq eventsOf', eventsOf' \subseteq PodIndex \cup {0},
           pod' \in [PodIndex -> [run : Nat, phase : PodPhase, report : {"none", "conditions", "whole"}]]
    PROVE  PagesInv'
  BY DEF PagesInv, PagesTypeOK, CopiesAreOld, WritesTheFirst, TokensAreKept, CollectedSoFar, NoToken

\* The steps that leave the events page alone keep what it collected.
LEMMA EventsAlone ==
    ASSUME CollectedSoFar, UNCHANGED <<kind, eventsOf, eventsAsk>>
    PROVE  CollectedSoFar'
  BY DEF CollectedSoFar

\* The steps of the events page disturb no request for the token.
LEMMA TokensAlone ==
    ASSUME PagesInv, EventsUnchanged
    PROVE  CopiesAreOld' /\ WritesTheFirst' /\ TokensAreKept'
  BY DEF PagesInv, CopiesAreOld, WritesTheFirst, TokensAreKept, NoToken, EventsUnchanged

LEMMA PodsKeep ==
    ASSUME PagesInv, NEW p \in PodIndex, PodStarts(p) \/ PodMoves(p) \/ PodGoes(p)
    PROVE  PagesInv'
  <1>1. pod' \in [PodIndex -> [run : Nat, phase : PodPhase, report : {"none", "conditions", "whole"}]]
    BY DEF PagesInv, PagesTypeOK, PodPhase, NewPod, PodStarts, PodMoves, PodGoes
  <1>2. UNCHANGED <<kind, object, objectSeen, tokenAsk, tokens, eventsAsk, eventsOf>>
    BY DEF PodStarts, PodMoves, PodGoes, AsksUnchanged
  <1> QED
    BY <1>1, <1>2, BesidesKeeps DEF PagesInv, PagesTypeOK

LEMMA RowsAndEventsKeep ==
    ASSUME PagesInv, RecordGoes \/ OwnerGoes \/ \E p \in PodIndex \cup {0} : EventIsRecorded(p)
    PROVE  PagesInv'
  <1>1. UNCHANGED <<kind, object, objectSeen, tokenAsk, tokens, eventsAsk, pod>>
    BY DEF RecordGoes, OwnerGoes, EventIsRecorded, AsksUnchanged
  <1>2. eventsOf \subseteq eventsOf' /\ eventsOf' \subseteq PodIndex \cup {0}
    BY DEF PagesInv, PagesTypeOK, RecordGoes, OwnerGoes, EventIsRecorded
  <1> QED
    BY <1>1, <1>2, BesidesKeeps DEF PagesInv, PagesTypeOK

\* The object moves to a later version with the same token.
LEMMA ObjectKeeps ==
    ASSUME PagesInv, ObjectMoves \/ DeleteSparse \/ TaskIsAdmitted
    PROVE  PagesInv'
  <1>1. UNCHANGED <<kind, objectSeen, pod, eventsOf, tokenAsk, tokens, eventsAsk>>
    BY DEF ObjectMoves, DeleteSparse, TaskIsAdmitted, AsksUnchanged
  <1>2. /\ object' \in [there : BOOLEAN, running : BOOLEAN, version : Nat, token : Nat]
        /\ object'.token = object.token /\ object'.version >= object.version
    <2> DEFINE Object == [there : BOOLEAN, running : BOOLEAN, version : Nat, token : Nat]
    <2>1. object \in Object
      BY DEF PagesInv, PagesTypeOK
    <2>2. CASE object' = [object EXCEPT !.running = TRUE, !.version = object.version + 1]
      <3>1. object.version + 1 \in Nat
        BY <2>1
      <3>2. [object EXCEPT !.running = TRUE, !.version = object.version + 1] \in Object
        BY <2>1, <3>1
      <3> QED
        BY <2>1, <2>2, <3>1, <3>2
    <2>3. CASE object' = [object EXCEPT !.there = FALSE]
      <3>1. object.version \in Nat
        BY <2>1
      <3>2. [object EXCEPT !.there = FALSE] \in Object
        BY <2>1
      <3>3. object'.token = object.token /\ object'.version = object.version
        BY <2>1, <2>3
      <3> QED
        BY <2>3, <3>1, <3>2, <3>3
    <2>4. CASE object' = [object EXCEPT !.there = TRUE]
      <3>1. [object EXCEPT !.there = TRUE] \in Object /\ object.version \in Nat
        BY <2>1
      <3>2. object'.token = object.token /\ object'.version = object.version
        BY <2>1, <2>4
      <3> QED
        BY <2>4, <3>1, <3>2
    <2>5. CASE object' = object
      BY <2>1, <2>5
    <2> QED
      BY <2>2, <2>3, <2>4, <2>5 DEF ObjectMoves, DeleteSparse, TaskIsAdmitted
  <1>3. PagesTypeOK'
    BY <1>1, <1>2 DEF PagesInv, PagesTypeOK
  <1>4. object.version \in Nat /\ object'.version \in Nat /\ objectSeen.version \in Nat
        /\ \A r \in TokenCalls : tokenAsk[r].copy \in Nat
    BY <1>2 DEF PagesInv, PagesTypeOK
  <1>5. CopiesAreOld'
    BY <1>1, <1>2, <1>4 DEF PagesInv, CopiesAreOld
  <1>6. WritesTheFirst'
    BY <1>1, <1>2, <1>4 DEF PagesInv, WritesTheFirst
  <1>7. TokensAreKept'
    BY <1>1, <1>2 DEF PagesInv, TokensAreKept, NoToken
  <1> QED
    BY <1>1, <1>3, <1>5, <1>6, <1>7, EventsAlone DEF PagesInv

\* The cache sees the object as it is.
LEMMA CacheSeesObject ==
    ASSUME PagesInv, CacheCatchesUp
    PROVE  PagesInv'
  <1>1. UNCHANGED <<kind, object, pod, eventsOf, tokenAsk, tokens, eventsAsk>> /\ objectSeen' = object
    BY DEF CacheCatchesUp, AsksUnchanged
  <1>2. object.version \in Nat
    BY DEF PagesInv, PagesTypeOK
  <1>3. PagesTypeOK' /\ CopiesAreOld' /\ WritesTheFirst' /\ TokensAreKept'
    BY <1>1, <1>2 DEF PagesInv, PagesTypeOK, CopiesAreOld, WritesTheFirst, TokensAreKept, NoToken
  <1> QED
    BY <1>1, <1>3, EventsAlone DEF PagesInv

\* The first look of a request for the token.
LEMMA FirstLook ==
    ASSUME PagesInv, NEW r \in TokenCalls, FromObject(r)
    PROVE  PagesInv'
  <1> DEFINE new == IF objectSeen.token # NoToken THEN IdleToken
                    ELSE [at |-> "log", copy |-> objectSeen.version, found |-> NoToken]
  <1>1. UNCHANGED <<kind, object, objectSeen, pod, eventsOf, eventsAsk>> /\ tokenAsk' = [tokenAsk EXCEPT ![r] = new]
    BY DEF FromObject, AnswerToken, SetToken, TokenUnchanged
  <1>2. new \in [at : {"idle", "log", "cache"}, copy : Nat, found : Nat]
    BY DEF PagesInv, PagesTypeOK, IdleToken, NoToken
  <1>3. \A q \in TokenCalls : tokenAsk'[q] = (IF q = r THEN new ELSE tokenAsk[q])
    BY <1>1 DEF PagesInv, PagesTypeOK
  <1>4. PagesTypeOK'
    BY <1>1, <1>2 DEF PagesInv, PagesTypeOK
  <1>5. CopiesAreOld'
    BY <1>1 DEF PagesInv, CopiesAreOld
  <1>6. WritesTheFirst'
    <2> SUFFICES ASSUME NEW q \in TokenCalls, tokenAsk'[q].at \in {"log", "cache"}
                 PROVE  /\ tokenAsk'[q].copy <= object.version
                        /\ tokenAsk'[q].copy = object.version => object.token = NoToken
                        /\ tokenAsk'[q].at = "cache" => tokenAsk'[q].found # NoToken
      BY <1>1 DEF WritesTheFirst, NoToken
    <2>1. CASE q = r
      BY <2>1, <1>3 DEF PagesInv, CopiesAreOld, IdleToken, NoToken
    <2>2. CASE q # r
      BY <2>2, <1>3 DEF PagesInv, WritesTheFirst
    <2> QED
      BY <2>1, <2>2
  <1>7. TokensAreKept'
    BY DEF PagesInv, TokensAreKept, FromObject, AnswerToken, SetToken, TokenUnchanged, NoToken
  <1> QED
    BY <1>1, <1>4, <1>5, <1>6, <1>7, EventsAlone DEF PagesInv

LEMMA LogKeeps ==
    ASSUME PagesInv, NEW r \in TokenCalls, getPodLog(r)
    PROVE  PagesInv'
  <1>1. UNCHANGED <<kind, object, objectSeen, pod, eventsOf, eventsAsk, tokens>>
    BY DEF getPodLog, TokenUnchanged
  <1>2. PICK new \in [at : {"idle", "log", "cache"}, copy : Nat, found : Nat] :
           /\ tokenAsk' = [tokenAsk EXCEPT ![r] = new]
           /\ new.at = "idle" \/ (new.at = "cache" /\ new.copy = tokenAsk[r].copy /\ new.found # NoToken)
    <2>1. CASE tokenAsk' = [tokenAsk EXCEPT ![r] = IdleToken]
      <3>1. IdleToken \in [at : {"idle", "log", "cache"}, copy : Nat, found : Nat] /\ IdleToken.at = "idle"
        BY DEF IdleToken, NoToken
      <3> QED
        BY <2>1, <3>1, Zenon
    <2>2. CASE /\ pod[1].run > 0
               /\ tokenAsk' = [tokenAsk EXCEPT ![r] = [tokenAsk[r] EXCEPT !.at = "cache", !.found = pod[1].run]]
      <3> DEFINE new == [tokenAsk[r] EXCEPT !.at = "cache", !.found = pod[1].run]
      <3>1. tokenAsk[r] \in [at : {"idle", "log", "cache"}, copy : Nat, found : Nat] /\ pod[1].run \in Nat
        BY PagesAssumption DEF PagesInv, PagesTypeOK
      <3>2. new \in [at : {"idle", "log", "cache"}, copy : Nat, found : Nat]
            /\ new.at = "cache" /\ new.copy = tokenAsk[r].copy /\ new.found # NoToken
        <4>1. pod[1].run # NoToken
          BY <3>1, <2>2 DEF NoToken
        <4> QED
          BY <3>1, <4>1
      <3> HIDE DEF new
      <3>3. tokenAsk' = [tokenAsk EXCEPT ![r] = new]
        BY <2>2 DEF new
      <3> QED
        BY <3>2, <3>3, Zenon
    <2> QED
      BY <2>1, <2>2 DEF getPodLog, SetToken
  <1>3. \A q \in TokenCalls : tokenAsk'[q] = (IF q = r THEN new ELSE tokenAsk[q])
    BY <1>2 DEF PagesInv, PagesTypeOK
  <1>4. PagesTypeOK'
    BY <1>1, <1>2 DEF PagesInv, PagesTypeOK
  <1>5. CopiesAreOld' /\ TokensAreKept'
    BY <1>1 DEF PagesInv, CopiesAreOld, TokensAreKept, NoToken
  <1>6. tokenAsk[r].at = "log"
    BY DEF getPodLog
  <1>7. WritesTheFirst'
    BY <1>1, <1>2, <1>3, <1>6 DEF PagesInv, WritesTheFirst, NoToken
  <1> QED
    BY <1>1, <1>4, <1>5, <1>7, EventsAlone DEF PagesInv

\* An update that is not refused is the first that puts a token.
LEMMA AnnotateKeeps ==
    ASSUME PagesInv, NEW r \in TokenCalls, tokenAsk[r].at = "cache", Annotate(r), TokenUnchanged
    PROVE  PagesInv'
  <1> USE DEF PagesInv, Annotate, Updates, AnswerToken, SetToken, TokenUnchanged, IdleToken, NoToken
  <1>1. PagesTypeOK'
    <2>1. object \in [there : BOOLEAN, running : BOOLEAN, version : Nat, token : Nat]
          /\ tokenAsk[r].found \in Nat /\ object.version + 1 \in Nat
      BY DEF PagesTypeOK
    <2>2. [object EXCEPT !.version = object.version + 1, !.token = tokenAsk[r].found]
            \in [there : BOOLEAN, running : BOOLEAN, version : Nat, token : Nat]
      BY <2>1
    <2>3. object' = [object EXCEPT !.version = object.version + 1, !.token = tokenAsk[r].found]
      OBVIOUS
    <2>4. tokenAsk' \in [TokenCalls -> [at : {"idle", "log", "cache"}, copy : Nat, found : Nat]]
      BY DEF PagesTypeOK
    <2> QED
      BY <2>2, <2>3, <2>4 DEF PagesTypeOK
  <1>2. object.token = NoToken /\ tokenAsk[r].found # NoToken
    BY DEF WritesTheFirst, PagesTypeOK
  <1>3. CopiesAreOld'
    BY DEF CopiesAreOld, PagesTypeOK
  <1>4. WritesTheFirst'
    BY DEF PagesTypeOK, WritesTheFirst
  <1>5. TokensAreKept'
    BY <1>2 DEF PagesTypeOK, TokensAreKept
  <1>6. CollectedSoFar'
    BY EventsAlone
  <1> QED
    BY <1>1, <1>3, <1>4, <1>5, <1>6

LEMMA CacheKeeps ==
    ASSUME PagesInv, NEW r \in TokenCalls, CacheJobToken(r) \/ CacheJupyterToken(r)
    PROVE  PagesInv'
  <1>1. CASE Annotate(r)
    BY <1>1, AnnotateKeeps DEF CacheJobToken, CacheJupyterToken
  <1>2. CASE ~Annotate(r)
    <2> USE DEF PagesInv, CacheJobToken, CacheJupyterToken, AnswerToken, SetToken, TokenUnchanged, IdleToken, NoToken
    <2>1. UNCHANGED <<kind, object, objectSeen, pod, eventsOf, eventsAsk>>
          /\ tokenAsk' = [tokenAsk EXCEPT ![r] = IdleToken]
      BY <1>2
    <2>2. PagesTypeOK'
      <3>1. IdleToken \in [at : {"idle", "log", "cache"}, copy : Nat, found : Nat]
        OBVIOUS
      <3>2. tokenAsk' \in [TokenCalls -> [at : {"idle", "log", "cache"}, copy : Nat, found : Nat]]
        BY <2>1, <3>1 DEF PagesTypeOK
      <3> QED
        BY <2>1, <3>2 DEF PagesTypeOK
    <2>3. CopiesAreOld' /\ WritesTheFirst'
      <3>1. \A q \in TokenCalls : tokenAsk'[q] = IF q = r THEN IdleToken ELSE tokenAsk[q]
        BY <2>1 DEF PagesTypeOK
      <3> QED
        BY <2>1, <3>1 DEF CopiesAreOld, WritesTheFirst
    <2>4. TokensAreKept'
      BY <1>2 DEF PagesTypeOK, TokensAreKept
    <2>5. CollectedSoFar'
      BY <1>2, EventsAlone
    <2> QED
      BY <2>2, <2>3, <2>4, <2>5
  <1> QED
    BY <1>1, <1>2

\* The events page starts, lists the pods, ends or fails.
LEMMA AskKeeps ==
    ASSUME PagesInv, JobEvents \/ TaskEvents \/ QueueingEvent \/ SparseEvents
    PROVE  PagesInv'
  <1>1. EventsUnchanged
    BY DEF JobEvents, TaskEvents, QueueingEvent, SparseEvents, AskEvents
  <1>2. \/ eventsAsk' = [IdleEvents EXCEPT !.at = "list", !.got = eventsOf \cap {0}, !.before = eventsOf]
        \/ eventsAsk' = [IdleEvents EXCEPT !.at = "queueing"]
    BY DEF JobEvents, TaskEvents, QueueingEvent, SparseEvents, AskEvents, SetEvents
  <1>3. PagesTypeOK'
    <2>1. CASE eventsAsk' = [IdleEvents EXCEPT !.at = "list", !.got = eventsOf \cap {0}, !.before = eventsOf]
      BY <1>1, <2>1 DEF PagesInv, PagesTypeOK, IdleEvents, EventsUnchanged
    <2>2. CASE eventsAsk' = [IdleEvents EXCEPT !.at = "queueing"]
      BY <1>1, <2>2 DEF PagesInv, PagesTypeOK, IdleEvents, EventsUnchanged
    <2> QED
      BY <1>2, <2>1, <2>2
  <1>4. CollectedSoFar'
    BY <1>1, <1>2 DEF PagesInv, CollectedSoFar, IdleEvents, EventsUnchanged
  <1> QED
    BY <1>1, <1>3, <1>4, TokensAlone DEF PagesInv

LEMMA ListKeeps ==
    ASSUME PagesInv, ListEventPods \/ EventsDone \/ EventsFail
    PROVE  PagesInv'
  <1>1. EventsUnchanged
    BY DEF ListEventPods, EventsDone, EventsFail
  <1>2. CASE ListEventPods
    <2> DEFINE listed == CASE kind = "aijob" -> {1}
                           [] kind = "spjob" -> GetPodsByName
                           [] kind = "vcjob" -> PodsThere
    <2>1. listed \subseteq PodIndex /\ (kind = "aijob" => listed = {1})
      BY PagesAssumption DEF PodsThere, GetPodsByName, NamedPods, PagesInv, PagesTypeOK
    <2>2. /\ eventsAsk' = [eventsAsk EXCEPT !.at = "pods", !.listed = listed, !.todo = listed]
          /\ eventsAsk.at = "list"
      BY <1>2 DEF ListEventPods, SetEvents
    <2> HIDE DEF listed
    <2>3. PagesTypeOK'
      BY <1>1, <2>1, <2>2 DEF PagesInv, PagesTypeOK, EventsUnchanged
    <2>4. CollectedSoFar'
      BY <1>1, <2>1, <2>2 DEF PagesInv, PagesTypeOK, CollectedSoFar, EventsUnchanged
    <2> QED
      BY <1>1, <2>3, <2>4, TokensAlone DEF PagesInv
  <1>3. CASE EventsDone \/ EventsFail
    <2>1. PagesTypeOK'
      <3> DEFINE Query == [at : {"idle", "list", "pods", "done", "queueing"}, got : SUBSET (PodIndex \cup {0}),
                         listed : SUBSET PodIndex, todo : SUBSET PodIndex, flag : BOOLEAN,
                         before : SUBSET (PodIndex \cup {0})]
      <3>1. IdleEvents \in Query
        BY DEF IdleEvents
      <3>2. eventsAsk \in Query
        BY DEF PagesInv, PagesTypeOK
      <3>3. [eventsAsk EXCEPT !.at = "done"] \in Query
        BY <3>2
      <3>4. eventsAsk' \in Query
        BY <1>3, <3>1, <3>3 DEF SetEvents, EventsDone, EventsFail
      <3> QED
        BY <1>1, <3>4 DEF PagesInv, PagesTypeOK, EventsUnchanged
    <2>2. CollectedSoFar'
      BY <1>1, <1>3 DEF PagesInv, PagesTypeOK, CollectedSoFar, IdleEvents, EventsUnchanged, SetEvents,
             EventsDone, EventsFail
    <2> QED
      BY <1>1, <2>1, <2>2, TokensAlone DEF PagesInv
  <1> QED
    BY <1>2, <1>3

\* What is there after one pod more, part by part.
LEMMA Collected ==
    ASSUME PagesTypeOK, NEW p \in PodIndex, NEW reset \in BOOLEAN
    PROVE  LET new == Collect(p, reset)
           IN  /\ new \in [at : {"idle", "list", "pods", "done", "queueing"}, got : SUBSET (PodIndex \cup {0}),
                           listed : SUBSET PodIndex, todo : SUBSET PodIndex, flag : BOOLEAN,
                           before : SUBSET (PodIndex \cup {0})]
               /\ new.at = eventsAsk.at /\ new.listed = eventsAsk.listed /\ new.before = eventsAsk.before
               /\ new.todo = eventsAsk.todo \ {p}
               /\ new.flag = (eventsAsk.flag \/ p \in eventsOf)
               /\ new.got = IF p \notin eventsOf THEN eventsAsk.got
                            ELSE IF reset THEN {p} ELSE eventsAsk.got \cup {p}
  <1> DEFINE Query == [at : {"idle", "list", "pods", "done", "queueing"}, got : SUBSET (PodIndex \cup {0}),
                     listed : SUBSET PodIndex, todo : SUBSET PodIndex, flag : BOOLEAN,
                     before : SUBSET (PodIndex \cup {0})]
             query == eventsAsk
  <1>1. query \in Query
    BY DEF PagesTypeOK
  <1> HIDE DEF query
  <1>2. CASE p \in eventsOf
    <2> DEFINE got == (IF reset THEN {} ELSE query.got) \cup {p}
               todo == query.todo \ {p}
    <2>1. got \in SUBSET (PodIndex \cup {0}) /\ todo \in SUBSET PodIndex
          /\ got = (IF reset THEN {p} ELSE query.got \cup {p})
      BY <1>1
    <2>2. Collect(p, reset) = [query EXCEPT !.todo = todo, !.flag = TRUE, !.got = got]
      BY <1>2 DEF Collect, query
    <2> HIDE DEF got
    <2>3. [query EXCEPT !.todo = todo, !.flag = TRUE, !.got = got] \in Query
      BY <1>1, <2>1
    <2> QED
      BY <1>1, <1>2, <2>1, <2>2, <2>3 DEF query
  <1>3. CASE p \notin eventsOf
    <2>1. Collect(p, reset) = [query EXCEPT !.todo = query.todo \ {p}]
      BY <1>3 DEF Collect, query
    <2>2. [query EXCEPT !.todo = query.todo \ {p}] \in Query
      BY <1>1
    <2> QED
      BY <1>1, <1>3, <2>1, <2>2 DEF query
  <1> QED
    BY <1>2, <1>3

\* The events of one pod more.
LEMMA PodEventsKeep ==
    ASSUME PagesInv, NEW p \in PodIndex, JobPodEvents(p) \/ TaskPodEvents(p) \/ SparsePodEvents(p)
    PROVE  PagesInv'
  <1>1. EventsUnchanged /\ eventsAsk.at = "pods" /\ p \in eventsAsk.todo
    BY DEF JobPodEvents, TaskPodEvents, SparsePodEvents, NextPod
  <1>2. CASE \E reset \in BOOLEAN : /\ eventsAsk' = Collect(p, reset)
                                    /\ kind \in {"vcjob", "aijob"} => (eventsAsk.flag \/ reset)
                                    /\ kind = "vcjob" => reset = ~eventsAsk.flag
    <2>1. PICK reset \in BOOLEAN : /\ eventsAsk' = Collect(p, reset)
                                   /\ kind \in {"vcjob", "aijob"} => (eventsAsk.flag \/ reset)
                                   /\ kind = "vcjob" => reset = ~eventsAsk.flag
      BY <1>2
    <2>2. /\ eventsAsk' \in [at : {"idle", "list", "pods", "done", "queueing"}, got : SUBSET (PodIndex \cup {0}),
                             listed : SUBSET PodIndex, todo : SUBSET PodIndex, flag : BOOLEAN,
                             before : SUBSET (PodIndex \cup {0})]
          /\ eventsAsk'.at = eventsAsk.at /\ eventsAsk'.listed = eventsAsk.listed
          /\ eventsAsk'.before = eventsAsk.before /\ eventsAsk'.todo = eventsAsk.todo \ {p}
          /\ eventsAsk'.flag = (eventsAsk.flag \/ p \in eventsOf)
          /\ eventsAsk'.got = IF p \notin eventsOf THEN eventsAsk.got
                              ELSE IF reset THEN {p} ELSE eventsAsk.got \cup {p}
      BY <2>1, Collected DEF PagesInv
    <2>3. PagesTypeOK'
      BY <1>1, <2>2 DEF PagesInv, PagesTypeOK, EventsUnchanged
    <2>4. CollectedSoFar'
      <3> DEFINE through == eventsAsk.listed \ eventsAsk.todo
                 passed == eventsAsk.listed \ (eventsAsk.todo \ {p})
      <3>1. kind' = kind /\ eventsOf' = eventsOf /\ eventsAsk'.at = "pods"
        BY <1>1, <2>2 DEF EventsUnchanged
      <3>2. /\ p # 0 /\ passed \subseteq through \cup {p} /\ eventsAsk.flag \in BOOLEAN
            /\ eventsAsk.got \subseteq PodIndex \cup {0}
        BY PagesAssumption DEF PagesInv, PagesTypeOK
      <3>3. eventsAsk.before \subseteq eventsOf
        BY DEF PagesInv, CollectedSoFar
      <3>4. ASSUME kind # "spjob"
            PROVE  IF eventsAsk.flag THEN /\ eventsAsk.got \subseteq PodIndex /\ eventsAsk.got # {}
                                          /\ eventsAsk.before \cap through \subseteq eventsAsk.got
                   ELSE /\ eventsAsk.got = eventsAsk.before \cap {0}
                        /\ eventsAsk.before \cap through = {}
        BY <1>1, <3>4 DEF PagesInv, CollectedSoFar
      <3>5. ASSUME kind = "aijob"
            PROVE  eventsAsk.listed \subseteq {1} /\ ~eventsAsk.flag
        BY <1>1, <3>5 DEF PagesInv, CollectedSoFar
      <3>6. ASSUME kind = "aijob" PROVE eventsAsk'.listed \subseteq {1} /\ eventsAsk'.todo = {}
        <4>1. eventsAsk.todo \subseteq eventsAsk.listed
          BY <1>1 DEF PagesInv, CollectedSoFar
        <4> QED
          BY <1>1, <2>2, <3>5, <3>6, <4>1
      <3>7. ASSUME kind # "spjob", eventsAsk.flag
            PROVE  /\ eventsAsk'.flag /\ eventsAsk'.got \subseteq PodIndex /\ eventsAsk'.got # {}
                   /\ eventsAsk.before \cap passed \subseteq eventsAsk'.got
        <4>1. kind = "vcjob" /\ reset = FALSE
          BY <2>1, <3>5, <3>7 DEF PagesInv, PagesTypeOK
        <4> QED
          BY <2>2, <3>2, <3>3, <3>4, <3>7, <4>1
      <3>8. ASSUME kind # "spjob", ~eventsAsk.flag, p \in eventsOf
            PROVE  /\ eventsAsk'.flag /\ eventsAsk'.got \subseteq PodIndex /\ eventsAsk'.got # {}
                   /\ eventsAsk.before \cap passed \subseteq eventsAsk'.got
        <4>1. reset = TRUE
          BY <2>1, <3>8 DEF PagesInv, PagesTypeOK
        <4> QED
          BY <2>2, <3>2, <3>3, <3>4, <3>8, <4>1
      <3>9. ASSUME kind # "spjob", ~eventsAsk.flag, p \notin eventsOf
            PROVE  /\ ~eventsAsk'.flag /\ eventsAsk'.got = eventsAsk.before \cap {0}
                   /\ eventsAsk.before \cap passed = {}
        BY <2>2, <3>2, <3>3, <3>4, <3>9
      <3>10. eventsAsk'.todo \subseteq eventsAsk'.listed
        BY <2>2 DEF PagesInv, CollectedSoFar
      <3>11. ASSUME kind # "spjob"
             PROVE  IF eventsAsk'.flag THEN /\ eventsAsk'.got \subseteq PodIndex /\ eventsAsk'.got # {}
                                            /\ eventsAsk.before \cap passed \subseteq eventsAsk'.got
                    ELSE /\ eventsAsk'.got = eventsAsk.before \cap {0}
                         /\ eventsAsk.before \cap passed = {}
        BY <3>7, <3>8, <3>9, <3>11
      <3>12. eventsAsk'.listed \ eventsAsk'.todo = passed /\ eventsAsk'.before = eventsAsk.before
        BY <2>2
      <3> HIDE DEF through, passed
      <3> QED
        BY <3>1, <3>3, <3>6, <3>10, <3>11, <3>12 DEF CollectedSoFar
    <2> QED
      BY <1>1, <2>3, <2>4, TokensAlone DEF PagesInv
  <1>3. CASE kind = "spjob" /\ eventsAsk' = [eventsAsk EXCEPT !.todo = eventsAsk.todo \ {p}]
    <2>1. PagesTypeOK'
      BY <1>1, <1>3 DEF PagesInv, PagesTypeOK, EventsUnchanged
    <2>2. CollectedSoFar'
      BY <1>1, <1>3 DEF PagesInv, PagesTypeOK, CollectedSoFar, EventsUnchanged
    <2> QED
      BY <1>1, <2>1, <2>2, TokensAlone DEF PagesInv
  <1> QED
    <2>1. CASE JobPodEvents(p)
      <3>1. eventsAsk' = Collect(p, ~eventsAsk.flag) /\ kind = "vcjob" /\ eventsAsk.flag \in BOOLEAN
        BY <2>1 DEF JobPodEvents, NextPod, SetEvents, FirstWithEvents, PagesInv, PagesTypeOK
      <3> QED
        BY <1>2, <3>1
    <2>2. CASE TaskPodEvents(p)
      <3>1. eventsAsk' = Collect(p, TRUE) /\ kind = "aijob"
        BY <2>2 DEF TaskPodEvents, NextPod, SetEvents
      <3> QED
        BY <1>2, <3>1
    <2>3. CASE SparsePodEvents(p)
      <3>1. kind = "spjob" /\ \/ eventsAsk' = Collect(p, eventsAsk.got # {})
                              \/ eventsAsk' = [eventsAsk EXCEPT !.todo = eventsAsk.todo \ {p}]
        BY <2>3 DEF SparsePodEvents, NextPod, SetEvents
      <3>2. (eventsAsk.got # {}) \in BOOLEAN
        OBVIOUS
      <3> QED
        BY <1>2, <1>3, <3>1, <3>2
    <2> QED
      BY <2>1, <2>2, <2>3

\* The requests and the cluster keep what the three pages rely on (JobPages.tla:
\* vcjob.go GetJobToken and GetJobEvents, aijob/emias.go, spjob.go), for any
\* number of requests, pods and runs of a pod.
THEOREM PagesInvariance == PagesSpec => []PagesInv
  <1>1. PagesInit => PagesInv
    <2> SUFFICES ASSUME PagesInit PROVE PagesInv
      OBVIOUS
    <2>1. object = [there |-> record.named, running |-> FALSE, version |-> 1, token |-> NoToken]
          /\ record.named \in BOOLEAN /\ objectSeen = object
      <3>1. PICK s \in RowStatus[kind], b \in BOOLEAN :
               record = [kept |-> kind # "spjob", deleted |-> FALSE, status |-> s, recent |-> b,
                         named |-> s # "Queueing"]
        BY DEF PagesInit
      <3>2. record.named = (s # "Queueing")
        BY <3>1
      <3> QED
        BY <3>2 DEF PagesInit
    <2>2. pod \in [PodIndex -> [run : Nat, phase : PodPhase, report : {"none", "conditions", "whole"}]]
      BY DEF PagesInit, PodPhase, NewPod
    <2>3. kind \in {"vcjob", "aijob", "spjob"} /\ eventsOf = {}
      BY DEF PagesInit, RowStatus
    <2>4. object \in [there : BOOLEAN, running : BOOLEAN, version : Nat, token : Nat]
      BY <2>1 DEF NoToken
    <2>5. tokenAsk \in [TokenCalls -> [at : {"idle", "log", "cache"}, copy : Nat, found : Nat]]
      BY DEF PagesInit, IdleToken, NoToken
    <2>6. eventsAsk = IdleEvents
      BY DEF PagesInit
    <2>7. PagesTypeOK
      BY <2>1, <2>2, <2>3, <2>4, <2>5, <2>6 DEF PagesTypeOK, IdleEvents
    <2>8. CopiesAreOld /\ WritesTheFirst /\ TokensAreKept /\ CollectedSoFar
      BY <2>1 DEF PagesInit, CopiesAreOld, WritesTheFirst, TokensAreKept, CollectedSoFar,
                  IdleToken, IdleEvents, NoToken
    <2> QED
      BY <2>7, <2>8 DEF PagesInv
  <1>2. PagesInv /\ [PagesNext]_pagesVars => PagesInv'
    <2> SUFFICES ASSUME PagesInv, [PagesNext]_pagesVars PROVE PagesInv'
      OBVIOUS
    <2>1. CASE ListsNext
      BY <2>1, PodsKeep, ObjectKeeps, CacheSeesObject, RowsAndEventsKeep DEF ListsNext
    <2>2. CASE TokenNext
      BY <2>2, PodsKeep, ObjectKeeps, CacheSeesObject, RowsAndEventsKeep, FirstLook, LogKeeps, CacheKeeps, PagesAssumption
         DEF TokenNext, GetJobToken, GetJupyterToken
    <2>3. CASE EventsNext
      BY <2>3, PodsKeep, ObjectKeeps, CacheSeesObject, RowsAndEventsKeep, AskKeeps, ListKeeps, PodEventsKeep DEF EventsNext
    <2>4. CASE UNCHANGED pagesVars
      BY <2>4, BesidesKeeps DEF PagesInv, PagesTypeOK, pagesVars
    <2> QED
      BY <2>1, <2>2, <2>3, <2>4 DEF PagesNext
  <1> QED
    BY <1>1, <1>2, PTL DEF PagesSpec

\* A job that a list shows opens on every page with the same status (the lists of
\* vcjob.go, emias.go and spjob.go and the lookups of their pages), whatever else
\* of the job is gone, but for the detail of a sparse job whose first pod ended
\* without a report of its containers.
THEOREM ListedJobsOpen == PagesSpec => []PagesAgree
  <1>1. PagesInv => PagesAgree
    <2> SUFFICES ASSUME PagesInv, NEW v \in Viewers, NEW e \in Lists(v), e.what = "entry"
                 PROVE  /\ GetJobDetail(v) = Answered(e.status) \/ (kind = "spjob" /\ NoEnd)
                        /\ GetJobPods(v).ok /\ GetJobYaml(v).ok
                        /\ kind = "vcjob" => GetJobTemplate(v).ok
                        /\ kind = "aijob" => ListAllJob = e
      BY DEF PagesAgree
    <2> USE DEF Answered, Failed, If, Entry, Absent, Blank, ListFails
    <2>1. CASE kind = "vcjob"
      <3>1. e \in {GetUserJobs(v)} \cup (IF IsAdmin(v) THEN {GetAllJobsInDays(0), GetAllJobsInDays(-1)} ELSE {})
        BY <2>1 DEF Lists
      <3>2. getJob(v) /\ e.status = record.status
        BY <3>1 DEF getJob, GetUserJobs, GetAllJobsInDays
      <3>3. /\ GetJobDetail(v) = JobDetail(v) /\ GetJobPods(v) = JobPods(v)
            /\ GetJobYaml(v) = JobYaml(v)
        BY <2>1 DEF GetJobDetail, GetJobPods, GetJobYaml
      <3> QED
        BY <2>1, <3>2, <3>3 DEF JobDetail, JobPods, JobYaml, GetJobTemplate
    <2>2. CASE kind = "aijob"
      <3>1. e = ListUserJob(v)
        BY <2>2 DEF Lists
      <3>2. GetByQueueAndID(v) /\ userKept /\ e = Entry(convertJobPhase)
        BY <3>1 DEF ListUserJob, convertToAIJobResp
      <3>3. /\ GetJobDetail(v) = GetDetail(v) /\ GetJobPods(v) = TaskPods(v)
            /\ GetJobYaml(v) = TaskYaml(v)
        BY <2>2 DEF GetJobDetail, GetJobPods, GetJobYaml
      <3>4. ListAllJob = e
        BY <3>2 DEF ListAllJob, convertToAIJobResp, GetByQueueAndID
      <3> QED
        BY <2>2, <3>2, <3>3, <3>4 DEF GetDetail, TaskPods, TaskYaml
    <2>3. CASE kind = "spjob"
      <3>1. e = SparseList(v)
        BY <2>3 DEF Lists
      <3>2. /\ objectSeen.there /\ ~PodMissing /\ GetPodsByName # {} /\ userKept
            /\ e = Entry(jobStatusMap(FirstPod))
        BY <3>1 DEF SparseList, GetPodsByName
      <3>3. /\ GetJobDetail(v) = GetByName /\ GetJobPods(v) = SparsePods
            /\ GetJobYaml(v) = GetYaml
        BY <2>3 DEF GetJobDetail, GetJobPods, GetJobYaml
      <3> QED
        BY <2>3, <3>2, <3>3 DEF GetByName, SparsePods, GetYaml
    <2> QED
      BY <2>1, <2>2, <2>3 DEF PagesInv, PagesTypeOK
  <1> QED
    BY <1>1, PagesInvariance, PTL

\* Every request for the token of a Volcano job answers the one that is kept with
\* it (GetJobToken, which writes the annotation at the version it read).
THEOREM OneToken == PagesSpec => []TokensAgree
  <1>1. PagesInv => TokensAgree
    BY DEF PagesInv, TokensAreKept, TokensAgree
  <1> QED
    BY <1>1, PagesInvariance, PTL

\* The events page shows all that the pods had when it was asked for, and the
\* job's own only when they had none (GetJobEvents), however events and pods
\* come while it asks.
THEOREM EventsAreWhole == PagesSpec => []EventsComplete
  <1>1. PagesInv => EventsComplete
    BY PagesAssumption DEF PagesInv, PagesTypeOK, CollectedSoFar, EventsComplete
  <1> QED
    BY <1>1, PagesInvariance, PTL

=============================================================================
