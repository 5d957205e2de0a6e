---------------------------- MODULE VcJobProofs ----------------------------
(***************************************************************************)
(* Proofs about VcJob, for any set of jobs and any choice of faults.  The  *)
(* invariant is per job, and an action touches one job: each action has a  *)
(* lemma with a step for the types and one for each part of JobInv, and    *)
(* the other jobs are covered by the frame lemma.                          *)
(***************************************************************************)
EXTENDS VcJob, TLAPS

\* Nothing of job k changes.
Same(k) ==
    /\ cluster'[k] = cluster[k] /\ cache'[k] = cache[k] /\ dirty'[k] = dirty[k]
    /\ row'[k] = row[k] /\ rec'[k] = rec[k]
    /\ alerts'[k] = alerts[k] /\ emails'[k] = emails[k]
    /\ unlogged'[k] = unlogged[k] /\ dropped'[k] = dropped[k]

\* JobInv(k) speaks of nothing but the state of k: an action on another job
\* keeps it.
LEMMA Frame ==
    ASSUME NEW k \in Jobs, JobInv(k), Same(k)
    PROVE  JobInv(k)'
<1>1. CopiesInv(k)'
  BY DEF JobInv, Same, CopiesInv, Follows
<1>2. StepInv(k)'
  BY DEF JobInv, Same, StepInv, Live, Exists
<1>3. EndInv(k)'
  BY DEF JobInv, Same, EndInv, Live
<1>4. SyncInv(k)'
  BY DEF JobInv, Same, SyncInv, SyncedTo, Live, Exists
<1>5. MailInv(k)'
  BY DEF JobInv, Same, MailInv
<1> QED
  BY <1>1, <1>2, <1>3, <1>4, <1>5 DEF JobInv

-----------------------------------------------------------------------------
(***************************************************************************)
(* Records that the actions build have their types.                        *)
(***************************************************************************)
\* Constant records.
LEMMA Constants == /\ NoObject \in Object /\ NoRow \in Row /\ IdleRec \in Rec /\ IdleDel \in Del
                   /\ IdleRec.pc = "idle"
BY DEF NoObject, NoRow, IdleRec, IdleDel, Object, Row, Rec, Del, Phases, Terminal

\* What is kept of one job has its type.
Entries(j) == /\ cluster[j] \in Object /\ cache[j] \in Object
              /\ row[j] \in Row /\ rec[j] \in Rec /\ del[j] \in Del

\* Replacing the phase of an object leaves an object.
LEMMA ObjectPhase ==
    ASSUME NEW o \in Object, NEW p \in Phases \cup {"absent", "gone"}
    PROVE  /\ [o EXCEPT !.phase = p] \in Object
           /\ [o EXCEPT !.phase = p].phase = p
BY DEF Object

\* Moving a Reconcile call on keeps what it has read.
LEMMA RecPc ==
    ASSUME NEW r \in Rec,
           NEW pc \in {"idle", "gone", "settle", "found", "create", "alert", "record", "update"}
    PROVE  /\ [r EXCEPT !.pc = pc] \in Rec
           /\ [r EXCEPT !.pc = pc].pc = pc
           /\ [r EXCEPT !.pc = pc].job = r.job
           /\ [r EXCEPT !.pc = pc].old = r.old
BY DEF Rec

\* The same with the row it has just read.
LEMMA RecRead ==
    ASSUME NEW r \in Rec, NEW old \in Row,
           NEW pc \in {"idle", "gone", "settle", "found", "create", "alert", "record", "update"}
    PROVE  /\ [r EXCEPT !.pc = pc, !.old = old] \in Rec
           /\ [r EXCEPT !.pc = pc, !.old = old].pc = pc
           /\ [r EXCEPT !.pc = pc, !.old = old].job = r.job
           /\ [r EXCEPT !.pc = pc, !.old = old].old = old
BY DEF Rec

\* Replacing one field of a row leaves a row.
LEMMA RowFields ==
    ASSUME NEW r \in Row
    PROVE  /\ \A s \in {"none", "live", "soft"} : [r EXCEPT !.state = s] \in Row
           /\ \A s \in Phases \cup {"Deleted", "Freed"} : [r EXCEPT !.status = s] \in Row
           /\ \A b \in BOOLEAN : [r EXCEPT !.alert = b] \in Row
BY DEF Row

\* Following is transitive.
LEMMA FollowsTrans ==
    ASSUME NEW o, NEW p, NEW q, Follows(o, p), Follows(p, q)
    PROVE  Follows(o, q)
BY DEF Follows

\* A step that changes nothing that JobInv reads.
LEMMA Untouched ==
    ASSUME IInv, TypeOK', \A k \in Jobs : Same(k)
    PROVE  IInv'
BY Frame DEF IInv

\* A step of the cluster alone: the object of j becomes o.
LEMMA ClusterMoves ==
    ASSUME IInv, TypeOK', NEW j \in Jobs, NEW o,
           o = cluster[j] \/ (Follows(o, cluster[j]) /\ o.phase # "absent"),
           cluster' = [cluster EXCEPT ![j] = o],
           UNCHANGED <<cache, dirty, row, rec, alerts, emails, unlogged, dropped>>
    PROVE  IInv'
<1>1. ASSUME NEW k \in Jobs, k # j PROVE JobInv(k)'
  <2>1. Same(k)
    BY <1>1 DEF IInv, TypeOK, Same
  <2> QED
    BY <2>1, Frame DEF IInv
<1>2. JobInv(j)'
  <2>1. cluster'[j] = o
    BY DEF IInv, TypeOK
  <2>2. Follows(o, cache[j]) /\ (o.phase = "absent" => cache[j] = o)
    BY FollowsTrans DEF IInv, JobInv, CopiesInv
  <2>3. CopiesInv(j)'
    BY <2>1, <2>2 DEF IInv, JobInv, CopiesInv, Follows
  <2>4. StepInv(j)' /\ EndInv(j)' /\ SyncInv(j)' /\ MailInv(j)'
    BY DEF IInv, JobInv, StepInv, EndInv, SyncInv, SyncedTo, MailInv, Live, Exists
  <2> QED
    BY <2>3, <2>4 DEF JobInv
<1> QED
  BY <1>1, <1>2 DEF IInv

-----------------------------------------------------------------------------
(***************************************************************************)
(* One lemma per action.                                                   *)
(***************************************************************************)
\* A submitted job is new to cache and reconciler.
LEMMA SubmitJobKeeps ==
    ASSUME IInv, NEW j \in Jobs, SubmitJob(j)
    PROVE  IInv'
<1> USE DEF History
<1>0. Entries(j)
  BY DEF IInv, TypeOK, Entries
<1>1. TypeOK'
  <2>1. [phase |-> "New", ran |-> FALSE] \in Object
    BY DEF Object, Phases
  <2> QED
    BY <2>1 DEF IInv, TypeOK, SubmitJob, ClusterStep
<1> DEFINE o == [phase |-> "New", ran |-> FALSE]
<1>2. o = cluster[j] \/ (Follows(o, cluster[j]) /\ o.phase # "absent")
  BY <1>0 DEF SubmitJob, ClusterStep, Follows, Terminal
<1> QED
  BY <1>1, <1>2, ClusterMoves DEF SubmitJob, ClusterStep

\* Volcano puts a job into Pending.
LEMMA JobPendsKeeps ==
    ASSUME IInv, NEW j \in Jobs, JobPends(j)
    PROVE  IInv'
<1> USE DEF History
<1>0. Entries(j)
  BY DEF IInv, TypeOK, Entries
<1>1. TypeOK'
  <2>1. [cluster[j] EXCEPT !.phase = "Pending"] \in Object
    BY ObjectPhase DEF IInv, TypeOK, Phases
  <2> QED
    BY <2>1 DEF IInv, TypeOK, JobPends, ClusterStep
<1> DEFINE o == [cluster[j] EXCEPT !.phase = "Pending"]
<1>2. o = cluster[j] \/ (Follows(o, cluster[j]) /\ o.phase # "absent")
  BY <1>0 DEF JobPends, ClusterStep, Follows, Entries, Object, Terminal
<1> QED
  BY <1>1, <1>2, ClusterMoves DEF JobPends, ClusterStep

\* Volcano runs a job.
LEMMA JobRunsKeeps ==
    ASSUME IInv, NEW j \in Jobs, JobRuns(j)
    PROVE  IInv'
<1> USE DEF History
<1>0. Entries(j)
  BY DEF IInv, TypeOK, Entries
<1>1. TypeOK'
  <2>1. [phase |-> "Running", ran |-> TRUE] \in Object
    BY DEF Object, Phases
  <2> QED
    BY <2>1 DEF IInv, TypeOK, JobRuns, ClusterStep
<1> DEFINE o == [phase |-> "Running", ran |-> TRUE]
<1>2. o = cluster[j] \/ (Follows(o, cluster[j]) /\ o.phase # "absent")
  BY <1>0 DEF JobRuns, ClusterStep, Follows, Terminal
<1> QED
  BY <1>1, <1>2, ClusterMoves DEF JobRuns, ClusterStep

\* A job ends.
LEMMA JobEndsKeeps ==
    ASSUME IInv, NEW j \in Jobs, JobEnds(j)
    PROVE  IInv'
<1> USE DEF History
<1>1. TypeOK'
  <2>1. PICK p \in EndPhases : cluster' = [cluster EXCEPT ![j] = [cluster[j] EXCEPT !.phase = p]]
    BY DEF JobEnds, ClusterStep
  <2>2. [cluster[j] EXCEPT !.phase = p] \in Object
    BY ObjectPhase, EndPhasesType DEF IInv, TypeOK, Phases
  <2> QED
    BY <2>1, <2>2 DEF IInv, TypeOK, JobEnds, ClusterStep
<1>2. PICK p \in EndPhases : cluster' = [cluster EXCEPT ![j] = [cluster[j] EXCEPT !.phase = p]]
  BY DEF JobEnds, ClusterStep
<1> DEFINE o == [cluster[j] EXCEPT !.phase = p]
<1>3. o.phase = p
  BY ObjectPhase, EndPhasesType DEF IInv, TypeOK, Phases
<1>4. Follows(o, cluster[j]) /\ o.phase # "absent"
  BY <1>3, EndPhasesType DEF JobEnds, Follows, Terminal
<1> QED
  BY <1>1, <1>2, <1>4, ClusterMoves DEF JobEnds, ClusterStep

\* A finished job expires.
LEMMA JobExpiresKeeps ==
    ASSUME IInv, NEW j \in Jobs, JobExpires(j)
    PROVE  IInv'
<1> USE DEF History
<1>0. Entries(j)
  BY DEF IInv, TypeOK, Entries
<1>1. TypeOK'
  <2>1. [cluster[j] EXCEPT !.phase = "gone"] \in Object
    BY ObjectPhase DEF IInv, TypeOK, Phases
  <2> QED
    BY <2>1 DEF IInv, TypeOK, JobExpires, ClusterStep
<1> DEFINE o == [cluster[j] EXCEPT !.phase = "gone"]
<1>2. o = cluster[j] \/ (Follows(o, cluster[j]) /\ o.phase # "absent")
  BY <1>0 DEF JobExpires, ClusterStep, Follows, Entries, Object, Terminal
<1> QED
  BY <1>1, <1>2, ClusterMoves DEF JobExpires, ClusterStep

\* The informer brings the cache up to date and raises the name.
LEMMA InformKeeps ==
    ASSUME IInv, NEW j \in Jobs, Inform(j)
    PROVE  IInv'
<1> USE DEF History
<1>0. Entries(j)
  BY DEF IInv, TypeOK, Entries
<1>1. TypeOK'
  BY DEF IInv, TypeOK, Inform
<1>2. ASSUME NEW k \in Jobs, k # j PROVE JobInv(k)'
  <2>1. Same(k)
    BY <1>2 DEF IInv, TypeOK, Same, Inform
  <2> QED
    BY <2>1, Frame DEF IInv
<1>3. JobInv(j)'
  <2> USE DEF IInv, JobInv, Inform, Live, Exists
  <2>1. CopiesInv(j)'
    <3>1. cache'[j] = cluster[j] /\ dirty'[j] /\ cluster'[j] = cluster[j] /\ rec'[j] = rec[j] /\ row'[j] = row[j]
      BY DEF TypeOK
    <3>2. cluster[j].phase # "absent"
      <4>1. CASE Exists(cluster[j])
        BY <4>1 DEF Phases, Terminal
      <4>2. CASE cache[j] # cluster[j]
        BY <4>2 DEF CopiesInv
      <4> QED
        BY <4>1, <4>2
    <3>3. Follows(cluster[j], cluster[j])
      BY DEF Follows
    <3>4. rec[j].pc # "idle" => Follows(cluster[j], rec[j].job)
      BY DEF CopiesInv, Follows, Terminal
    <3> QED
      BY <3>1, <3>2, <3>3, <3>4 DEF CopiesInv, Follows
  <2>2. StepInv(j)'
    BY DEF StepInv, TypeOK
  <2>3. EndInv(j)'
    BY DEF EndInv, CopiesInv, Follows, TypeOK
  <2>4. SyncInv(j)'
    BY DEF SyncInv, TypeOK
  <2>5. MailInv(j)'
    BY DEF MailInv, TypeOK
  <2> QED
    BY <2>1, <2>2, <2>3, <2>4, <2>5
<1> QED
  BY <1>1, <1>2, <1>3 DEF IInv

\* A call begins with what the cache holds, or its event is lost.
LEMMA ReconcileGetKeeps ==
    ASSUME IInv, NEW j \in Jobs, ReconcileGet(j)
    PROVE  IInv'
<1> USE DEF History
<1>0. Entries(j)
  BY DEF IInv, TypeOK, Entries
<1>1. TypeOK'
  <2>1. [pc |-> IF Exists(cache[j]) THEN "found" ELSE "gone", job |-> cache[j], old |-> NoRow] \in Rec
    BY Constants DEF IInv, TypeOK, Rec
  <2> QED
    <3>1. rec' \in [Jobs -> Rec]
      BY <2>1 DEF IInv, TypeOK, ReconcileGet
    <3>2. dirty' \in [Jobs -> BOOLEAN] /\ dropped' \in [Jobs -> BOOLEAN]
      BY DEF IInv, TypeOK, ReconcileGet
    <3> QED
      BY <3>1, <3>2 DEF IInv, TypeOK, ReconcileGet
<1>2. ASSUME NEW k \in Jobs, k # j PROVE JobInv(k)'
  <2>1. Same(k)
    BY <1>2 DEF IInv, TypeOK, Same, ReconcileGet
  <2> QED
    BY <2>1, Frame DEF IInv
<1>3. JobInv(j)'
  <2> USE DEF IInv, JobInv, ReconcileGet, Live, Exists
  <2>1. CopiesInv(j)'
    BY DEF CopiesInv, Follows, TypeOK
  <2>2. StepInv(j)'
    BY DEF StepInv, CopiesInv, Follows, Settled, TypeOK, Object, Row, Rec, Phases, Terminal
  <2>3. EndInv(j)'
    BY DEF EndInv, TypeOK
  <2>4. SyncInv(j)'
    BY DEF SyncInv, TypeOK
  <2>5. MailInv(j)'
    BY DEF MailInv, TypeOK
  <2> QED
    BY <2>1, <2>2, <2>3, <2>4, <2>5
<1> QED
  BY <1>1, <1>2, <1>3 DEF IInv

\* The row of a job that is gone is read.
LEMMA GoneReadKeeps ==
    ASSUME IInv, NEW j \in Jobs, GoneRead(j)
    PROVE  IInv'
<1> USE DEF History
<1>0. Entries(j)
  BY DEF IInv, TypeOK, Entries
<1>1. TypeOK'
  <2>1. [rec[j] EXCEPT !.pc = "settle", !.old = row[j]] \in Rec
    BY <1>0, RecRead DEF Entries
  <2> QED
    BY <2>1, Constants DEF IInv, TypeOK, GoneRead, Done
<1>2. ASSUME NEW k \in Jobs, k # j PROVE JobInv(k)'
  <2>1. Same(k)
    BY <1>2 DEF IInv, TypeOK, Same, GoneRead, Done
  <2> QED
    BY <2>1, Frame DEF IInv
<1>3. JobInv(j)'
  <2> USE DEF IInv, JobInv, GoneRead, Done, Live, Exists
  <2>1. CopiesInv(j)'
    BY DEF CopiesInv, StepInv, Follows, TypeOK, Object, Row, Rec, Phases, Terminal, IdleRec
  <2>2. StepInv(j)'
    <3>1. CASE rec'[j].pc = "idle"
      BY <3>1 DEF StepInv, TypeOK
    <3>2. CASE rec'[j] = [rec[j] EXCEPT !.pc = "settle", !.old = row[j]]
      <4>1. rec'[j].pc = "settle" /\ rec'[j].job = rec[j].job /\ rec'[j].old = row[j]
        <5>1. row[j] \in Row /\ rec[j] \in Rec
          BY <1>0 DEF Entries
        <5> HIDE DEF IInv, JobInv, GoneRead, Done, Live, Exists
        <5>2. /\ [rec[j] EXCEPT !.pc = "settle", !.old = row[j]].pc = "settle"
              /\ [rec[j] EXCEPT !.pc = "settle", !.old = row[j]].job = rec[j].job
              /\ [rec[j] EXCEPT !.pc = "settle", !.old = row[j]].old = row[j]
          BY <5>1 DEF Rec
        <5> QED
          BY <3>2, <5>2
      <4> QED
        BY <4>1 DEF StepInv
    <3> QED
      BY <1>0, <3>1, <3>2, Constants DEF TypeOK, Entries
  <2>3. EndInv(j)'
    <3>1. CASE rec'[j].pc = "idle"
      BY <3>1 DEF EndInv, TypeOK
    <3>2. CASE rec'[j] = [rec[j] EXCEPT !.pc = "settle", !.old = row[j]]
      <4>1. rec'[j].pc = "settle" /\ rec'[j].job = rec[j].job /\ rec'[j].old = row[j]
        <5>1. row[j] \in Row /\ rec[j] \in Rec
          BY <1>0 DEF Entries
        <5> HIDE DEF IInv, JobInv, GoneRead, Done, Live, Exists
        <5>2. /\ [rec[j] EXCEPT !.pc = "settle", !.old = row[j]].pc = "settle"
              /\ [rec[j] EXCEPT !.pc = "settle", !.old = row[j]].job = rec[j].job
              /\ [rec[j] EXCEPT !.pc = "settle", !.old = row[j]].old = row[j]
          BY <5>1 DEF Rec
        <5> QED
          BY <3>2, <5>2
      <4> QED
        BY <4>1 DEF EndInv, StepInv, Settled
    <3> QED
      BY <1>0, <3>1, <3>2, Constants DEF TypeOK, Entries
  <2>4. SyncInv(j)'
    BY DEF CopiesInv, StepInv, SyncInv, SyncedTo, Follows, Settled, TypeOK, Object, Row, Rec, IdleRec, NoRow, Phases, Terminal
  <2>5. MailInv(j)'
    BY DEF MailInv, TypeOK
  <2> QED
    BY <2>1, <2>2, <2>3, <2>4, <2>5
<1> QED
  BY <1>1, <1>2, <1>3 DEF IInv

\* The row of a job that is gone is settled.
LEMMA GoneWriteKeeps ==
    ASSUME IInv, NEW j \in Jobs, GoneWrite(j)
    PROVE  IInv'
<1> USE DEF History
<1>0. Entries(j)
  BY DEF IInv, TypeOK, Entries
<1>1. TypeOK'
  <2>1. SettledRow(row[j], rec[j].old) \in Row
    BY DEF IInv, TypeOK, SettledRow, Row
  <2> QED
    BY <2>1, Constants DEF IInv, TypeOK, GoneWrite, Done
<1>2. ASSUME NEW k \in Jobs, k # j PROVE JobInv(k)'
  <2>1. Same(k)
    BY <1>2 DEF IInv, TypeOK, Same, GoneWrite, SettledRow, Done
  <2> QED
    BY <2>1, Frame DEF IInv
<1>3. JobInv(j)'
  <2> USE DEF IInv, JobInv, GoneWrite, SettledRow, Done, Live, Exists
  <2>1. CopiesInv(j)'
    BY DEF CopiesInv, Follows, TypeOK, IdleRec
  <2>2. StepInv(j)'
    BY DEF StepInv, TypeOK, IdleRec
  <2>3. EndInv(j)'
    BY DEF EndInv, StepInv, CopiesInv, Follows, TypeOK, Row, Terminal, IdleRec
  <2>4. SyncInv(j)'
    BY DEF CopiesInv, StepInv, SyncInv, SyncedTo, Follows, Settled, TypeOK, Object, Row, Rec, IdleRec, NoRow, Phases, Terminal
  <2>5. MailInv(j)'
    BY DEF MailInv, TypeOK
  <2> QED
    BY <2>1, <2>2, <2>3, <2>4, <2>5
<1> QED
  BY <1>1, <1>2, <1>3 DEF IInv

\* The row of an existing job is read.
LEMMA FoundReadKeeps ==
    ASSUME IInv, NEW j \in Jobs, FoundRead(j)
    PROVE  IInv'
<1> USE DEF History
<1>0. Entries(j)
  BY DEF IInv, TypeOK, Entries
<1>1. TypeOK'
  <2>1. [rec[j] EXCEPT !.pc = IF Live(j) THEN "alert" ELSE "create", !.old = row[j]] \in Rec
    BY <1>0, RecRead DEF Entries
  <2> QED
    BY <2>1 DEF IInv, TypeOK, FoundRead
<1>2. ASSUME NEW k \in Jobs, k # j PROVE JobInv(k)'
  <2>1. Same(k)
    BY <1>2 DEF IInv, TypeOK, Same, FoundRead
  <2> QED
    BY <2>1, Frame DEF IInv
<1>3. JobInv(j)'
  <2> USE DEF IInv, JobInv, FoundRead, Live, Exists
  <2>1. CopiesInv(j)'
    BY DEF CopiesInv, TypeOK
  <2>2. StepInv(j)'
    BY DEF StepInv, TypeOK
  <2>3. EndInv(j)'
    BY DEF EndInv, TypeOK
  <2>4. SyncInv(j)'
    BY DEF SyncInv, TypeOK
  <2>5. MailInv(j)'
    BY DEF MailInv, TypeOK
  <2> QED
    BY <2>1, <2>2, <2>3, <2>4, <2>5
<1> QED
  BY <1>1, <1>2, <1>3 DEF IInv

\* The row is inserted, or the index refuses it.
LEMMA CreateRowKeeps ==
    ASSUME IInv, NEW j \in Jobs, CreateRow(j)
    PROVE  IInv'
<1> USE DEF History
<1>0. Entries(j)
  BY DEF IInv, TypeOK, Entries
<1>1. TypeOK'
  <2>1. \A a \in BOOLEAN : [NoRow EXCEPT !.state = "live", !.alert = a, !.status = rec[j].job.phase] \in Row
    BY DEF IInv, TypeOK, JobInv, StepInv, CreateRow, Exists, Row, NoRow
  <2> QED
    <3>1. row' \in [Jobs -> Row]
      <4>1. CASE row[j].state = "none"
        <5>1. PICK a \in BOOLEAN : row' = [row EXCEPT ![j] =
                  [NoRow EXCEPT !.state = "live", !.alert = a, !.status = rec[j].job.phase]]
          BY <4>1 DEF CreateRow
        <5> QED
          BY <2>1, <5>1 DEF IInv, TypeOK
      <4>2. CASE row[j].state # "none"
        BY <4>2 DEF IInv, TypeOK, CreateRow
      <4> QED
        BY <4>1, <4>2
    <3>2. rec' \in [Jobs -> Rec]
      BY Constants DEF IInv, TypeOK, CreateRow, Done
    <3>3. dirty' \in [Jobs -> BOOLEAN]
      BY DEF IInv, TypeOK, CreateRow
    <3> QED
      BY <3>1, <3>2, <3>3 DEF IInv, TypeOK, CreateRow
<1>2. ASSUME NEW k \in Jobs, k # j PROVE JobInv(k)'
  <2>1. Same(k)
    BY <1>2 DEF IInv, TypeOK, Same, CreateRow, Done
  <2> QED
    BY <2>1, Frame DEF IInv
<1>3. JobInv(j)'
  <2> USE DEF IInv, JobInv, CreateRow, Done, Live, Exists
  <2>0. /\ rec'[j].pc = "idle" /\ cache'[j] = cache[j] /\ cluster'[j] = cluster[j]
        /\ \/ /\ dirty'[j]
              /\ row'[j] = row[j]
           \/ /\ dirty'[j] = dirty[j]
              /\ row'[j].state = "live" /\ row'[j].status = rec[j].job.phase
    <3>1. CASE row[j].state = "none"
      <4>1. PICK a \in BOOLEAN : row' = [row EXCEPT ![j] = [NoRow EXCEPT !.state = "live", !.alert = a,
                                                                        !.status = rec[j].job.phase]]
        BY <3>1
      <4>2. /\ [NoRow EXCEPT !.state = "live", !.alert = a, !.status = rec[j].job.phase].state = "live"
            /\ [NoRow EXCEPT !.state = "live", !.alert = a, !.status = rec[j].job.phase].status = rec[j].job.phase
        BY DEF NoRow
      <4> QED
        BY <3>1, <4>1, <4>2, Constants DEF TypeOK
    <3>2. CASE row[j].state # "none"
      BY <3>2, Constants DEF TypeOK
    <3> QED
      BY <3>1, <3>2
  <2>1. CopiesInv(j)'
    BY DEF CopiesInv, StepInv, Follows, TypeOK, Object, Row, Rec, Del, NoObject, NoRow, IdleRec, IdleDel, Phases, Terminal, AlertType
  <2>2. StepInv(j)'
    BY DEF StepInv, TypeOK, IdleRec
  <2>3. EndInv(j)'
    BY <2>0 DEF EndInv, CopiesInv, Follows
  <2>4. SyncInv(j)'
    <3>1. Exists(rec[j].job) /\ (~dirty[j] => rec[j].job = cache[j])
      BY DEF StepInv, CopiesInv
    <3>2. ASSUME Exists(cache[j]) PROVE cache[j].phase \notin {"absent", "gone"}
      BY <3>2 DEF Phases, Terminal
    <3> QED
      BY <2>0, <3>1, <3>2 DEF SyncInv, SyncedTo
  <2>5. MailInv(j)'
    BY DEF MailInv, TypeOK
  <2> QED
    BY <2>1, <2>2, <2>3, <2>4, <2>5
<1> QED
  BY <1>1, <1>2, <1>3 DEF IInv

\* The email is sent at most once before the alerts row is written.
LEMMA SendAlertKeeps ==
    ASSUME IInv, NEW j \in Jobs, SendAlert(j)
    PROVE  IInv'
<1> USE DEF History
<1>0. Entries(j)
  BY DEF IInv, TypeOK, Entries
<1>1. TypeOK'
  <2>1. /\ [rec[j] EXCEPT !.pc = "record"] \in Rec
        /\ [rec[j] EXCEPT !.pc = "update"] \in Rec
    BY RecPc DEF IInv, TypeOK
  <2>2. rec' \in [Jobs -> Rec]
    BY <2>1 DEF IInv, TypeOK, SendAlert, Goto
  <2>3. emails' \in [Jobs -> [AlertType -> 0..2]]
    <3>1. \A t \in AlertType : OneMore(emails[j][t]) \in 0..2
      BY DEF OneMore
    <3> QED
      <4>1. ASSUME NEW t \in AlertType
            PROVE  [emails EXCEPT ![j][t] = OneMore(@)] \in [Jobs -> [AlertType -> 0..2]]
        BY <3>1 DEF IInv, TypeOK
      <4>2. rec[j].job.phase \in AlertType \/ emails' = emails
        BY DEF SendAlert, AlertDue
      <4> QED
        BY <4>1, <4>2 DEF IInv, TypeOK, SendAlert
  <2> QED
    BY <2>2, <2>3 DEF IInv, TypeOK, SendAlert
<1>2. ASSUME NEW k \in Jobs, k # j PROVE JobInv(k)'
  <2>1. Same(k)
    BY <1>2 DEF IInv, TypeOK, Same, SendAlert, Goto, OneMore
  <2> QED
    BY <2>1, Frame DEF IInv
<1>3. JobInv(j)'
  <2> USE DEF IInv, JobInv, SendAlert, Goto, OneMore, Live, Exists
  <2>0. /\ rec'[j].pc \in {"record", "update"} /\ rec'[j].job = rec[j].job /\ rec'[j].old = rec[j].old
        /\ rec'[j].pc = "record" => AlertDue(j) /\ rec[j].job.phase \notin alerts[j]
    <3>1. rec'[j] \in {[rec[j] EXCEPT !.pc = "record"], [rec[j] EXCEPT !.pc = "update"]}
      BY DEF TypeOK
    <3>2. /\ [rec[j] EXCEPT !.pc = "record"].pc = "record" /\ [rec[j] EXCEPT !.pc = "update"].pc = "update"
          /\ [rec[j] EXCEPT !.pc = "record"].job = rec[j].job /\ [rec[j] EXCEPT !.pc = "update"].job = rec[j].job
          /\ [rec[j] EXCEPT !.pc = "record"].old = rec[j].old /\ [rec[j] EXCEPT !.pc = "update"].old = rec[j].old
      BY <1>0, RecPc DEF Entries
    <3>3. rec' = [rec EXCEPT ![j] = [rec[j] EXCEPT !.pc = "record"]] => AlertDue(j) /\ rec[j].job.phase \notin alerts[j]
      BY <3>2 DEF TypeOK
    <3> QED
      BY <3>1, <3>2, <3>3 DEF TypeOK
  <2>1. CopiesInv(j)'
    BY <2>0 DEF CopiesInv, Follows
  <2>2. StepInv(j)'
    BY <2>0 DEF StepInv, AlertDue
  <2>3. EndInv(j)'
    BY <2>0 DEF EndInv
  <2>4. SyncInv(j)'
    BY <2>0 DEF SyncInv
  <2>5. MailInv(j)'
    <3>1. CASE rec'[j].pc = "update" /\ emails' = emails
      BY <3>1 DEF MailInv
    <3>2. CASE /\ rec'[j].pc = "record" /\ emails'[j] = [emails[j] EXCEPT ![rec[j].job.phase] = OneMore(@)]
      <4>1. ~unlogged[j] => emails[j][rec[j].job.phase] = 0
        BY <2>0, <3>2 DEF MailInv, TypeOK, AlertDue
      <4>2. emails[j] \in [AlertType -> 0..2] /\ rec[j].job.phase \in AlertType
        BY <2>0, <3>2 DEF TypeOK, AlertDue
      <4> QED
        BY <2>0, <3>2, <4>1, <4>2 DEF MailInv
    <3>3. [rec[j] EXCEPT !.pc = "update"].pc = "update" /\ [rec[j] EXCEPT !.pc = "record"].pc = "record"
      BY <1>0, RecPc DEF Entries
    <3>4. \/ /\ rec' = [rec EXCEPT ![j].pc = "record"]
             /\ emails' = [emails EXCEPT ![j][rec[j].job.phase] = OneMore(@)]
          \/ /\ rec' = [rec EXCEPT ![j].pc = "update"]
             /\ emails' = emails
      OBVIOUS
    <3> QED
      BY <3>1, <3>2, <3>3, <3>4 DEF TypeOK
  <2> QED
    BY <2>1, <2>2, <2>3, <2>4, <2>5
<1> QED
  BY <1>1, <1>2, <1>3 DEF IInv

\* The alerts row is written.
LEMMA RecordAlertKeeps ==
    ASSUME IInv, NEW j \in Jobs, RecordAlert(j)
    PROVE  IInv'
<1> USE DEF History
<1>0. Entries(j)
  BY DEF IInv, TypeOK, Entries
<1>1. TypeOK'
  <2>1. [rec[j] EXCEPT !.pc = "update"] \in Rec
    BY RecPc DEF IInv, TypeOK
  <2>2. rec[j].job.phase \in AlertType
    BY DEF IInv, JobInv, StepInv, RecordAlert
  <2> QED
    <3>1. rec' \in [Jobs -> Rec]
      BY <2>1 DEF IInv, TypeOK, RecordAlert, Goto
    <3>2. alerts' \in [Jobs -> SUBSET AlertType] /\ unlogged' \in [Jobs -> BOOLEAN]
      <4>1. alerts[j] \cup {rec[j].job.phase} \in SUBSET AlertType
        BY <2>2 DEF IInv, TypeOK
      <4> QED
        BY <4>1 DEF IInv, TypeOK, RecordAlert
    <3> QED
      BY <3>1, <3>2 DEF IInv, TypeOK, RecordAlert
<1>2. ASSUME NEW k \in Jobs, k # j PROVE JobInv(k)'
  <2>1. Same(k)
    BY <1>2 DEF IInv, TypeOK, Same, RecordAlert, Goto
  <2> QED
    BY <2>1, Frame DEF IInv
<1>3. JobInv(j)'
  <2> USE DEF IInv, JobInv, RecordAlert, Goto, Live, Exists
  <2>1. CopiesInv(j)'
    BY DEF CopiesInv, TypeOK
  <2>2. StepInv(j)'
    BY DEF StepInv, TypeOK
  <2>3. EndInv(j)'
    BY DEF EndInv, TypeOK
  <2>4. SyncInv(j)'
    BY DEF SyncInv, TypeOK
  <2>5. MailInv(j)'
    BY DEF MailInv, StepInv, TypeOK, Rec
  <2> QED
    BY <2>1, <2>2, <2>3, <2>4, <2>5
<1> QED
  BY <1>1, <1>2, <1>3 DEF IInv

\* The row takes the phase of the job.
LEMMA UpdateRowKeeps ==
    ASSUME IInv, NEW j \in Jobs, UpdateRow(j)
    PROVE  IInv'
<1> USE DEF History
<1>0. Entries(j)
  BY DEF IInv, TypeOK, Entries
<1>1. TypeOK'
  <2>1. rec[j].job.phase \in Phases /\ rec[j].job.ran \in BOOLEAN
    BY DEF IInv, TypeOK, JobInv, StepInv, UpdateRow, Exists, Rec, Object
  <2>2. \A c \in BOOLEAN : UpdatedRow(row[j], rec[j].job, rec[j].old, c) \in Row
    BY <1>0, <2>1 DEF Entries, UpdatedRow, Row
  <2> QED
    BY <2>2, Constants DEF IInv, TypeOK, UpdateRow, Done
<1>2. ASSUME NEW k \in Jobs, k # j PROVE JobInv(k)'
  <2>1. Same(k)
    BY <1>2 DEF IInv, TypeOK, Same, UpdateRow, UpdatedRow, Done
  <2> QED
    BY <2>1, Frame DEF IInv
<1>3. JobInv(j)'
  <2> USE DEF IInv, JobInv, UpdateRow, UpdatedRow, Done, Live, Exists
  <2>1. CopiesInv(j)'
    BY DEF CopiesInv, Follows, TypeOK, IdleRec
  <2>2. StepInv(j)'
    BY DEF StepInv, TypeOK, IdleRec
  <2>3. EndInv(j)'
    BY DEF EndInv, StepInv, CopiesInv, Follows, TypeOK, Row, Terminal, IdleRec
  <2>4. SyncInv(j)'
    <3>1. Exists(rec[j].job) /\ (~dirty[j] => rec[j].job = cache[j]) /\ row[j].state # "none"
      BY DEF StepInv, CopiesInv
    <3>2. ASSUME Exists(cache[j]) PROVE cache[j].phase \notin {"absent", "gone"}
      BY <3>2 DEF Phases, Terminal
    <3>3. /\ row'[j].state = row[j].state /\ cache'[j] = cache[j] /\ dirty'[j] = dirty[j]
          /\ Live(j) /\ rec[j].job.phase # "New" => row'[j].status = rec[j].job.phase
      BY <1>0 DEF TypeOK, Entries, Row
    <3> QED
      BY <3>1, <3>2, <3>3 DEF SyncInv, SyncedTo
  <2>5. MailInv(j)'
    BY DEF MailInv, TypeOK
  <2> QED
    BY <2>1, <2>2, <2>3, <2>4, <2>5
<1> QED
  BY <1>1, <1>2, <1>3 DEF IInv

\* A failed call leaves the name in the queue.
LEMMA ReconcileFailsKeeps ==
    ASSUME IInv, NEW j \in Jobs, ReconcileFails(j)
    PROVE  IInv'
<1> USE DEF History
<1>0. Entries(j)
  BY DEF IInv, TypeOK, Entries
<1>1. TypeOK'
  BY Constants DEF IInv, TypeOK, ReconcileFails, Requeue, Done
<1>2. ASSUME NEW k \in Jobs, k # j PROVE JobInv(k)'
  <2>1. Same(k)
    BY <1>2 DEF IInv, TypeOK, Same, ReconcileFails, Requeue, Done
  <2> QED
    BY <2>1, Frame DEF IInv
<1>3. JobInv(j)'
  <2> USE DEF IInv, JobInv, ReconcileFails, Requeue, Done, Live, Exists
  <2>1. CopiesInv(j)'
    BY DEF CopiesInv, Follows, TypeOK, IdleRec
  <2>2. StepInv(j)'
    BY DEF StepInv, TypeOK, IdleRec
  <2>3. EndInv(j)'
    BY DEF EndInv, TypeOK, IdleRec
  <2>4. SyncInv(j)'
    BY DEF SyncInv, TypeOK
  <2>5. MailInv(j)'
    BY DEF MailInv, TypeOK
  <2> QED
    BY <2>1, <2>2, <2>3, <2>4, <2>5
<1> QED
  BY <1>1, <1>2, <1>3 DEF IInv

\* A delete request looks the job up.
LEMMA DeleteRequestKeeps ==
    ASSUME IInv, NEW j \in Jobs, DeleteRequest(j)
    PROVE  IInv'
<1> USE DEF History
<1>1. TypeOK'
  <2>1. [pc     |-> "row",
         record |-> ~Exists(cache[j]) \/ cache[j].phase \in Terminal,
         job    |-> Exists(cache[j])] \in Del
    BY DEF Del, Exists
  <2> QED
    BY <2>1 DEF IInv, TypeOK, DeleteRequest
<1>2. \A k \in Jobs : Same(k)
  BY DEF Same, DeleteRequest
<1> QED
  BY <1>1, <1>2, Untouched

\* A delete request writes the row: Deleted counts as synced and settled.
LEMMA DeleteRowKeeps ==
    ASSUME IInv, NEW j \in Jobs, DeleteRow(j)
    PROVE  IInv'
<1> USE DEF History
<1>0. Entries(j)
  BY DEF IInv, TypeOK, Entries
<1>1. TypeOK'
  <2>1. /\ [row[j] EXCEPT !.state = IF Live(j) THEN "soft" ELSE @] \in Row
        /\ [row[j] EXCEPT !.status = IF Live(j) THEN "Deleted" ELSE @] \in Row
    BY <1>0 DEF Entries, Row
  <2>2. [del[j] EXCEPT !.pc = "job"] \in Del
    BY <1>0 DEF Entries, Del
  <2>3. row' \in [Jobs -> Row]
    BY <2>1 DEF IInv, TypeOK, DeleteRow
  <2>4. del' \in [Jobs -> Del]
    BY <2>2, Constants DEF IInv, TypeOK, DeleteRow
  <2> QED
    BY <2>3, <2>4 DEF IInv, TypeOK, DeleteRow
<1>2. ASSUME NEW k \in Jobs, k # j PROVE JobInv(k)'
  <2>1. Same(k)
    BY <1>2 DEF IInv, TypeOK, Same, DeleteRow
  <2> QED
    BY <2>1, Frame DEF IInv
<1>3. JobInv(j)'
  <2> USE DEF IInv, JobInv, DeleteRow, Live, Exists
  <2>1. CopiesInv(j)'
    BY DEF CopiesInv, StepInv, Follows, TypeOK, Object, Row, Rec, Phases, Terminal, IdleRec
  <2>2. StepInv(j)'
    BY DEF StepInv, TypeOK, Row, Settled
  <2>3. EndInv(j)'
    BY DEF EndInv, StepInv, CopiesInv, Follows, TypeOK, Row, Terminal, IdleRec
  <2>4. SyncInv(j)'
    <3>1. /\ cache'[j] = cache[j] /\ dirty'[j] = dirty[j] /\ dropped'[j] = dropped[j] /\ rec'[j] = rec[j]
          /\ row'[j].profile = row[j].profile
          /\ row[j].state # "live" => row'[j].state = row[j].state
          /\ row[j].state = "live" => row'[j].state \in {"live", "soft"}
          /\ row'[j].status \in {row[j].status, "Deleted"}
      BY <1>0 DEF TypeOK, Entries, Row
    <3> QED
      BY <3>1 DEF SyncInv, SyncedTo, Settled
  <2>5. MailInv(j)'
    BY DEF MailInv, TypeOK
  <2> QED
    BY <2>1, <2>2, <2>3, <2>4, <2>5
<1> QED
  BY <1>1, <1>2, <1>3 DEF IInv

\* A delete request removes the job.
LEMMA DeleteJobKeeps ==
    ASSUME IInv, NEW j \in Jobs, DeleteJob(j)
    PROVE  IInv'
<1> USE DEF History
<1>0. Entries(j)
  BY DEF IInv, TypeOK, Entries
<1>1. TypeOK'
  <2>1. [cluster[j] EXCEPT !.phase = IF Exists(cluster[j]) THEN "gone" ELSE @] \in Object
    BY <1>0 DEF Entries, Object
  <2> QED
    BY <2>1, Constants DEF IInv, TypeOK, DeleteJob
<1> DEFINE o == [cluster[j] EXCEPT !.phase = IF Exists(cluster[j]) THEN "gone" ELSE @]
<1>2. o = cluster[j] \/ (Follows(o, cluster[j]) /\ o.phase # "absent")
  BY <1>0 DEF DeleteJob, Follows, Entries, Object, Terminal, Exists, Phases
<1> QED
  BY <1>1, <1>2, ClusterMoves DEF DeleteJob

\* A delete request gives up.
LEMMA DeleteFailsKeeps ==
    ASSUME IInv, NEW j \in Jobs, DeleteFails(j)
    PROVE  IInv'
<1> USE DEF History
<1>1. TypeOK'
  BY Constants DEF IInv, TypeOK, DeleteFails
<1>2. \A k \in Jobs : Same(k)
  BY DEF Same, DeleteFails
<1> QED
  BY <1>1, <1>2, Untouched

\* The alert switch concerns no other field.
LEMMA ToggleAlertStateKeeps ==
    ASSUME IInv, NEW j \in Jobs, ToggleAlertState(j)
    PROVE  IInv'
<1> USE DEF History
<1>0. Entries(j)
  BY DEF IInv, TypeOK, Entries
<1>1. TypeOK'
  <2>1. \A a \in BOOLEAN : [row[j] EXCEPT !.alert = a] \in Row
    BY <1>0, RowFields DEF Entries
  <2> QED
    BY <2>1 DEF IInv, TypeOK, ToggleAlertState
<1>2. ASSUME NEW k \in Jobs, k # j PROVE JobInv(k)'
  <2>1. Same(k)
    BY <1>2 DEF IInv, TypeOK, Same, ToggleAlertState
  <2> QED
    BY <2>1, Frame DEF IInv
<1>3. JobInv(j)'
  <2> USE DEF IInv, JobInv, ToggleAlertState, Live, Exists
  <2>1. CopiesInv(j)'
    BY DEF CopiesInv, TypeOK
  <2>2. StepInv(j)'
    BY DEF StepInv, TypeOK
  <2>3. EndInv(j)'
    BY DEF EndInv, TypeOK
  <2>4. SyncInv(j)'
    BY DEF SyncInv, SyncedTo, TypeOK
  <2>5. MailInv(j)'
    BY DEF MailInv, TypeOK
  <2> QED
    BY <2>1, <2>2, <2>3, <2>4, <2>5
<1> QED
  BY <1>1, <1>2, <1>3 DEF IInv

\* A cleaner lists a job.
LEMMA CleanerListKeeps ==
    ASSUME IInv, NEW j \in Jobs, CleanerList(j)
    PROVE  IInv'
<1> USE DEF History
<1>1. TypeOK'
  BY DEF IInv, TypeOK, CleanerList
<1>2. \A k \in Jobs : Same(k)
  BY DEF Same, CleanerList
<1> QED
  BY <1>1, <1>2, Untouched

\* A cleaner removes a job.
LEMMA CleanerFreeKeeps ==
    ASSUME IInv, NEW j \in Jobs, CleanerFree(j)
    PROVE  IInv'
<1> USE DEF History
<1>0. Entries(j)
  BY DEF IInv, TypeOK, Entries
<1>1. TypeOK'
  <2>1. [cluster[j] EXCEPT !.phase = IF Exists(cluster[j]) THEN "gone" ELSE @] \in Object
    BY <1>0 DEF Entries, Object
  <2> QED
    <3>1. cluster' \in [Jobs -> Object]
      BY <2>1 DEF IInv, TypeOK, CleanerFree
    <3>2. clean' \in [Jobs -> BOOLEAN]
      BY DEF IInv, TypeOK, CleanerFree
    <3> QED
      BY <3>1, <3>2 DEF IInv, TypeOK, CleanerFree
<1> DEFINE o == [cluster[j] EXCEPT !.phase = IF Exists(cluster[j]) THEN "gone" ELSE @]
<1>2. o = cluster[j] \/ (Follows(o, cluster[j]) /\ o.phase # "absent")
  BY <1>0 DEF Follows, Entries, Object, Exists, Phases, Terminal
<1>3. CASE cluster' = cluster
  <2>1. \A k \in Jobs : Same(k)
    BY <1>3 DEF CleanerFree, Same
  <2> QED
    BY <1>1, <2>1, Untouched
<1>4. CASE cluster' = [cluster EXCEPT ![j] = o]
  BY <1>1, <1>2, <1>4, ClusterMoves DEF CleanerFree
<1> QED
  BY <1>3, <1>4 DEF CleanerFree

\* A crash ends every call; the restarted informer raises the jobs that exist.
LEMMA CrashKeeps ==
    ASSUME IInv, Crash
    PROVE  IInv'
<1>1. TypeOK'
  <2>1. dirty' \in [Jobs -> BOOLEAN] /\ dropped' \in [Jobs -> BOOLEAN]
    BY DEF Crash, Exists
  <2>2. unlogged' \in [Jobs -> BOOLEAN]
    BY DEF IInv, TypeOK, Crash
  <2>3. rec' \in [Jobs -> Rec] /\ del' \in [Jobs -> Del] /\ clean' \in [Jobs -> BOOLEAN]
    BY Constants DEF Crash
  <2> QED
    BY <2>1, <2>2, <2>3 DEF IInv, TypeOK, Crash
<1>2. ASSUME NEW j \in Jobs PROVE JobInv(j)'
  <2>1. /\ cluster'[j] = cluster[j] /\ cache'[j] = cluster[j]
        /\ dirty'[j] = Exists(cluster[j]) /\ dropped'[j] = (cluster[j].phase = "gone")
        /\ row'[j] = row[j] /\ rec'[j].pc = "idle"
        /\ alerts'[j] = alerts[j] /\ emails'[j] = emails[j]
        /\ unlogged'[j] = (unlogged[j] \/ rec[j].pc = "record")
    BY <1>2, Constants DEF Crash
  <2>2. JobInv(j) /\ cluster[j] \in Object
    BY <1>2 DEF IInv, TypeOK
  <2>3. CopiesInv(j)'
    BY <2>1, <2>2 DEF JobInv, CopiesInv, Follows, Exists, Phases, Terminal
  <2>4. StepInv(j)'
    BY <2>1 DEF StepInv
  <2>5. EndInv(j)'
    BY <2>1, <2>2 DEF JobInv, EndInv, CopiesInv, Follows, Live
  <2>6. SyncInv(j)'
    BY <2>1, <2>2 DEF JobInv, SyncInv, SyncedTo, CopiesInv, Object, Exists, Live, Phases, Terminal
  <2>7. MailInv(j)'
    BY <2>1, <2>2 DEF JobInv, MailInv
  <2> QED
    BY <2>3, <2>4, <2>5, <2>6, <2>7 DEF JobInv
<1> QED
  BY <1>1, <1>2 DEF IInv

-----------------------------------------------------------------------------
\* No job has been submitted in the initial state.
LEMMA InitHolds == Init => IInv
<1> SUFFICES ASSUME Init PROVE IInv
  OBVIOUS
<1>1. TypeOK
  BY Constants DEF Init, TypeOK
<1>2. ASSUME NEW j \in Jobs PROVE JobInv(j)
  <2>1. /\ cluster[j] = NoObject /\ cache[j] = NoObject /\ row[j] = NoRow
        /\ ~dirty[j] /\ rec[j].pc = "idle" /\ \A t \in AlertType : emails[j][t] = 0
    BY <1>2, Constants DEF Init
  <2>2. NoObject.phase = "absent" /\ NoRow.state = "none"
    BY DEF NoObject, NoRow
  <2> QED
    BY <2>1, <2>2 DEF JobInv, CopiesInv, StepInv, EndInv, SyncInv, MailInv, SyncedTo, Follows,
                      Live, Exists, Phases, Terminal
<1> QED
  BY <1>1, <1>2 DEF IInv

\* Every step, of any actor, keeps the invariant.
LEMMA NextKeeps == IInv /\ [Next]_vars => IInv'
<1> SUFFICES ASSUME IInv, [Next]_vars PROVE IInv'
  OBVIOUS
<1>1. CASE Next
  <2>1. CASE Crash
    BY <2>1, CrashKeeps
  <2>2. ASSUME NEW j \in Jobs, JobStep(j) PROVE IInv'
    <3>1. CASE Environment(j)
      BY <3>1, SubmitJobKeeps, JobPendsKeeps, JobRunsKeeps, JobEndsKeeps, JobExpiresKeeps
         DEF Environment
    <3>2. CASE Reconcile(j) \/ ReconcileFails(j)
      BY <3>2, ReconcileGetKeeps, GoneReadKeeps, GoneWriteKeeps, FoundReadKeeps, CreateRowKeeps,
         SendAlertKeeps, RecordAlertKeeps, UpdateRowKeeps, ReconcileFailsKeeps DEF Reconcile
    <3>3. CASE DeleteRequest(j) \/ DeleteRow(j) \/ DeleteJob(j) \/ DeleteFails(j)
      BY <3>3, DeleteRequestKeeps, DeleteRowKeeps, DeleteJobKeeps, DeleteFailsKeeps
    <3>4. CASE Inform(j) \/ ToggleAlertState(j) \/ CleanerList(j) \/ CleanerFree(j)
      BY <3>4, InformKeeps, ToggleAlertStateKeeps, CleanerListKeeps, CleanerFreeKeeps
    <3> QED
      BY <2>2, <3>1, <3>2, <3>3, <3>4 DEF JobStep
  <2> QED
    BY <1>1, <2>1, <2>2 DEF Next
<1>2. CASE UNCHANGED vars
  <2>1. TypeOK'
    BY <1>2 DEF IInv, TypeOK, vars
  <2>2. ASSUME NEW j \in Jobs PROVE JobInv(j)'
    <3>1. Same(j)
      BY <1>2 DEF Same, vars
    <3> QED
      BY <2>2, <3>1, Frame DEF IInv
  <2> QED
    BY <2>1, <2>2 DEF IInv
<1> QED
  BY <1>1, <1>2

\* The inductive invariant holds in every behaviour of the reconciler, the
\* delete handler, the cleaners and the cluster.
THEOREM Invariance == Spec => []IInv
<1>1. Init => IInv
  BY InitHolds
<1>2. IInv /\ [Next]_vars => IInv'
  BY NextKeeps
<1> QED
  BY <1>1, <1>2, PTL DEF Spec

\* No interleaving leaves a stale row behind: when nothing is left to do for a
\* job (vcjob-reconciler.go:103) and no event was lost, its row is right.
THEOREM RowsSynced == Spec => []QuietMeansSynced
<1>1. IInv => QuietMeansSynced
  BY DEF IInv, JobInv, SyncInv, QuietMeansSynced, Quiet
<1> QED
  BY <1>1, Invariance, PTL

\* The alerts table keeps every email to one (alert.go:136), through any number
\* of failed writes and retried calls.
THEOREM OneEmail == Spec => []EmailOnce
<1>1. IInv => EmailOnce
  <2> SUFFICES ASSUME IInv, NEW j \in Jobs, NEW t \in AlertType, ~unlogged[j]
               PROVE  ~(emails[j][t] > 1)
    BY DEF EmailOnce, IInv, TypeOK
  <2>1. emails[j][t] \in 0..2 /\ emails[j][t] <= 1
    BY DEF IInv, TypeOK, JobInv, MailInv
  <2> QED
    BY <2>1
<1> QED
  BY <1>1, Invariance, PTL

\* A step leaves the rows alone, or is one of the five that write the row of
\* some job.
LEMMA RowWrites ==
    ASSUME [Next]_vars
    PROVE  \/ row' = row
           \/ \E j \in Jobs : \/ GoneWrite(j) \/ CreateRow(j) \/ UpdateRow(j)
                             \/ DeleteRow(j) \/ ToggleAlertState(j)
BY DEF Next, JobStep, vars, Environment, Reconcile, SubmitJob, JobPends, JobRuns, JobEnds, JobExpires,
       ClusterStep, Inform, ReconcileGet, GoneRead, FoundRead, SendAlert, RecordAlert,
       ReconcileFails, Requeue, DeleteRequest, DeleteJob, DeleteFails, CleanerList, CleanerFree,
       Crash

\* An end that a row shows is never overwritten by an older phase nor by Freed
\* (vcjob-reconciler.go:129): only the user's delete request changes it.
THEOREM EndsAreFinal == Spec => TerminalFinal
<1>1. ASSUME IInv, [Next]_vars, NEW j \in Jobs, Live(j), row[j].status \in Terminal
      PROVE  row'[j].status \in {row[j].status, "Deleted"}
  <2>1. row[j] \in Row /\ JobInv(j) /\ row \in [Jobs -> Row]
    BY <1>1 DEF IInv, TypeOK
  <2>2. CASE row' = row
    BY <2>2
  <2>3. ASSUME NEW k \in Jobs, GoneWrite(k) PROVE row'[j].status = row[j].status
    <3>1. CASE k = j
      <4>1. rec[j].old.status \in Settled
        BY <1>1, <2>1, <2>3, <3>1 DEF JobInv, EndInv, GoneWrite
      <4>2. row'[j] = [row[j] EXCEPT !.profile = TRUE]
        BY <1>1, <2>1, <2>3, <3>1, <4>1 DEF GoneWrite, SettledRow, Live
      <4> QED
        BY <2>1, <4>2 DEF Row
    <3>2. CASE k # j
      BY <2>1, <2>3, <3>2 DEF GoneWrite
    <3> QED
      BY <3>1, <3>2
  <2>4. ASSUME NEW k \in Jobs, CreateRow(k) PROVE row'[j].status = row[j].status
    <3>1. CASE k = j
      BY <1>1, <2>1, <2>4, <3>1 DEF CreateRow, Live
    <3>2. CASE k # j
      BY <2>1, <2>4, <3>2 DEF CreateRow
    <3> QED
      BY <3>1, <3>2
  <2>5. ASSUME NEW k \in Jobs, UpdateRow(k) PROVE row'[j].status = row[j].status
    <3>1. CASE k = j
      <4>1. rec[j].job.phase = row[j].status
        BY <1>1, <2>1, <2>5, <3>1 DEF JobInv, EndInv, StepInv, UpdateRow, Exists, Phases, Terminal
      <4>2. PICK c \in BOOLEAN : row'[j] = UpdatedRow(row[j], rec[j].job, rec[j].old, c)
        BY <1>1, <2>1, <2>5, <3>1 DEF UpdateRow
      <4> QED
        BY <2>1, <4>1, <4>2 DEF UpdatedRow, Row
    <3>2. CASE k # j
      BY <2>1, <2>5, <3>2 DEF UpdateRow
    <3> QED
      BY <3>1, <3>2
  <2>6. ASSUME NEW k \in Jobs, DeleteRow(k) PROVE row'[j].status \in {row[j].status, "Deleted"}
    BY <1>1, <2>1, <2>6 DEF DeleteRow, Row
  <2>7. ASSUME NEW k \in Jobs, ToggleAlertState(k) PROVE row'[j].status = row[j].status
    BY <2>1, <2>7 DEF ToggleAlertState, Row
  <2> QED
    BY <1>1, <2>2, <2>3, <2>4, <2>5, <2>6, <2>7, RowWrites
<1>2. IInv /\ [Next]_vars => [\A j \in Jobs : Live(j) /\ row[j].status \in Terminal =>
                               row'[j].status \in {row[j].status, "Deleted"}]_vars
  BY <1>1
<1> QED
  BY <1>2, Invariance, PTL DEF Spec, TerminalFinal

\* A deleted row stays deleted (vcjob-reconciler.go:193): the unique index
\* refuses the insert for a job that lingers in the cluster.
THEOREM DeletedRowsStay == Spec => NoResurrection
<1>1. ASSUME IInv, [Next]_vars, NEW j \in Jobs, row[j].state = "soft"
      PROVE  row'[j].state = "soft"
  <2>1. row[j] \in Row /\ row \in [Jobs -> Row]
    BY <1>1 DEF IInv, TypeOK
  <2>2. CASE row' = row
    BY <1>1, <2>2
  <2>3. ASSUME NEW k \in Jobs, GoneWrite(k) PROVE row'[j].state = "soft"
    BY <1>1, <2>1, <2>3 DEF GoneWrite, SettledRow
  <2>4. ASSUME NEW k \in Jobs, CreateRow(k) PROVE row'[j].state = "soft"
    <3>1. CASE k = j
      BY <1>1, <2>4, <3>1 DEF CreateRow
    <3>2. CASE k # j
      BY <1>1, <2>1, <2>4, <3>2 DEF CreateRow
    <3> QED
      BY <3>1, <3>2
  <2>5. ASSUME NEW k \in Jobs, UpdateRow(k) PROVE row'[j].state = "soft"
    BY <1>1, <2>1, <2>5 DEF UpdateRow, Live
  <2>6. ASSUME NEW k \in Jobs, DeleteRow(k) PROVE row'[j].state = "soft"
    BY <1>1, <2>1, <2>6 DEF DeleteRow, Live, Row
  <2>7. ASSUME NEW k \in Jobs, ToggleAlertState(k) PROVE row'[j].state = "soft"
    BY <1>1, <2>1, <2>7 DEF ToggleAlertState, Row
  <2> QED
    BY <1>1, <2>2, <2>3, <2>4, <2>5, <2>6, <2>7, RowWrites
<1>2. IInv /\ [Next]_vars => [\A j \in Jobs : row[j].state = "soft" => row'[j].state = "soft"]_vars
  BY <1>1
<1> QED
  BY <1>2, Invariance, PTL DEF Spec, NoResurrection

=============================================================================
