--------------------------- MODULE ExposureProofs ---------------------------
(***************************************************************************)
(* Services and ingresses of a job, for every number of pods, ports,       *)
(* requests at one time and failing calls: the inductive invariant keeps   *)
(* who makes and who deletes the half of a rule that is missing, so that   *)
(* every rule is whole when no request is in progress and no call failed.  *)
(* A step of the cluster, of a request that finds its rule, and of one     *)
(* that makes or deletes half of a rule each has its lemma.                *)
(***************************************************************************)
EXTENDS Exposure, FiniteSetTheorems, TLAPS

\* The shapes of requests.
LEMMA CallShapes ==
    /\ AtRest \notin Call /\ AtRest.pc = "idle" /\ TheJob \notin Pods
    /\ \A c \in Call : /\ c.pc \in {"service", "ingress", "lookup", "unserve", "unroute", "ssh", "annotate"}
                       /\ c.pc = "service" => c.todo \in Seq(Ports) \ {<<>>} /\ c.owner \in Owners
                       /\ c.pc = "ingress" => c.todo \in Seq(Ports) /\ c.owner \in Owners /\ c.made \in RuleIds
                       /\ c.pc \in {"lookup", "unserve", "unroute"} => c.found \in RuleIds
                       /\ c.pc = "ssh" => c.ofPod \in Pods
                       /\ c.pc = "annotate" => c.ofPod \in Pods /\ c.made \in RuleIds
  <1>1. AtRest.pc = "idle"
    BY DEF AtRest
  <1>2. ASSUME NEW c \in Call
        PROVE  /\ c.pc \in {"service", "ingress", "lookup", "unserve", "unroute", "ssh", "annotate"}
               /\ c.pc = "service" => c.todo \in Seq(Ports) \ {<<>>} /\ c.owner \in Owners
               /\ c.pc = "ingress" => c.todo \in Seq(Ports) /\ c.owner \in Owners /\ c.made \in RuleIds
               /\ c.pc \in {"lookup", "unserve", "unroute"} => c.found \in RuleIds
               /\ c.pc = "ssh" => c.ofPod \in Pods
               /\ c.pc = "annotate" => c.ofPod \in Pods /\ c.made \in RuleIds
    <2>1. CASE c \in [pc : {"service"}, todo : Seq(Ports) \ {<<>>}, owner : Owners]
      BY <2>1
    <2>2. CASE c \in [pc : {"ingress"}, todo : Seq(Ports), owner : Owners, made : RuleIds]
      BY <2>2
    <2>3. CASE c \in [pc : {"lookup", "unserve", "unroute"}, found : RuleIds]
      BY <2>3
    <2>4. CASE c \in [pc : {"ssh"}, ofPod : Pods]
      BY <2>4
    <2>5. CASE c \in [pc : {"annotate"}, ofPod : Pods, made : RuleIds]
      BY <2>5
    <2> QED
      BY <1>2, <2>1, <2>2, <2>3, <2>4, <2>5 DEF Call
  <1> QED
    BY <1>1, <1>2, ExposureAssumption DEF TheJob

\* The requests that the steps make are requests.
LEMMA NewCalls ==
    /\ \A todo \in Seq(Ports) \ {<<>>}, o \in Owners : [pc |-> "service", todo |-> todo, owner |-> o] \in Call
    /\ \A todo \in Seq(Ports), o \in Owners, r \in RuleIds :
          [pc |-> "ingress", todo |-> todo, owner |-> o, made |-> r] \in Call
    /\ \A pc \in {"lookup", "unserve", "unroute"}, r \in RuleIds : [pc |-> pc, found |-> r] \in Call
    /\ \A p \in Pods : [pc |-> "ssh", ofPod |-> p] \in Call
    /\ \A p \in Pods, r \in RuleIds : [pc |-> "annotate", ofPod |-> p, made |-> r] \in Call
  BY DEF Call

\* A rule with one of its halves changed is a rule.
LEMMA RuleShapes ==
    /\ \A r \in Rule : /\ r.svc \in {"none", "ClusterIP", "NodePort", "deleted"} /\ r.ing \in BOOLEAN
                       /\ r.port \in Ports /\ r.owner \in Owners /\ r.opened \in Owners
    /\ \A type \in {"ClusterIP", "NodePort"}, k \in Ports, o, p \in Owners :
          [svc |-> type, ing |-> FALSE, port |-> k, owner |-> o, opened |-> p] \in Rule
    /\ \A r \in Rule, svc \in {"none", "ClusterIP", "NodePort", "deleted"} :
          /\ [r EXCEPT !.svc = svc] \in Rule
          /\ [r EXCEPT !.svc = svc].svc = svc /\ [r EXCEPT !.svc = svc].ing = r.ing
          /\ [r EXCEPT !.svc = svc].owner = r.owner /\ [r EXCEPT !.svc = svc].opened = r.opened
    /\ \A r \in Rule, ing \in BOOLEAN :
          /\ [r EXCEPT !.ing = ing] \in Rule
          /\ [r EXCEPT !.ing = ing].svc = r.svc /\ [r EXCEPT !.ing = ing].ing = ing
          /\ [r EXCEPT !.ing = ing].owner = r.owner /\ [r EXCEPT !.ing = ing].opened = r.opened
  BY DEF Rule

\* What owns rules, and a rule that is not made yet.
LEMMA PodsAndJob == Pods \subseteq Owners /\ TheJob \in Owners /\ NoRule \notin RuleIds /\ Unmade \in Rule
                    /\ Unmade.svc = "none" /\ Unmade.ing = FALSE
  BY ExposureAssumption DEF Owners, NoRule, RuleIds, Unmade, Rule

\* A request is at rest or in one of its calls, with a rule and a pod of theirs.
LEMMA ClientCalls ==
    ASSUME ExposureTypeOK
    PROVE  /\ \A c \in Clients : client[c] = AtRest \/ client[c] \in Call
           /\ \A c \in Clients : client[c].pc # "idle" => client[c] \in Call
           /\ \A r \in RuleIds : rule[r] \in Rule
  <1>1. \A c \in Clients : client[c] = AtRest \/ client[c] \in Call
    BY DEF ExposureTypeOK
  <1> QED
    BY <1>1, CallShapes DEF ExposureTypeOK

-----------------------------------------------------------------------------
\* The steps of the cluster and of one request, kept apart.
ClusterStep == DeleteWorkload \/ \E p \in Pods : StartPod(p) \/ RunPod(p) \/ LosePod(p)

\* What a step of the cluster leaves of what owns rules and of the pods.
LEMMA ClusterKeeps ==
    ASSUME ExposureTypeOK, OwnersBegun, ClusterStep
    PROVE  /\ UNCHANGED <<sshRule, rule, client, slips, crowded, seen>>
           /\ workload' \in {"none", "live", "gone"}
           /\ pod' \in [Pods -> {"none", "pending", "running", "gone"}]
           /\ workload # "none" => workload' # "none"
           /\ workload = "gone" => workload' = "gone"
           /\ \A p \in Pods : /\ pod[p] # "none" => pod'[p] # "none"
                              /\ pod[p] = "gone" => pod'[p] = "gone"
                              /\ pod'[p] # "none" => pod[p] # "none" \/ workload # "none"
  <1>1. CASE DeleteWorkload
    BY <1>1 DEF DeleteWorkload, ExposureTypeOK, Exists
  <1>2. ASSUME NEW p \in Pods, StartPod(p) \/ RunPod(p) \/ LosePod(p)
        PROVE  /\ UNCHANGED <<sshRule, rule, client, slips, crowded, seen, workload>>
               /\ pod' \in [Pods -> {"none", "pending", "running", "gone"}]
               /\ \A q \in Pods : /\ pod[q] # "none" => pod'[q] # "none"
                                  /\ pod[q] = "gone" => pod'[q] = "gone"
                                  /\ pod'[q] # "none" => pod[q] # "none" \/ workload # "none"
    BY <1>2 DEF StartPod, RunPod, LosePod, ExposureTypeOK, Exists
  <1> QED
    BY <1>1, <1>2 DEF ClusterStep, ExposureTypeOK

\* A step of the cluster keeps the invariant: what owns a rule stays gone.
LEMMA ClusterInv ==
    ASSUME ExposureInv, ClusterStep
    PROVE  ExposureInv'
  <1>0. /\ ExposureTypeOK /\ OwnersBegun /\ KindsApart /\ OneMaker /\ HalvesAreInHand
        /\ OpenersMeet /\ OpenedByAnnotation
    BY DEF ExposureInv
  <1>1. /\ UNCHANGED <<sshRule, rule, client, slips, crowded, seen>>
        /\ workload' \in {"none", "live", "gone"}
        /\ pod' \in [Pods -> {"none", "pending", "running", "gone"}]
        /\ workload # "none" => workload' # "none"
        /\ workload = "gone" => workload' = "gone"
        /\ \A p \in Pods : /\ pod[p] # "none" => pod'[p] # "none"
                           /\ pod[p] = "gone" => pod'[p] = "gone"
                           /\ pod'[p] # "none" => pod[p] # "none" \/ workload # "none"
    BY <1>0, ClusterKeeps
  <1>2. ExposureTypeOK'
    BY <1>0, <1>1 DEF ExposureTypeOK
  <1>3. \A o \in Owners : Begun(o) => Begun(o)'
    BY <1>1 DEF Begun, Owners
  <1>4. \A r \in RuleIds : rule[r].owner \in Owners
    BY <1>0, ClientCalls, RuleShapes
  <1>5. \A r \in RuleIds : OwnerGone(r) /\ rule[r].svc # "none" => OwnerGone(r)'
    <2> SUFFICES ASSUME NEW r \in RuleIds, OwnerGone(r), rule[r].svc # "none" PROVE OwnerGone(r)'
      OBVIOUS
    <2>1. Begun(rule[r].owner)
      BY <1>0 DEF OwnersBegun
    <2>2. CASE rule[r].owner = TheJob
      BY <1>1, <2>2 DEF OwnerGone
    <2>3. CASE rule[r].owner # TheJob
      <3>1. rule[r].owner \in Pods /\ pod[rule[r].owner] = "gone"
        BY <1>0, <1>4, <2>1, <2>3 DEF OwnerGone, Begun, Exists, Owners, ExposureTypeOK
      <3> QED
        BY <1>1, <2>3, <3>1 DEF OwnerGone, Exists
    <2> QED
      BY <2>2, <2>3
  <1>6. OwnersBegun'
    <2>1. \A c \in Clients : client[c].pc \in {"service", "ingress"} => client[c].owner \in Owners
      BY <1>0, ClientCalls, CallShapes
    <2>2. \A p \in Pods : pod'[p] # "none" => workload' # "none"
      BY <1>0, <1>1 DEF OwnersBegun
    <2>3. \A r \in RuleIds : rule'[r].svc # "none" => Begun(rule[r].owner)'
      BY <1>0, <1>1, <1>3, <1>4 DEF OwnersBegun
    <2>4. \A c \in Clients : client'[c].pc \in {"service", "ingress"} => Begun(client[c].owner)'
      BY <1>0, <1>1, <1>3, <2>1 DEF OwnersBegun
    <2>5. \A c \in Clients, p \in Pods : Opens(c, p)' => pod'[p] # "none"
      BY <1>0, <1>1 DEF OwnersBegun, Opens
    <2> QED
      BY <2>2, <2>3, <2>4, <2>5 DEF OwnersBegun
  <1>7. KindsApart'
    BY <1>0, <1>1 DEF KindsApart, Makes, Finds
  <1>8. OneMaker'
    <2>1. \A c \in Clients, r \in RuleIds : Makes(c, r) => rule[r].svc # "none"
      BY <1>0 DEF KindsApart
    <2> QED
      BY <1>0, <1>1, <1>5, <2>1 DEF OneMaker, Makes, Deletes
  <1>9. HalvesAreInHand'
    <2>1. \A r \in RuleIds : rule[r].svc \in {"ClusterIP", "deleted"} /\ ~OwnerGone(r)' => ~OwnerGone(r)
      BY <1>5
    <2> QED
      BY <1>0, <1>1, <2>1 DEF HalvesAreInHand, NothingFailed, Makes
  <1>10. OpenersMeet'
    BY <1>0, <1>1 DEF OpenersMeet, Opens
  <1>11. OpenedByAnnotation'
    BY <1>0, <1>1 DEF OpenedByAnnotation, NothingFailed, SSHRules
  <1> QED
    BY <1>2, <1>6, <1>7, <1>8, <1>9, <1>10, <1>11 DEF ExposureInv

\* A request goes on, and changes neither rules nor pods: at rest after a call that
\* failed, or with a rule's making or deletion begun.
LEMMA RequestStep ==
    ASSUME ExposureInv, NEW c \in Clients, NEW new \in {AtRest} \cup Call,
           client' = [client EXCEPT ![c] = new], UNCHANGED <<pod, rule, sshRule, crowded, seen>>,
           workload' = workload \/ (workload = "none" /\ workload' = "live"),
           \/ slips > 0 /\ slips' = slips - 1 /\ new = AtRest
           \/ /\ slips' = slips
              /\ client[c].pc \in {"idle", "lookup"}
              /\ \/ new = AtRest
                 \/ new.pc = "service" /\ Begun(new.owner)'
                 \/ new.pc = "lookup" /\ rule[new.found].svc = "ClusterIP"
                 \/ new.pc = "unserve" /\ client[c].pc = "lookup" /\ new.found = client[c].found
                       /\ rule[new.found].ing
    PROVE  ExposureInv'
  <1>0. /\ ExposureTypeOK /\ OwnersBegun /\ KindsApart /\ OneMaker /\ HalvesAreInHand
        /\ OpenersMeet /\ OpenedByAnnotation
    BY DEF ExposureInv
  <1>1. /\ client'[c] = new /\ (\A d \in Clients \ {c} : client'[d] = client[d])
        /\ client' \in [Clients -> {AtRest} \cup Call]
    BY <1>0 DEF ExposureTypeOK
  <1>2. AtRest.pc = "idle" /\ (new.pc = "idle" \/ new \in Call) /\ slips' \in 0..MaxSlips
    BY <1>0, CallShapes, ExposureAssumption DEF ExposureTypeOK
  <1>3. ExposureTypeOK'
    BY <1>0, <1>1, <1>2 DEF ExposureTypeOK
  <1>4. new.pc \in {"idle", "service", "lookup", "unserve"}
    BY <1>2
  <1>5. NothingFailed' => NothingFailed /\ slips' = slips
    BY <1>0, ExposureAssumption DEF NothingFailed, ExposureTypeOK
  <1>6. \A r \in RuleIds : OwnerGone(r)' => OwnerGone(r)
    BY DEF OwnerGone, Exists
  <1>7. \A r \in RuleIds : OwnerGone(r) => OwnerGone(r)'
    BY DEF OwnerGone, Exists
  <1>8. \A o : Begun(o) => Begun(o)'
    BY DEF Begun
  <1>9. OwnersBegun'
    <2>1. \A p \in Pods : pod'[p] # "none" => workload' # "none"
      BY <1>0 DEF OwnersBegun
    <2>2. \A r \in RuleIds : rule'[r].svc # "none" => Begun(rule[r].owner)'
      BY <1>0, <1>8 DEF OwnersBegun
    <2>3. ASSUME NEW d \in Clients, client'[d].pc \in {"service", "ingress"} PROVE Begun(client[d].owner)'
      <3>1. CASE d = c
        <4>1. Begun(new.owner)'
          BY <1>1, <1>2, <2>3, <3>1
        <4> QED
          BY <1>1, <3>1, <4>1 DEF Begun
      <3>2. CASE d # c
        <4>1. Begun(client[d].owner) /\ client'[d] = client[d]
          BY <1>0, <1>1, <2>3, <3>2 DEF OwnersBegun
        <4> QED
          BY <4>1, <1>8 DEF Begun
      <3> QED
        BY <3>1, <3>2
    <2>4. \A d \in Clients, p \in Pods : Opens(d, p)' => pod'[p] # "none"
      BY <1>0, <1>1, <1>4 DEF OwnersBegun, Opens
    <2> QED
      BY <2>1, <2>2, <2>3, <2>4 DEF OwnersBegun
  <1>10. \A d \in Clients, r \in RuleIds : Makes(d, r)' => Makes(d, r) /\ d # c
    BY <1>1, <1>4 DEF Makes
  <1>11. \A d \in Clients, r \in RuleIds :
            Deletes(d, r)' => Deletes(d, r) \/ (d = c /\ rule[r].ing)
    BY <1>1, <1>2, <1>4 DEF Deletes
  <1>12. KindsApart'
    <2>1. \A d \in Clients, r \in RuleIds : Finds(d, r)' => Finds(d, r) \/ rule[r].svc = "ClusterIP"
      BY <1>1, <1>2, <1>4 DEF Finds
    <2>2. \A d \in Clients : client'[d].pc = "unroute" => client'[d] = client[d]
      BY <1>1, <1>4
    <2>3. \A d \in Clients, r \in RuleIds :
             Makes(d, r)' \/ Finds(d, r)' => rule[r].svc \in {"ClusterIP", "deleted"}
      BY <1>0, <1>10, <2>1 DEF KindsApart
    <2> QED
      BY <1>0, <2>2, <2>3 DEF KindsApart
  <1>13. OneMaker'
    <2> SUFFICES ASSUME NEW d \in Clients, NEW r \in RuleIds, Makes(d, r)'
                 PROVE  /\ ~rule[r].ing /\ (rule[r].svc = "ClusterIP" \/ OwnerGone(r)')
                        /\ \A e \in Clients \ {d} : ~Makes(e, r)' /\ ~Deletes(e, r)'
      BY DEF OneMaker
    <2> QED
      BY <1>0, <1>7, <1>10, <1>11 DEF OneMaker
  <1>14. HalvesAreInHand'
    <2> SUFFICES ASSUME NothingFailed', NEW r \in RuleIds, ~OwnerGone(r)'
                 PROVE  /\ rule[r].svc = "ClusterIP" /\ ~rule[r].ing => \E d \in Clients : Makes(d, r)'
                        /\ rule[r].svc = "deleted" /\ rule[r].ing =>
                              \E d \in Clients : client'[d].pc = "unroute" /\ client'[d].found = r
      BY DEF HalvesAreInHand
    <2>1. client[c].pc \in {"idle", "lookup"} /\ NothingFailed
      BY <1>0, <1>5, ExposureAssumption DEF ExposureTypeOK
    <2>2. \A d \in Clients : client[d].pc \in {"ingress", "unroute"} => client'[d] = client[d]
      BY <1>1, <2>1
    <2> QED
      BY <1>0, <1>7, <2>1, <2>2 DEF HalvesAreInHand, Makes
  <1>15. OpenersMeet'
    <2>1. \A d \in Clients, p \in Pods : Opens(d, p)' => Opens(d, p)
      BY <1>1, <1>4 DEF Opens
    <2> QED
      BY <1>0, <2>1 DEF OpenersMeet
  <1>16. OpenedByAnnotation'
    <2> SUFFICES ASSUME NothingFailed', NEW p \in Pods \ crowded
                 PROVE  /\ \A d \in Clients : client'[d].pc = "ssh" /\ client'[d].ofPod = p => SSHRules(p) = {}
                        /\ /\ pod[p] # "gone" /\ sshRule[p] = NoRule
                           /\ \A d \in Clients : ~(client'[d].pc = "annotate" /\ client'[d].ofPod = p)
                           => SSHRules(p) = {}
                        /\ \A q, r \in SSHRules(p) : q = r
      BY DEF OpenedByAnnotation, SSHRules
    <2>1. client[c].pc \in {"idle", "lookup"} /\ NothingFailed
      BY <1>0, <1>5, ExposureAssumption DEF ExposureTypeOK
    <2>2. \A d \in Clients : client'[d].pc \in {"ssh", "annotate"} \/ client[d].pc \in {"ssh", "annotate"}
             => client'[d] = client[d]
      BY <1>1, <1>4, <2>1
    <2> QED
      BY <1>0, <2>1, <2>2 DEF OpenedByAnnotation
  <1> QED
    BY <1>3, <1>9, <1>12, <1>13, <1>14, <1>15, <1>16 DEF ExposureInv

\* A rule that has lost its owner loses a half, and a node port is deleted.
LEMMA CollectStep ==
    ASSUME ExposureInv, NEW i \in RuleIds,
           \/ CollectService(i) \/ CollectIngress(i)
           \/ \E c \in Clients, p \in Pods, k \in Ports : DeletePodNodeport(c, p, k, i)
    PROVE  ExposureInv'
  <1>0. /\ ExposureTypeOK /\ OwnersBegun /\ KindsApart /\ OneMaker /\ HalvesAreInHand
        /\ OpenersMeet /\ OpenedByAnnotation
    BY DEF ExposureInv
  <1>1. /\ UNCHANGED <<workload, pod, sshRule, client, slips, crowded, seen>>
        /\ \/ /\ rule' = [rule EXCEPT ![i].svc = "deleted"]
              /\ rule[i].svc = "NodePort" \/ (rule[i].svc = "ClusterIP" /\ OwnerGone(i))
           \/ rule' = [rule EXCEPT ![i].ing = FALSE] /\ OwnerGone(i)
    BY DEF CollectService, CollectIngress, DeletePodNodeport
  <1>2. rule[i] \in Rule /\ rule \in [RuleIds -> Rule]
    BY <1>0 DEF ExposureTypeOK
  <1>3. PICK new \in Rule :
           /\ rule' = [rule EXCEPT ![i] = new] /\ new.owner = rule[i].owner /\ new.opened = rule[i].opened
           /\ \/ /\ new.svc = "deleted" /\ new.ing = rule[i].ing
                 /\ rule[i].svc = "NodePort" \/ (rule[i].svc = "ClusterIP" /\ OwnerGone(i))
              \/ new.svc = rule[i].svc /\ new.ing = FALSE /\ OwnerGone(i)
    <2>1. CASE /\ rule' = [rule EXCEPT ![i].svc = "deleted"]
               /\ rule[i].svc = "NodePort" \/ (rule[i].svc = "ClusterIP" /\ OwnerGone(i))
      <3> DEFINE made == [rule[i] EXCEPT !.svc = "deleted"]
      <3>1. rule' = [rule EXCEPT ![i] = made]
        BY <1>2, <2>1
      <3>2. /\ made \in Rule /\ made.owner = rule[i].owner /\ made.opened = rule[i].opened
            /\ made.svc = "deleted" /\ made.ing = rule[i].ing
        BY <1>2, RuleShapes
      <3> HIDE DEF made
      <3> QED
        BY <2>1, <3>1, <3>2
    <2>2. CASE rule' = [rule EXCEPT ![i].ing = FALSE] /\ OwnerGone(i)
      <3> DEFINE made == [rule[i] EXCEPT !.ing = FALSE]
      <3>1. rule' = [rule EXCEPT ![i] = made]
        BY <1>2, <2>2
      <3>2. /\ made \in Rule /\ made.owner = rule[i].owner /\ made.opened = rule[i].opened
            /\ made.svc = rule[i].svc /\ made.ing = FALSE
        BY <1>2, RuleShapes
      <3> HIDE DEF made
      <3> QED
        BY <2>2, <3>1, <3>2
    <2> QED
      BY <1>1, <2>1, <2>2
  <1>4. rule'[i] = new /\ (\A r \in RuleIds \ {i} : rule'[r] = rule[r]) /\ rule' \in [RuleIds -> Rule]
    BY <1>2, <1>3
  <1>5. \A r \in RuleIds : /\ rule'[r].owner = rule[r].owner /\ rule'[r].opened = rule[r].opened
                           /\ OwnerGone(r)' <=> OwnerGone(r)
    <2>1. \A r \in RuleIds : rule'[r].owner = rule[r].owner /\ rule'[r].opened = rule[r].opened
      BY <1>3, <1>4
    <2> QED
      BY <1>1, <2>1 DEF OwnerGone, Exists
  <1>6. ExposureTypeOK'
    BY <1>0, <1>1, <1>4 DEF ExposureTypeOK
  <1>7. rule[i].svc # "none" \/ new.svc = "none"
    BY <1>3
  <1>8. OwnersBegun'
    <2>1. \A o : Begun(o) => Begun(o)'
      BY <1>1 DEF Begun
    <2>2. \A r \in RuleIds : rule'[r].svc # "none" => Begun(rule[r].owner)
      BY <1>0, <1>4, <1>7 DEF OwnersBegun
    <2>3. \A r \in RuleIds : rule'[r].svc # "none" => Begun(rule'[r].owner)
      BY <1>5, <2>2
    <2> QED
      BY <1>0, <1>1, <2>3 DEF OwnersBegun, Begun, Opens
  <1>9. KindsApart'
    <2>1. rule[i].svc \in {"ClusterIP", "deleted"} => new.svc \in {"ClusterIP", "deleted"}
      BY <1>3
    <2>2. new.ing => rule[i].ing
      BY <1>3
    <2>3. rule[i].svc = "deleted" => new.svc = "deleted"
      BY <1>3
    <2> QED
      BY <1>0, <1>1, <1>4, <2>1, <2>2, <2>3 DEF KindsApart, Makes, Finds
  <1>10. OneMaker'
    <2> SUFFICES ASSUME NEW d \in Clients, NEW r \in RuleIds, Makes(d, r)
                 PROVE  /\ ~rule'[r].ing /\ (rule'[r].svc = "ClusterIP" \/ OwnerGone(r)')
                        /\ \A e \in Clients \ {d} : ~Makes(e, r)' /\ ~Deletes(e, r)'
      BY <1>1 DEF OneMaker, Makes
    <2>1. /\ ~rule[r].ing /\ (rule[r].svc = "ClusterIP" \/ OwnerGone(r))
          /\ \A e \in Clients \ {d} : ~Makes(e, r) /\ ~Deletes(e, r)
      BY <1>0 DEF OneMaker
    <2>2. rule[r].svc # "NodePort"
      BY <1>0 DEF KindsApart
    <2>3. ~rule'[r].ing /\ (rule'[r].svc = "ClusterIP" \/ OwnerGone(r)')
      BY <1>3, <1>4, <1>5, <2>1, <2>2
    <2> QED
      BY <1>1, <2>1, <2>3 DEF Makes, Deletes
  <1>11. HalvesAreInHand'
    <2> SUFFICES ASSUME NothingFailed, NEW r \in RuleIds, ~OwnerGone(r)
                 PROVE  /\ rule'[r].svc = "ClusterIP" /\ ~rule'[r].ing => \E d \in Clients : Makes(d, r)
                        /\ rule'[r].svc = "deleted" /\ rule'[r].ing =>
                              \E d \in Clients : client[d].pc = "unroute" /\ client[d].found = r
      BY <1>1, <1>5 DEF HalvesAreInHand, NothingFailed, Makes
    <2>1. CASE r # i
      BY <1>0, <1>4, <2>1 DEF HalvesAreInHand
    <2>2. CASE r = i
      <3>1. rule[i].svc = "NodePort" /\ new.svc = "deleted" /\ new.ing = rule[i].ing
        BY <1>3, <2>2
      <3>2. ~rule[i].ing
        BY <1>0, <3>1 DEF KindsApart
      <3> QED
        BY <1>4, <2>2, <3>1, <3>2
    <2> QED
      BY <2>1, <2>2
  <1>12. OpenersMeet'
    BY <1>0, <1>1 DEF OpenersMeet, Opens
  <1>13. OpenedByAnnotation'
    <2>1. \A p \in Pods : SSHRules(p)' \subseteq SSHRules(p)
      BY <1>3, <1>4, <1>5 DEF SSHRules
    <2>2. ASSUME NothingFailed', NEW p \in Pods \ crowded
          PROVE  /\ \A d \in Clients : client[d].pc = "ssh" /\ client[d].ofPod = p => SSHRules(p) = {}
                 /\ /\ pod[p] # "gone" /\ sshRule[p] = NoRule
                    /\ \A d \in Clients : ~(client[d].pc = "annotate" /\ client[d].ofPod = p)
                    => SSHRules(p) = {}
                 /\ \A q, r \in SSHRules(p) : q = r
      BY <1>0, <1>1, <2>2 DEF OpenedByAnnotation, NothingFailed
    <2> QED
      BY <1>1, <2>1, <2>2 DEF OpenedByAnnotation
  <1> QED
    BY <1>6, <1>8, <1>9, <1>10, <1>11, <1>12, <1>13 DEF ExposureInv

\* What a step of a request leaves alone besides the rules and the requests.
Kept == UNCHANGED <<workload, pod, sshRule, slips, crowded, seen>>

\* One rule and one request change.
LEMMA RuleAndCall ==
    ASSUME ExposureTypeOK, NEW c \in Clients, NEW new \in {AtRest} \cup Call, NEW i \in RuleIds,
           NEW row \in Rule, client' = [client EXCEPT ![c] = new], rule' = [rule EXCEPT ![i] = row], Kept
    PROVE  /\ client'[c] = new /\ \A d \in Clients \ {c} : client'[d] = client[d]
           /\ rule'[i] = row /\ \A r \in RuleIds \ {i} : rule'[r] = rule[r]
           /\ ExposureTypeOK'
  <1>1. /\ client'[c] = new /\ \A d \in Clients \ {c} : client'[d] = client[d]
        /\ client' \in [Clients -> {AtRest} \cup Call]
    BY DEF ExposureTypeOK
  <1>2. /\ rule'[i] = row /\ \A r \in RuleIds \ {i} : rule'[r] = rule[r]
        /\ rule' \in [RuleIds -> Rule]
    BY DEF ExposureTypeOK
  <1> QED
    BY <1>1, <1>2 DEF ExposureTypeOK, Kept

\* A rule that is not used is in no request.
LEMMA UnusedIsFree ==
    ASSUME ExposureInv, NEW i \in RuleIds, rule[i].svc = "none"
    PROVE  /\ \A c \in Clients : ~Makes(c, i) /\ ~Finds(c, i) /\ ~Deletes(c, i)
           /\ ~rule[i].ing
  <1>1. \A c \in Clients : Deletes(c, i) => Finds(c, i)
    BY DEF Deletes, Finds
  <1> QED
    BY <1>1 DEF ExposureInv, KindsApart

\* A service is made, and its ingress is the next step of the same request.
LEMMA ServiceMade ==
    ASSUME ExposureInv, NEW c \in Clients, NEW new \in {AtRest} \cup Call, NEW i \in RuleIds, NEW row \in Rule,
           client' = [client EXCEPT ![c] = new], rule' = [rule EXCEPT ![i] = row], Kept,
           client[c].pc = "service", new.pc = "ingress", new.made = i, new.owner = client[c].owner,
           rule[i].svc = "none", row.svc = "ClusterIP", ~row.ing, row.owner = client[c].owner
    PROVE  ExposureInv'
  <1>0. /\ ExposureTypeOK /\ OwnersBegun /\ KindsApart /\ OneMaker /\ HalvesAreInHand
        /\ OpenersMeet /\ OpenedByAnnotation
    BY DEF ExposureInv
  <1>1. /\ client'[c] = new /\ \A d \in Clients \ {c} : client'[d] = client[d]
        /\ rule'[i] = row /\ \A r \in RuleIds \ {i} : rule'[r] = rule[r]
        /\ ExposureTypeOK'
        /\ \A r \in RuleIds \ {i} : OwnerGone(r)' <=> OwnerGone(r)
        /\ \A o : Begun(o)' <=> Begun(o)
        /\ NothingFailed' <=> NothingFailed
    <2>1. /\ client'[c] = new /\ \A d \in Clients \ {c} : client'[d] = client[d]
          /\ rule'[i] = row /\ \A r \in RuleIds \ {i} : rule'[r] = rule[r]
          /\ ExposureTypeOK'
      <3>1. ExposureTypeOK /\ new \in {AtRest} \cup Call
        BY <1>0
      <3>2. client'[c] = new /\ \A d \in Clients \ {c} : client'[d] = client[d]
        BY <3>1 DEF ExposureTypeOK
      <3>3. rule'[i] = row /\ \A r \in RuleIds \ {i} : rule'[r] = rule[r]
        BY <3>1 DEF ExposureTypeOK
      <3>4. ExposureTypeOK'
        BY <3>1, RuleAndCall
      <3> QED
        BY <3>2, <3>3, <3>4
    <2> QED
      BY <2>1 DEF Kept, OwnerGone, Exists, Begun, NothingFailed
  <1>2. (\A d \in Clients : ~Makes(d, i) /\ ~Finds(d, i) /\ ~Deletes(d, i)) /\ ~rule[i].ing
    BY UnusedIsFree
  <1>3. UNCHANGED <<workload, pod, sshRule, slips, crowded, seen>>
    BY DEF Kept
  <1>4. OwnersBegun'
    <2>1. \A r \in RuleIds : rule'[r].svc # "none" => Begun(rule'[r].owner)
      BY <1>0, <1>1 DEF OwnersBegun
    <2>2. \A d \in Clients : client'[d].pc \in {"service", "ingress"} => Begun(client'[d].owner)
      BY <1>0, <1>1 DEF OwnersBegun
    <2>3. \A d \in Clients, p \in Pods : Opens(d, p)' => pod[p] # "none"
      BY <1>0, <1>1 DEF OwnersBegun, Opens
    <2> QED
      BY <1>0, <1>3, <2>1, <2>2, <2>3 DEF OwnersBegun, Begun
  <1>5. \A d \in Clients, r \in RuleIds :
           /\ Makes(d, r)' <=> (Makes(d, r) \/ (d = c /\ r = i))
           /\ Finds(d, r)' <=> Finds(d, r)
           /\ Deletes(d, r)' <=> Deletes(d, r)
    BY <1>1 DEF Makes, Finds, Deletes
  <1>6. KindsApart'
    <2>1. \A d \in Clients, r \in RuleIds : client'[d].pc = "unroute" /\ client'[d].found = r
             => client[d].pc = "unroute" /\ client[d].found = r /\ r # i
      BY <1>1, <1>2 DEF Deletes
    <2>2. \A d \in Clients, r \in RuleIds :
             Makes(d, r)' \/ Finds(d, r)' => rule'[r].svc \in {"ClusterIP", "deleted"}
      BY <1>0, <1>1, <1>5 DEF KindsApart
    <2> QED
      BY <1>0, <1>1, <2>1, <2>2 DEF KindsApart
  <1>7. OneMaker'
    <2> SUFFICES ASSUME NEW d \in Clients, NEW r \in RuleIds, Makes(d, r)'
                 PROVE  /\ ~rule'[r].ing /\ (rule'[r].svc = "ClusterIP" \/ OwnerGone(r)')
                        /\ \A e \in Clients \ {d} : ~Makes(e, r)' /\ ~Deletes(e, r)'
      BY DEF OneMaker
    <2>1. CASE r = i
      BY <1>1, <1>2, <1>5, <2>1
    <2>2. CASE r # i
      BY <1>0, <1>1, <1>5, <2>2 DEF OneMaker
    <2> QED
      BY <2>1, <2>2
  <1>8. HalvesAreInHand'
    <2> SUFFICES ASSUME NothingFailed, NEW r \in RuleIds, ~OwnerGone(r)'
                 PROVE  /\ rule'[r].svc = "ClusterIP" /\ ~rule'[r].ing => \E d \in Clients : Makes(d, r)'
                        /\ rule'[r].svc = "deleted" /\ rule'[r].ing =>
                              \E d \in Clients : client'[d].pc = "unroute" /\ client'[d].found = r
      BY <1>1 DEF HalvesAreInHand
    <2>1. CASE r = i
      BY <1>1, <1>5, <2>1
    <2>2. CASE r # i
      BY <1>0, <1>1, <1>5, <2>2 DEF HalvesAreInHand
    <2> QED
      BY <2>1, <2>2
  <1>9. OpenersMeet'
    BY <1>0, <1>1, <1>3 DEF OpenersMeet, Opens
  <1>10. OpenedByAnnotation'
    <2>1. \A p \in Pods : SSHRules(p)' = SSHRules(p)
      BY <1>1 DEF SSHRules
    <2>2. \A d \in Clients : client'[d].pc \in {"ssh", "annotate"} \/ client[d].pc \in {"ssh", "annotate"}
             => client'[d] = client[d]
      BY <1>1
    <2> QED
      BY <1>0, <1>1, <1>3, <2>1, <2>2 DEF OpenedByAnnotation
  <1> QED
    BY <1>1, <1>4, <1>6, <1>7, <1>8, <1>9, <1>10 DEF ExposureInv

\* The ingress is made by the request that made the service.
LEMMA IngressMade ==
    ASSUME ExposureInv, NEW c \in Clients, NEW new \in {AtRest} \cup Call, NEW i \in RuleIds, NEW row \in Rule,
           client' = [client EXCEPT ![c] = new], rule' = [rule EXCEPT ![i] = row], Kept,
           Makes(c, i), new.pc = "idle" \/ (new.pc = "service" /\ new.owner = client[c].owner),
           row.svc = rule[i].svc, row.ing, row.owner = rule[i].owner, row.opened = rule[i].opened
    PROVE  ExposureInv'
  <1>0. /\ ExposureTypeOK /\ OwnersBegun /\ KindsApart /\ OneMaker /\ HalvesAreInHand
        /\ OpenersMeet /\ OpenedByAnnotation
    BY DEF ExposureInv
  <1>1. /\ client'[c] = new /\ \A d \in Clients \ {c} : client'[d] = client[d]
        /\ rule'[i] = row /\ \A r \in RuleIds \ {i} : rule'[r] = rule[r]
        /\ ExposureTypeOK'
        /\ \A r \in RuleIds : OwnerGone(r)' <=> OwnerGone(r)
        /\ \A o : Begun(o)' <=> Begun(o)
        /\ NothingFailed' <=> NothingFailed
    <2>1. /\ client'[c] = new /\ \A d \in Clients \ {c} : client'[d] = client[d]
          /\ rule'[i] = row /\ \A r \in RuleIds \ {i} : rule'[r] = rule[r]
          /\ ExposureTypeOK'
      BY <1>0, RuleAndCall
    <2> QED
      BY <2>1 DEF Kept, OwnerGone, Exists, Begun, NothingFailed
  <1>2. client[c].pc = "ingress" /\ client[c].made = i
    BY DEF Makes
  <1>3. UNCHANGED <<workload, pod, sshRule, slips, crowded, seen>>
    BY DEF Kept
  <1>4. OwnersBegun'
    <2>1. \A r \in RuleIds : rule'[r].svc # "none" => Begun(rule'[r].owner)
      BY <1>0, <1>1 DEF OwnersBegun
    <2>2. \A d \in Clients : client'[d].pc \in {"service", "ingress"} => Begun(client'[d].owner)
      BY <1>0, <1>1, <1>2 DEF OwnersBegun
    <2>3. \A d \in Clients, p \in Pods : Opens(d, p)' => pod[p] # "none"
      BY <1>0, <1>1 DEF OwnersBegun, Opens
    <2> QED
      BY <1>0, <1>3, <2>1, <2>2, <2>3 DEF OwnersBegun, Begun
  <1>5. \A d \in Clients, r \in RuleIds :
           /\ Makes(d, r)' <=> (Makes(d, r) /\ d # c)
           /\ Finds(d, r)' <=> Finds(d, r)
           /\ Deletes(d, r)' <=> Deletes(d, r)
    BY <1>1, <1>2 DEF Makes, Finds, Deletes
  <1>6. KindsApart'
    <2>1. rule[i].svc \in {"ClusterIP", "deleted"}
      BY <1>0 DEF KindsApart
    <2>2. \A d \in Clients, r \in RuleIds : client'[d].pc = "unroute" /\ client'[d].found = r
             => client[d].pc = "unroute" /\ client[d].found = r
      BY <1>1
    <2>3. \A r \in RuleIds : rule'[r].svc = rule[r].svc
      BY <1>1
    <2> QED
      BY <1>0, <1>1, <1>5, <2>1, <2>2, <2>3 DEF KindsApart
  <1>7. OneMaker'
    <2> SUFFICES ASSUME NEW d \in Clients, NEW r \in RuleIds, Makes(d, r)'
                 PROVE  /\ ~rule'[r].ing /\ (rule'[r].svc = "ClusterIP" \/ OwnerGone(r)')
                        /\ \A e \in Clients \ {d} : ~Makes(e, r)' /\ ~Deletes(e, r)'
      BY DEF OneMaker
    <2>1. r # i
      BY <1>0, <1>5 DEF OneMaker
    <2> QED
      BY <1>0, <1>1, <1>5, <2>1 DEF OneMaker
  <1>8. HalvesAreInHand'
    <2> SUFFICES ASSUME NothingFailed, NEW r \in RuleIds, ~OwnerGone(r)
                 PROVE  /\ rule'[r].svc = "ClusterIP" /\ ~rule'[r].ing => \E d \in Clients : Makes(d, r)'
                        /\ rule'[r].svc = "deleted" /\ rule'[r].ing =>
                              \E d \in Clients : client'[d].pc = "unroute" /\ client'[d].found = r
      BY <1>1 DEF HalvesAreInHand
    <2>1. CASE r = i
      <3>1. row.svc = "ClusterIP"
        BY <1>0, <2>1 DEF OneMaker
      <3> QED
        BY <1>1, <2>1, <3>1
    <2>2. CASE r # i
      <3>1. \A d \in Clients : Makes(d, r) => Makes(d, r)'
        BY <1>2, <1>5, <2>2 DEF Makes
      <3>2. \A d \in Clients : client[d].pc = "unroute" => client'[d] = client[d]
        BY <1>1, <1>2
      <3> QED
        BY <1>0, <1>1, <2>2, <3>1, <3>2 DEF HalvesAreInHand
    <2> QED
      BY <2>1, <2>2
  <1>9. OpenersMeet'
    BY <1>0, <1>1, <1>3 DEF OpenersMeet, Opens
  <1>10. OpenedByAnnotation'
    <2>1. \A p \in Pods : SSHRules(p)' = SSHRules(p)
      BY <1>1 DEF SSHRules
    <2>2. \A d \in Clients : client'[d].pc \in {"ssh", "annotate"} \/ client[d].pc \in {"ssh", "annotate"}
             => client'[d] = client[d]
      BY <1>1, <1>2
    <2> QED
      BY <1>0, <1>1, <1>3, <2>1, <2>2 DEF OpenedByAnnotation
  <1> QED
    BY <1>1, <1>4, <1>6, <1>7, <1>8, <1>9, <1>10 DEF ExposureInv

\* The service of a rule is deleted, and its ingress is the next step.
LEMMA ServiceDeleted ==
    ASSUME ExposureInv, NEW c \in Clients, NEW new \in {AtRest} \cup Call, NEW i \in RuleIds, NEW row \in Rule,
           client' = [client EXCEPT ![c] = new], rule' = [rule EXCEPT ![i] = row], Kept,
           client[c].pc = "unserve", client[c].found = i, new.pc = "unroute", new.found = i,
           row.svc = "deleted", row.ing = rule[i].ing, row.owner = rule[i].owner, row.opened = rule[i].opened
    PROVE  ExposureInv'
  <1>0. /\ ExposureTypeOK /\ OwnersBegun /\ KindsApart /\ OneMaker /\ HalvesAreInHand
        /\ OpenersMeet /\ OpenedByAnnotation
    BY DEF ExposureInv
  <1>1. /\ client'[c] = new /\ \A d \in Clients \ {c} : client'[d] = client[d]
        /\ rule'[i] = row /\ \A r \in RuleIds \ {i} : rule'[r] = rule[r]
        /\ ExposureTypeOK'
    <2>1. ExposureTypeOK /\ new \in {AtRest} \cup Call
      BY <1>0
    <2>2. client'[c] = new /\ \A d \in Clients \ {c} : client'[d] = client[d]
      BY <2>1 DEF ExposureTypeOK
    <2>3. rule'[i] = row /\ \A r \in RuleIds \ {i} : rule'[r] = rule[r]
      BY <2>1 DEF ExposureTypeOK
    <2>4. ExposureTypeOK'
      BY <2>1, RuleAndCall
    <2> QED
      BY <2>2, <2>3, <2>4
  <1>2. UNCHANGED <<workload, pod, sshRule, slips, crowded, seen>>
    BY DEF Kept
  <1>3. /\ \A r \in RuleIds : OwnerGone(r)' <=> OwnerGone(r)
        /\ \A o : Begun(o)' <=> Begun(o)
        /\ NothingFailed' <=> NothingFailed
    BY <1>1, <1>2 DEF OwnerGone, Exists, Begun, NothingFailed
  <1>a. rule[i].svc \in {"ClusterIP", "deleted"} /\ \A d \in Clients : ~Makes(d, i)
    <2>1. Finds(c, i) /\ Deletes(c, i) /\ ~Makes(c, i)
      BY DEF Finds, Deletes, Makes
    <2>2. ASSUME NEW d \in Clients, Makes(d, i) PROVE FALSE
      BY <1>0, <2>1, <2>2 DEF OneMaker
    <2> QED
      BY <1>0, <2>1, <2>2 DEF KindsApart
  <1>4. OwnersBegun'
    <2>1. \A r \in RuleIds : rule'[r].svc # "none" => Begun(rule'[r].owner)
      BY <1>0, <1>1, <1>a DEF OwnersBegun
    <2>2. \A d \in Clients : client'[d].pc \in {"service", "ingress"} => Begun(client'[d].owner)
      BY <1>0, <1>1 DEF OwnersBegun
    <2>3. \A d \in Clients, p \in Pods : Opens(d, p)' => pod[p] # "none"
      BY <1>0, <1>1 DEF OwnersBegun, Opens
    <2> QED
      BY <1>0, <1>2, <2>1, <2>2, <2>3 DEF OwnersBegun, Begun
  <1>5. \A d \in Clients, r \in RuleIds :
           /\ Makes(d, r)' <=> Makes(d, r)
           /\ Finds(d, r)' <=> Finds(d, r)
           /\ Deletes(d, r)' <=> Deletes(d, r)
    BY <1>1 DEF Makes, Finds, Deletes
  <1>6. KindsApart'
    <2>1. \A d \in Clients, r \in RuleIds : client'[d].pc = "unroute" /\ client'[d].found = r
             => rule'[r].svc = "deleted"
      BY <1>0, <1>1 DEF KindsApart
    <2> QED
      BY <1>0, <1>1, <1>5, <1>a, <2>1 DEF KindsApart
  <1>7. OneMaker'
    <2> SUFFICES ASSUME NEW d \in Clients, NEW r \in RuleIds, Makes(d, r)'
                 PROVE  /\ ~rule'[r].ing /\ (rule'[r].svc = "ClusterIP" \/ OwnerGone(r)')
                        /\ \A e \in Clients \ {d} : ~Makes(e, r)' /\ ~Deletes(e, r)'
      BY DEF OneMaker
    <2>1. r # i
      BY <1>5, <1>a
    <2> QED
      BY <1>0, <1>1, <1>3, <1>5, <2>1 DEF OneMaker
  <1>8. HalvesAreInHand'
    <2> SUFFICES ASSUME NothingFailed, NEW r \in RuleIds, ~OwnerGone(r)'
                 PROVE  /\ rule'[r].svc = "ClusterIP" /\ ~rule'[r].ing => \E d \in Clients : Makes(d, r)'
                        /\ rule'[r].svc = "deleted" /\ rule'[r].ing =>
                              \E d \in Clients : client'[d].pc = "unroute" /\ client'[d].found = r
      BY <1>3 DEF HalvesAreInHand
    <2>1. CASE r = i
      BY <1>0, <1>1, <2>1
    <2>2. CASE r # i
      <3>1. \A d \in Clients : Makes(d, r) => Makes(d, r)'
        BY <1>5, <2>2
      <3>2. \A d \in Clients : client[d].pc = "unroute" /\ client[d].found = r => client'[d] = client[d]
        BY <1>1, <2>2
      <3> QED
        BY <1>0, <1>1, <1>3, <2>2, <3>1, <3>2 DEF HalvesAreInHand
    <2> QED
      BY <2>1, <2>2
  <1>9. OpenersMeet'
    BY <1>0, <1>1, <1>2 DEF OpenersMeet, Opens
  <1>10. OpenedByAnnotation'
    <2>1. \A p \in Pods : SSHRules(p)' = SSHRules(p)
      BY <1>0, <1>1, <1>a DEF SSHRules
    <2>2. \A d \in Clients : client'[d].pc \in {"ssh", "annotate"} \/ client[d].pc \in {"ssh", "annotate"}
             => client'[d] = client[d]
      BY <1>1
    <2> QED
      BY <1>0, <1>2, <1>3, <2>1, <2>2 DEF OpenedByAnnotation
  <1> QED
    BY <1>1, <1>4, <1>6, <1>7, <1>8, <1>9, <1>10 DEF ExposureInv

\* The ingress of a rule is deleted, after the service.
LEMMA IngressDeleted ==
    ASSUME ExposureInv, NEW c \in Clients, NEW new \in {AtRest} \cup Call, NEW i \in RuleIds, NEW row \in Rule,
           client' = [client EXCEPT ![c] = new], rule' = [rule EXCEPT ![i] = row], Kept,
           client[c].pc = "unroute", client[c].found = i, new.pc = "idle",
           row.svc = rule[i].svc, ~row.ing, row.owner = rule[i].owner, row.opened = rule[i].opened
    PROVE  ExposureInv'
  <1>0. /\ ExposureTypeOK /\ OwnersBegun /\ KindsApart /\ OneMaker /\ HalvesAreInHand
        /\ OpenersMeet /\ OpenedByAnnotation
    BY DEF ExposureInv
  <1>1. /\ client'[c] = new /\ \A d \in Clients \ {c} : client'[d] = client[d]
        /\ rule'[i] = row /\ \A r \in RuleIds \ {i} : rule'[r] = rule[r]
        /\ ExposureTypeOK'
    <2>1. ExposureTypeOK /\ new \in {AtRest} \cup Call
      BY <1>0
    <2>2. client'[c] = new /\ \A d \in Clients \ {c} : client'[d] = client[d]
      BY <2>1 DEF ExposureTypeOK
    <2>3. rule'[i] = row /\ \A r \in RuleIds \ {i} : rule'[r] = rule[r]
      BY <2>1 DEF ExposureTypeOK
    <2>4. ExposureTypeOK'
      BY <2>1, RuleAndCall
    <2> QED
      BY <2>2, <2>3, <2>4
  <1>2. UNCHANGED <<workload, pod, sshRule, slips, crowded, seen>>
    BY DEF Kept
  <1>3. /\ \A r \in RuleIds : OwnerGone(r)' <=> OwnerGone(r)
        /\ \A o : Begun(o)' <=> Begun(o)
        /\ NothingFailed' <=> NothingFailed
    BY <1>1, <1>2 DEF OwnerGone, Exists, Begun, NothingFailed
  <1>a. rule[i].svc = "deleted" /\ \A d \in Clients : ~Makes(d, i)
    <2>1. Deletes(c, i) /\ ~Makes(c, i)
      BY DEF Deletes, Makes
    <2>2. ASSUME NEW d \in Clients, Makes(d, i) PROVE FALSE
      BY <1>0, <2>1, <2>2 DEF OneMaker
    <2> QED
      BY <1>0, <2>2 DEF KindsApart
  <1>4. OwnersBegun'
    <2>1. \A r \in RuleIds : rule'[r].svc # "none" => Begun(rule'[r].owner)
      BY <1>0, <1>1 DEF OwnersBegun
    <2>2. \A d \in Clients : client'[d].pc \in {"service", "ingress"} => Begun(client'[d].owner)
      BY <1>0, <1>1 DEF OwnersBegun
    <2>3. \A d \in Clients, p \in Pods : Opens(d, p)' => pod[p] # "none"
      BY <1>0, <1>1 DEF OwnersBegun, Opens
    <2> QED
      BY <1>0, <1>2, <2>1, <2>2, <2>3 DEF OwnersBegun, Begun
  <1>5. \A d \in Clients, r \in RuleIds :
           /\ Makes(d, r)' <=> Makes(d, r)
           /\ Finds(d, r)' => Finds(d, r)
           /\ Deletes(d, r)' => Deletes(d, r)
    BY <1>1 DEF Makes, Finds, Deletes
  <1>6. KindsApart'
    <2>1. \A d \in Clients, r \in RuleIds : client'[d].pc = "unroute" /\ client'[d].found = r
             => rule'[r].svc = "deleted"
      BY <1>0, <1>1 DEF KindsApart
    <2> QED
      BY <1>0, <1>1, <1>5, <1>a, <2>1 DEF KindsApart
  <1>7. OneMaker'
    <2> SUFFICES ASSUME NEW d \in Clients, NEW r \in RuleIds, Makes(d, r)'
                 PROVE  /\ ~rule'[r].ing /\ (rule'[r].svc = "ClusterIP" \/ OwnerGone(r)')
                        /\ \A e \in Clients \ {d} : ~Makes(e, r)' /\ ~Deletes(e, r)'
      BY DEF OneMaker
    <2>1. r # i
      BY <1>5, <1>a
    <2> QED
      BY <1>0, <1>1, <1>3, <1>5, <2>1 DEF OneMaker
  <1>8. HalvesAreInHand'
    <2> SUFFICES ASSUME NothingFailed, NEW r \in RuleIds, ~OwnerGone(r)'
                 PROVE  /\ rule'[r].svc = "ClusterIP" /\ ~rule'[r].ing => \E d \in Clients : Makes(d, r)'
                        /\ rule'[r].svc = "deleted" /\ rule'[r].ing =>
                              \E d \in Clients : client'[d].pc = "unroute" /\ client'[d].found = r
      BY <1>3 DEF HalvesAreInHand
    <2>1. CASE r = i
      BY <1>0, <1>1, <1>a, <2>1
    <2>2. CASE r # i
      <3>1. \A d \in Clients : Makes(d, r) => Makes(d, r)'
        BY <1>5, <2>2
      <3>2. \A d \in Clients : client[d].pc = "unroute" /\ client[d].found = r => client'[d] = client[d]
        BY <1>1, <2>2
      <3> QED
        BY <1>0, <1>1, <1>3, <2>2, <3>1, <3>2 DEF HalvesAreInHand
    <2> QED
      BY <2>1, <2>2
  <1>9. OpenersMeet'
    BY <1>0, <1>1, <1>2 DEF OpenersMeet, Opens
  <1>10. OpenedByAnnotation'
    <2>1. \A p \in Pods : SSHRules(p)' = SSHRules(p)
      BY <1>0, <1>1, <1>a DEF SSHRules
    <2>2. \A d \in Clients : client'[d].pc \in {"ssh", "annotate"} \/ client[d].pc \in {"ssh", "annotate"}
             => client'[d] = client[d]
      BY <1>1
    <2> QED
      BY <1>0, <1>2, <1>3, <2>1, <2>2 DEF OpenedByAnnotation
  <1> QED
    BY <1>1, <1>4, <1>6, <1>7, <1>8, <1>9, <1>10 DEF ExposureInv

\* OpenSSH makes its service, which nobody has made for the pod, and annotates the pod next.
LEMMA SSHServiceMade ==
    ASSUME ExposureInv, NEW c \in Clients, NEW new \in {AtRest} \cup Call, NEW i \in RuleIds, NEW row \in Rule,
           client' = [client EXCEPT ![c] = new], rule' = [rule EXCEPT ![i] = row], Kept,
           NEW q \in Pods, client[c].pc = "ssh", client[c].ofPod = q,
           new.pc = "annotate", new.ofPod = q, new.made = i,
           rule[i].svc = "none", row.svc = "NodePort", ~row.ing, row.owner = TheJob, row.opened = q
    PROVE  ExposureInv'
  <1>0. /\ ExposureTypeOK /\ OwnersBegun /\ KindsApart /\ OneMaker /\ HalvesAreInHand
        /\ OpenersMeet /\ OpenedByAnnotation
    BY DEF ExposureInv
  <1>1. /\ client'[c] = new /\ \A d \in Clients \ {c} : client'[d] = client[d]
        /\ rule'[i] = row /\ \A r \in RuleIds \ {i} : rule'[r] = rule[r]
        /\ ExposureTypeOK'
    <2>1. ExposureTypeOK /\ new \in {AtRest} \cup Call
      BY <1>0
    <2>2. client'[c] = new /\ \A d \in Clients \ {c} : client'[d] = client[d]
      BY <2>1 DEF ExposureTypeOK
    <2>3. rule'[i] = row /\ \A r \in RuleIds \ {i} : rule'[r] = rule[r]
      BY <2>1 DEF ExposureTypeOK
    <2>4. ExposureTypeOK'
      BY <2>1, RuleAndCall
    <2> QED
      BY <2>2, <2>3, <2>4
  <1>2. UNCHANGED <<workload, pod, sshRule, slips, crowded, seen>>
    BY DEF Kept
  <1>3. /\ \A r \in RuleIds \ {i} : OwnerGone(r)' <=> OwnerGone(r)
        /\ \A o : Begun(o)' <=> Begun(o)
        /\ NothingFailed' <=> NothingFailed
    BY <1>1, <1>2 DEF OwnerGone, Exists, Begun, NothingFailed
  <1>a. (\A d \in Clients : ~Makes(d, i) /\ ~Finds(d, i) /\ ~Deletes(d, i)) /\ ~rule[i].ing
    BY UnusedIsFree
  <1>4. OwnersBegun'
    <2>0. pod[q] # "none" /\ Begun(TheJob)
      BY <1>0 DEF OwnersBegun, Opens, Begun
    <2>1. \A r \in RuleIds : rule'[r].svc # "none" => Begun(rule'[r].owner)
      BY <1>0, <1>1, <2>0 DEF OwnersBegun
    <2>2. \A d \in Clients : client'[d].pc \in {"service", "ingress"} => Begun(client'[d].owner)
      BY <1>0, <1>1 DEF OwnersBegun
    <2>3. \A d \in Clients, p \in Pods : Opens(d, p)' => pod[p] # "none"
      BY <1>0, <1>1, <2>0 DEF OwnersBegun, Opens
    <2> QED
      BY <1>0, <1>2, <2>1, <2>2, <2>3 DEF OwnersBegun, Begun
  <1>5. \A d \in Clients, r \in RuleIds :
           /\ Makes(d, r)' <=> Makes(d, r)
           /\ Finds(d, r)' <=> Finds(d, r)
           /\ Deletes(d, r)' <=> Deletes(d, r)
    BY <1>1 DEF Makes, Finds, Deletes
  <1>6. KindsApart'
    <2>1. \A d \in Clients, r \in RuleIds : client'[d].pc = "unroute" /\ client'[d].found = r
             => client[d].pc = "unroute" /\ client[d].found = r /\ r # i
      BY <1>1, <1>a DEF Deletes
    <2> QED
      BY <1>0, <1>1, <1>5, <1>a, <2>1 DEF KindsApart
  <1>7. OneMaker'
    <2> SUFFICES ASSUME NEW d \in Clients, NEW r \in RuleIds, Makes(d, r)'
                 PROVE  /\ ~rule'[r].ing /\ (rule'[r].svc = "ClusterIP" \/ OwnerGone(r)')
                        /\ \A e \in Clients \ {d} : ~Makes(e, r)' /\ ~Deletes(e, r)'
      BY DEF OneMaker
    <2>1. r # i
      BY <1>5, <1>a
    <2> QED
      BY <1>0, <1>1, <1>3, <1>5, <2>1 DEF OneMaker
  <1>8. HalvesAreInHand'
    <2> SUFFICES ASSUME NothingFailed, NEW r \in RuleIds, ~OwnerGone(r)'
                 PROVE  /\ rule'[r].svc = "ClusterIP" /\ ~rule'[r].ing => \E d \in Clients : Makes(d, r)'
                        /\ rule'[r].svc = "deleted" /\ rule'[r].ing =>
                              \E d \in Clients : client'[d].pc = "unroute" /\ client'[d].found = r
      BY <1>3 DEF HalvesAreInHand
    <2>1. CASE r = i
      BY <1>0, <1>1, <2>1
    <2>2. CASE r # i
      <3>1. \A d \in Clients : Makes(d, r) => Makes(d, r)'
        BY <1>5, <2>2
      <3>2. \A d \in Clients : client[d].pc = "unroute" /\ client[d].found = r => client'[d] = client[d]
        BY <1>1, <2>2
      <3> QED
        BY <1>0, <1>1, <1>3, <2>2, <3>1, <3>2 DEF HalvesAreInHand
    <2> QED
      BY <2>1, <2>2
  <1>9. OpenersMeet'
    <2>1. \A d \in Clients, p \in Pods : Opens(d, p)' <=> Opens(d, p)
      BY <1>1 DEF Opens
    <2> QED
      BY <1>0, <1>2, <2>1 DEF OpenersMeet
  <1>10. OpenedByAnnotation'
    <2> SUFFICES ASSUME NothingFailed, NEW p \in Pods \ crowded
                 PROVE  /\ \A d \in Clients : client'[d].pc = "ssh" /\ client'[d].ofPod = p => SSHRules(p)' = {}
                        /\ /\ pod[p] # "gone" /\ sshRule[p] = NoRule
                           /\ \A d \in Clients : ~(client'[d].pc = "annotate" /\ client'[d].ofPod = p)
                           => SSHRules(p)' = {}
                        /\ \A x, y \in SSHRules(p)' : x = y
      BY <1>2, <1>3 DEF OpenedByAnnotation
    <2>0. /\ \A d \in Clients : client[d].pc = "ssh" /\ client[d].ofPod = p => SSHRules(p) = {}
          /\ /\ pod[p] # "gone" /\ sshRule[p] = NoRule
             /\ \A d \in Clients : ~(client[d].pc = "annotate" /\ client[d].ofPod = p)
             => SSHRules(p) = {}
          /\ \A x, y \in SSHRules(p) : x = y
      BY <1>0 DEF OpenedByAnnotation
    <2>1. CASE p = q
      <3>1. SSHRules(p) = {}
        BY <2>0, <2>1
      <3>2. SSHRules(p)' = {i}
        BY <1>1, <2>1, <3>1 DEF SSHRules
      <3>3. \A d \in Clients \ {c} : ~Opens(d, p)
        <4>1. Opens(c, p)
          BY <2>1 DEF Opens
        <4> QED
          BY <1>0, <4>1 DEF OpenersMeet
      <3>4. \A d \in Clients : ~(client'[d].pc = "ssh" /\ client'[d].ofPod = p)
        BY <1>1, <3>3 DEF Opens
      <3>5. client'[c].pc = "annotate" /\ client'[c].ofPod = p
        BY <1>1, <2>1
      <3> QED
        BY <3>2, <3>4, <3>5
    <2>2. CASE p # q
      <3>1. SSHRules(p)' = SSHRules(p)
        BY <1>1, <2>2 DEF SSHRules
      <3>2. \A d \in Clients : (client'[d].pc \in {"ssh", "annotate"} /\ client'[d].ofPod = p)
                \/ (client[d].pc \in {"ssh", "annotate"} /\ client[d].ofPod = p)
                => client'[d] = client[d]
        BY <1>1, <2>2
      <3> QED
        BY <2>0, <3>1, <3>2
    <2> QED
      BY <2>1, <2>2
  <1> QED
    BY <1>1, <1>4, <1>6, <1>7, <1>8, <1>9, <1>10 DEF ExposureInv

\* A node port of a pod is one service, and not OpenSSH's.
LEMMA NodeportMade ==
    ASSUME ExposureInv, NEW i \in RuleIds, NEW row \in Rule, NEW p \in Pods, UNCHANGED client, Kept,
           rule' = [rule EXCEPT ![i] = row], Exists(p),
           rule[i].svc = "none", row.svc = "NodePort", ~row.ing, row.owner = p
    PROVE  ExposureInv'
  <1>0. /\ ExposureTypeOK /\ OwnersBegun /\ KindsApart /\ OneMaker /\ HalvesAreInHand
        /\ OpenersMeet /\ OpenedByAnnotation
    BY DEF ExposureInv
  <1>1. rule'[i] = row /\ (\A r \in RuleIds \ {i} : rule'[r] = rule[r]) /\ rule' \in [RuleIds -> Rule]
    BY <1>0 DEF ExposureTypeOK
  <1>2. UNCHANGED <<workload, pod, sshRule, client, slips, crowded, seen>>
    BY DEF Kept
  <1>3. ExposureTypeOK'
    BY <1>0, <1>1, <1>2 DEF ExposureTypeOK
  <1>4. /\ \A r \in RuleIds \ {i} : OwnerGone(r)' <=> OwnerGone(r)
        /\ \A o : Begun(o)' <=> Begun(o)
        /\ NothingFailed' <=> NothingFailed
    BY <1>1, <1>2 DEF OwnerGone, Exists, Begun, NothingFailed
  <1>5. (\A d \in Clients : ~Makes(d, i) /\ ~Finds(d, i) /\ ~Deletes(d, i)) /\ ~rule[i].ing
    BY UnusedIsFree
  <1>6. Begun(p) /\ p # TheJob
    BY CallShapes DEF Exists, Begun
  <1>7. OwnersBegun'
    <2>1. \A r \in RuleIds : rule'[r].svc # "none" => Begun(rule'[r].owner)
      BY <1>0, <1>1, <1>6 DEF OwnersBegun
    <2> QED
      BY <1>0, <1>2, <2>1 DEF OwnersBegun, Begun, Opens
  <1>8. KindsApart'
    <2>1. \A d \in Clients, r \in RuleIds : client[d].pc = "unroute" /\ client[d].found = r => r # i
      BY <1>5 DEF Deletes
    <2>2. \A d \in Clients, r \in RuleIds :
             Makes(d, r) \/ Finds(d, r) => rule'[r].svc \in {"ClusterIP", "deleted"}
      BY <1>0, <1>1, <1>5 DEF KindsApart
    <2> QED
      BY <1>0, <1>1, <1>2, <2>1, <2>2 DEF KindsApart, Makes, Finds
  <1>9. OneMaker'
    <2> SUFFICES ASSUME NEW d \in Clients, NEW r \in RuleIds, Makes(d, r)
                 PROVE  /\ ~rule'[r].ing /\ (rule'[r].svc = "ClusterIP" \/ OwnerGone(r)')
                        /\ \A e \in Clients \ {d} : ~Makes(e, r) /\ ~Deletes(e, r)
      BY <1>2 DEF OneMaker, Makes, Deletes
    <2> QED
      BY <1>0, <1>1, <1>4, <1>5 DEF OneMaker
  <1>10. HalvesAreInHand'
    <2> SUFFICES ASSUME NothingFailed, NEW r \in RuleIds, ~OwnerGone(r)'
                 PROVE  /\ rule'[r].svc = "ClusterIP" /\ ~rule'[r].ing => \E d \in Clients : Makes(d, r)
                        /\ rule'[r].svc = "deleted" /\ rule'[r].ing =>
                              \E d \in Clients : client[d].pc = "unroute" /\ client[d].found = r
      BY <1>2, <1>4 DEF HalvesAreInHand, Makes
    <2>1. CASE r = i
      BY <1>1, <2>1
    <2>2. CASE r # i
      BY <1>0, <1>1, <1>4, <2>2 DEF HalvesAreInHand
    <2> QED
      BY <2>1, <2>2
  <1>11. OpenersMeet'
    BY <1>0, <1>2 DEF OpenersMeet, Opens
  <1>12. OpenedByAnnotation'
    <2>1. \A q \in Pods : SSHRules(q)' = SSHRules(q)
      BY <1>1, <1>6 DEF SSHRules
    <2> QED
      BY <1>0, <1>2, <1>4, <2>1 DEF OpenedByAnnotation
  <1> QED
    BY <1>3, <1>7, <1>8, <1>9, <1>10, <1>11, <1>12 DEF ExposureInv

\* What a step of OpenSSH before or after its service keeps: the rules and the
\* requests that make or delete them.
LEMMA RulesKept ==
    ASSUME ExposureInv, NEW c \in Clients, NEW new \in {AtRest} \cup Call,
           client' = [client EXCEPT ![c] = new], UNCHANGED <<workload, pod, rule, slips>>,
           client[c].pc \in {"idle", "ssh", "annotate"}, new.pc \in {"idle", "ssh", "annotate"}
    PROVE  KindsApart' /\ OneMaker' /\ HalvesAreInHand'
  <1>0. ExposureTypeOK /\ KindsApart /\ OneMaker /\ HalvesAreInHand
    BY DEF ExposureInv
  <1>1. client'[c] = new /\ \A d \in Clients \ {c} : client'[d] = client[d]
    BY <1>0 DEF ExposureTypeOK
  <1>2. /\ \A r \in RuleIds : OwnerGone(r)' <=> OwnerGone(r)
        /\ NothingFailed' <=> NothingFailed
    BY DEF OwnerGone, Exists, NothingFailed
  <1>3. \A d \in Clients, r \in RuleIds :
           /\ Makes(d, r)' <=> Makes(d, r)
           /\ Finds(d, r)' <=> Finds(d, r)
           /\ Deletes(d, r)' <=> Deletes(d, r)
           /\ (client'[d].pc = "unroute" /\ client'[d].found = r) <=> (client[d].pc = "unroute" /\ client[d].found = r)
    BY <1>1 DEF Makes, Finds, Deletes
  <1>4. KindsApart'
    BY <1>0, <1>3 DEF KindsApart
  <1>5. OneMaker'
    BY <1>0, <1>2, <1>3 DEF OneMaker
  <1>6. HalvesAreInHand'
    BY <1>0, <1>2, <1>3 DEF HalvesAreInHand
  <1> QED
    BY <1>4, <1>5, <1>6

\* OpenSSH finds no annotation: no service was made for the pod, or the pod is marked.
LEMMA SSHOpened ==
    ASSUME ExposureInv, NEW c \in Clients, NEW p \in Pods, OpenSSH(c, p)
    PROVE  ExposureInv'
  <1> DEFINE new == [pc |-> "ssh", ofPod |-> p]
             meets == Opening(p)
  <1>0. /\ ExposureTypeOK /\ OwnersBegun /\ KindsApart /\ OneMaker /\ HalvesAreInHand
        /\ OpenersMeet /\ OpenedByAnnotation
    BY DEF ExposureInv
  <1>1. /\ client' = [client EXCEPT ![c] = new] /\ UNCHANGED <<workload, pod, sshRule, rule, slips, seen>>
        /\ client[c].pc = "idle" /\ pod[p] = "running"
        /\ crowded' = IF meets \/ sshRule[p] # NoRule THEN crowded \cup {p} ELSE crowded
    BY CallShapes DEF OpenSSH, SetClient
  <1>2. meets <=> \E d \in Clients : Opens(d, p)
    BY DEF Opens, Opening
  <1>3. new \in {AtRest} \cup Call /\ new.pc = "ssh" /\ new.ofPod = p
    BY NewCalls
  <1> HIDE DEF new, meets
  <1>4. /\ client'[c] = new /\ (\A d \in Clients \ {c} : client'[d] = client[d])
        /\ client' \in [Clients -> {AtRest} \cup Call]
    BY <1>0, <1>1, <1>3 DEF ExposureTypeOK
  <1>5. ExposureTypeOK'
    BY <1>0, <1>1, <1>4 DEF ExposureTypeOK
  <1>6. OwnersBegun'
    <2>1. \A d \in Clients : client'[d].pc \in {"service", "ingress"} => client'[d] = client[d]
      BY <1>3, <1>4
    <2>2. \A d \in Clients, q \in Pods : Opens(d, q)' => pod[q] # "none"
      BY <1>0, <1>1, <1>3, <1>4 DEF OwnersBegun, Opens
    <2> QED
      BY <1>0, <1>1, <2>1, <2>2 DEF OwnersBegun, Begun
  <1>7. KindsApart' /\ OneMaker' /\ HalvesAreInHand'
    BY <1>1, <1>3, RulesKept
  <1>8. OpenersMeet'
    <2> SUFFICES ASSUME NEW a \in Clients, NEW b \in Clients, NEW q \in Pods, a # b, Opens(a, q)', Opens(b, q)'
                 PROVE  q \in crowded'
      BY DEF OpenersMeet
    <2>1. CASE a # c /\ b # c
      BY <1>0, <1>1, <1>4, <2>1 DEF OpenersMeet, Opens
    <2>2. CASE a = c \/ b = c
      <3>1. q = p /\ \E d \in Clients : Opens(d, p)
        BY <1>3, <1>4, <2>2 DEF Opens
      <3> QED
        BY <1>1, <1>2, <3>1
    <2> QED
      BY <2>1, <2>2
  <1>9. OpenedByAnnotation'
    <2> SUFFICES ASSUME NothingFailed, NEW q \in Pods \ crowded'
                 PROVE  /\ \A d \in Clients : client'[d].pc = "ssh" /\ client'[d].ofPod = q => SSHRules(q) = {}
                        /\ /\ pod[q] # "gone" /\ sshRule[q] = NoRule
                           /\ \A d \in Clients : ~(client'[d].pc = "annotate" /\ client'[d].ofPod = q)
                           => SSHRules(q) = {}
                        /\ \A x, y \in SSHRules(q) : x = y
      BY <1>1 DEF OpenedByAnnotation, NothingFailed, SSHRules
    <2>1. q \notin crowded
      BY <1>1
    <2>2. /\ \A d \in Clients : client[d].pc = "ssh" /\ client[d].ofPod = q => SSHRules(q) = {}
          /\ /\ pod[q] # "gone" /\ sshRule[q] = NoRule
             /\ \A d \in Clients : ~(client[d].pc = "annotate" /\ client[d].ofPod = q)
             => SSHRules(q) = {}
          /\ \A x, y \in SSHRules(q) : x = y
      BY <1>0, <2>1 DEF OpenedByAnnotation
    <2>3. CASE q = p
      <3>1. (\A d \in Clients : ~Opens(d, p)) /\ sshRule[p] = NoRule
        BY <1>1, <1>2, <2>3
      <3>2. SSHRules(q) = {}
        BY <1>1, <2>2, <2>3, <3>1 DEF Opens
      <3> QED
        BY <3>2
    <2>4. CASE q # p
      <3>1. \A d \in Clients : (client'[d].pc = "ssh" /\ client'[d].ofPod = q) => client'[d] = client[d]
        BY <1>3, <1>4, <2>4
      <3>2. \A d \in Clients : client[d].pc = "annotate" => client'[d] = client[d]
        BY <1>1, <1>4
      <3> QED
        BY <2>2, <3>1, <3>2
    <2> QED
      BY <2>3, <2>4
  <1> QED
    BY <1>5, <1>6, <1>7, <1>8, <1>9 DEF ExposureInv

\* The cache catches up.
LEMMA CacheInv ==
    ASSUME ExposureInv, NEW p \in Pods, CachePod(p)
    PROVE  ExposureInv'
  <1>1. ExposureTypeOK'
    BY DEF CachePod, ExposureInv, ExposureTypeOK
  <1> QED
    BY <1>1 DEF CachePod, ExposureInv, OwnersBegun, KindsApart, OneMaker, HalvesAreInHand, OpenersMeet,
                OpenedByAnnotation, NothingFailed, SSHRules, Begun, OwnerGone, Exists, Makes, Finds,
                Deletes, Opens

\* The annotation is written, or the pod is marked, or it has gone.
LEMMA Annotated ==
    ASSUME ExposureInv, NEW c \in Clients, client[c].pc = "annotate",
           client' = [client EXCEPT ![c] = AtRest], UNCHANGED <<workload, pod, rule, slips, seen>>,
           \/ /\ sshRule' = [sshRule EXCEPT ![client[c].ofPod] = client[c].made]
              /\ UNCHANGED crowded
           \/ /\ crowded' = IF Exists(client[c].ofPod) THEN crowded \cup {client[c].ofPod} ELSE crowded
              /\ UNCHANGED sshRule
    PROVE  ExposureInv'
  <1>0. /\ ExposureTypeOK /\ OwnersBegun /\ KindsApart /\ OneMaker /\ HalvesAreInHand
        /\ OpenersMeet /\ OpenedByAnnotation
    BY DEF ExposureInv
  <1>1. client[c].ofPod \in Pods /\ client[c].made \in RuleIds /\ NoRule \notin RuleIds
    BY <1>0, ClientCalls, CallShapes, PodsAndJob
  <1>2. /\ client'[c].pc = "idle" /\ (\A d \in Clients \ {c} : client'[d] = client[d])
        /\ client' \in [Clients -> {AtRest} \cup Call] /\ AtRest.pc = "idle"
    BY <1>0, CallShapes DEF ExposureTypeOK
  <1>3. sshRule' \in [Pods -> RuleIds \cup {NoRule}] /\ \A q \in Pods : sshRule'[q] = NoRule => sshRule[q] = NoRule
    BY <1>0, <1>1 DEF ExposureTypeOK
  <1>9. crowded \subseteq crowded' /\ crowded' \in SUBSET Pods
    BY <1>0, <1>1 DEF ExposureTypeOK
  <1>4. ExposureTypeOK'
    BY <1>0, <1>2, <1>3, <1>9 DEF ExposureTypeOK
  <1>5. OwnersBegun'
    <2>1. \A d \in Clients : client'[d].pc \in {"service", "ingress"} => client'[d] = client[d]
      BY <1>2
    <2>2. \A d \in Clients, q \in Pods : Opens(d, q)' => Opens(d, q)
      BY <1>2 DEF Opens
    <2> QED
      BY <1>0, <2>1, <2>2 DEF OwnersBegun, Begun
  <1>6. KindsApart' /\ OneMaker' /\ HalvesAreInHand'
    BY <1>2, RulesKept
  <1>7. OpenersMeet'
    BY <1>0, <1>2, <1>9 DEF OpenersMeet, Opens
  <1>8. OpenedByAnnotation'
    <2> SUFFICES ASSUME NothingFailed, NEW q \in Pods \ crowded'
                 PROVE  /\ \A d \in Clients : client'[d].pc = "ssh" /\ client'[d].ofPod = q => SSHRules(q) = {}
                        /\ /\ pod[q] # "gone" /\ sshRule'[q] = NoRule
                           /\ \A d \in Clients : ~(client'[d].pc = "annotate" /\ client'[d].ofPod = q)
                           => SSHRules(q) = {}
                        /\ \A x, y \in SSHRules(q) : x = y
      BY DEF OpenedByAnnotation, NothingFailed, SSHRules
    <2>4. q \notin crowded
      BY <1>9
    <2>1. /\ \A d \in Clients : client[d].pc = "ssh" /\ client[d].ofPod = q => SSHRules(q) = {}
          /\ /\ pod[q] # "gone" /\ sshRule[q] = NoRule
             /\ \A d \in Clients : ~(client[d].pc = "annotate" /\ client[d].ofPod = q)
             => SSHRules(q) = {}
          /\ \A x, y \in SSHRules(q) : x = y
      BY <1>0, <2>4 DEF OpenedByAnnotation
    <2>2. CASE client[c].ofPod = q
      <3>1. sshRule'[q] # NoRule \/ pod[q] = "gone"
        <4>1. pod[q] # "none" /\ pod[q] \in {"none", "pending", "running", "gone"}
          BY <1>0, <2>2 DEF OwnersBegun, Opens, ExposureTypeOK
        <4> QED
          BY <1>0, <1>1, <2>2, <4>1 DEF Exists, ExposureTypeOK
      <3>2. \A d \in Clients : client'[d].pc = "ssh" => client'[d] = client[d]
        BY <1>2
      <3> QED
        BY <2>1, <3>1, <3>2
    <2>3. CASE client[c].ofPod # q
      <3>1. \A d \in Clients : client'[d].pc = "ssh" => client'[d] = client[d]
        BY <1>2
      <3>2. \A d \in Clients : client[d].pc = "annotate" /\ client[d].ofPod = q => client'[d] = client[d]
        BY <1>2, <2>3
      <3> QED
        BY <1>3, <2>1, <3>1, <3>2
    <2> QED
      BY <2>2, <2>3
  <1> QED
    BY <1>4, <1>5, <1>6, <1>7, <1>8 DEF ExposureInv

\* OpenSSH's service is made and its address is not found: a failure, after which
\* neither halves of rules nor the number of services are constrained.
LEMMA AddressNotFound ==
    ASSUME ExposureInv, NEW c \in Clients, NEW i \in RuleIds, NEW row \in Rule,
           client' = [client EXCEPT ![c] = AtRest], rule' = [rule EXCEPT ![i] = row],
           UNCHANGED <<workload, pod, sshRule, crowded, seen>>, slips > 0, slips' = slips - 1,
           client[c].pc = "ssh", client[c].ofPod \in Pods,
           rule[i].svc = "none", row.svc = "NodePort", ~row.ing, row.owner = TheJob
    PROVE  ExposureInv'
  <1>0. /\ ExposureTypeOK /\ OwnersBegun /\ KindsApart /\ OneMaker /\ HalvesAreInHand
        /\ OpenersMeet /\ OpenedByAnnotation
    BY DEF ExposureInv
  <1>1. /\ client'[c].pc = "idle" /\ (\A d \in Clients \ {c} : client'[d] = client[d])
        /\ client' \in [Clients -> {AtRest} \cup Call]
    BY <1>0, CallShapes DEF ExposureTypeOK
  <1>2. rule'[i] = row /\ (\A r \in RuleIds \ {i} : rule'[r] = rule[r]) /\ rule' \in [RuleIds -> Rule]
    BY <1>0 DEF ExposureTypeOK
  <1>3. slips' \in 0..MaxSlips /\ ~NothingFailed'
    BY <1>0, ExposureAssumption DEF ExposureTypeOK, NothingFailed
  <1>4. ExposureTypeOK'
    BY <1>0, <1>1, <1>2, <1>3 DEF ExposureTypeOK
  <1>5. (\A d \in Clients : ~Makes(d, i) /\ ~Finds(d, i) /\ ~Deletes(d, i)) /\ ~rule[i].ing
    BY UnusedIsFree
  <1>6. Begun(TheJob)
    BY <1>0 DEF OwnersBegun, Opens, Begun
  <1>7. OwnersBegun'
    <2>1. \A r \in RuleIds : rule'[r].svc # "none" => Begun(rule'[r].owner)
      BY <1>0, <1>2, <1>6 DEF OwnersBegun
    <2>2. \A d \in Clients : client'[d].pc \in {"service", "ingress"} => client'[d] = client[d]
      BY <1>1
    <2>3. \A d \in Clients, q \in Pods : Opens(d, q)' => Opens(d, q)
      BY <1>1 DEF Opens
    <2> QED
      BY <1>0, <2>1, <2>2, <2>3 DEF OwnersBegun, Begun
  <1>8. \A d \in Clients, r \in RuleIds :
           /\ Makes(d, r)' <=> Makes(d, r)
           /\ Finds(d, r)' <=> Finds(d, r)
           /\ Deletes(d, r)' <=> Deletes(d, r)
    BY <1>1 DEF Makes, Finds, Deletes
  <1>9. KindsApart'
    <2>1. \A d \in Clients, r \in RuleIds : client'[d].pc = "unroute" /\ client'[d].found = r
             => client[d].pc = "unroute" /\ client[d].found = r /\ r # i
      BY <1>1, <1>5 DEF Deletes
    <2>2. \A d \in Clients, r \in RuleIds :
             Makes(d, r)' \/ Finds(d, r)' => rule'[r].svc \in {"ClusterIP", "deleted"}
      BY <1>0, <1>2, <1>5, <1>8 DEF KindsApart
    <2> QED
      BY <1>0, <1>2, <2>1, <2>2 DEF KindsApart
  <1>10. OneMaker'
    <2>1. \A r \in RuleIds \ {i} : OwnerGone(r)' <=> OwnerGone(r)
      BY <1>2 DEF OwnerGone, Exists
    <2> QED
      BY <1>0, <1>2, <1>5, <1>8, <2>1 DEF OneMaker
  <1>11. HalvesAreInHand'
    BY <1>3 DEF HalvesAreInHand
  <1>12. OpenersMeet'
    BY <1>0, <1>1 DEF OpenersMeet, Opens
  <1>13. OpenedByAnnotation'
    BY <1>3 DEF OpenedByAnnotation
  <1> QED
    BY <1>4, <1>7, <1>9, <1>10, <1>11, <1>12, <1>13 DEF ExposureInv

\* A call that fails, whatever the request was at.
LEMMA SlipInv ==
    ASSUME ExposureInv, NEW c \in Clients, Slip(c), UNCHANGED <<workload, pod, sshRule, crowded, seen>>
    PROVE  ExposureInv'
  BY RequestStep DEF Slip, SetClient

\* The steps that begin a request or find the rule it is about.
LEMMA RequestBegins ==
    ASSUME ExposureInv, NEW c \in Clients,
           \/ CreateJupyterJob(c) \/ getIngressForService(c)
           \/ \E p \in Pods, k \in Ports : CreatePodIngress(c, p, k)
           \/ \E p \in Pods, k \in Ports, r \in RuleIds : getServiceForPort(c, p, k, r)
    PROVE  ExposureInv'
  <1>0. ExposureTypeOK
    BY DEF ExposureInv
  <1>1. CASE CreateJupyterJob(c)
    <2> DEFINE new == [pc |-> "service", todo |-> JobPorts, owner |-> TheJob]
    <2>1. new \in Call /\ new.pc = "service" /\ new.owner = TheJob
      BY NewCalls, PodsAndJob, ExposureAssumption
    <2>2. /\ client' = [client EXCEPT ![c] = new] /\ UNCHANGED <<pod, sshRule, rule, slips, crowded, seen>>
          /\ workload = "none" /\ workload' = "live" /\ client[c].pc = "idle"
      BY <1>1, CallShapes DEF CreateJupyterJob, SetClient
    <2> HIDE DEF new
    <2>3. Begun(new.owner)'
      BY <2>1, <2>2 DEF Begun
    <2> QED
      BY <2>1, <2>2, <2>3, RequestStep
  <1>2. CASE getIngressForService(c)
    <2>1. client[c].pc = "lookup" /\ client[c].found \in RuleIds
      BY <1>0, <1>2, ClientCalls, CallShapes DEF getIngressForService
    <2>2. UNCHANGED <<workload, pod, sshRule, rule, slips, crowded, seen>>
      BY <1>2 DEF getIngressForService
    <2>3. CASE rule[client[c].found].ing
      <3> DEFINE new == [pc |-> "unserve", found |-> client[c].found]
      <3>1. new \in Call /\ new.pc = "unserve" /\ new.found = client[c].found
        BY <2>1, NewCalls
      <3>2. client' = [client EXCEPT ![c] = new]
        BY <1>2, <2>3 DEF getIngressForService, SetClient
      <3> HIDE DEF new
      <3> QED
        BY <2>1, <2>2, <2>3, <3>1, <3>2, RequestStep
    <2>4. CASE ~rule[client[c].found].ing
      <3>1. client' = [client EXCEPT ![c] = AtRest]
        BY <1>2, <2>4 DEF getIngressForService, SetClient
      <3> QED
        BY <2>1, <2>2, <3>1, RequestStep
    <2> QED
      BY <2>3, <2>4
  <1>3. ASSUME NEW p \in Pods, NEW k \in Ports, CreatePodIngress(c, p, k)
        PROVE  ExposureInv'
    <2> DEFINE new == [pc |-> "service", todo |-> <<k>>, owner |-> p]
    <2>1. new \in Call /\ new.pc = "service" /\ new.owner = p
      <3>1. <<k>> \in Seq(Ports) \ {<<>>}
        OBVIOUS
      <3> QED
        BY <3>1, NewCalls, PodsAndJob
    <2>2. /\ client' = [client EXCEPT ![c] = new]
          /\ UNCHANGED <<workload, pod, sshRule, rule, slips, crowded, seen>>
          /\ client[c].pc = "idle" /\ Exists(p)
      BY <1>3, CallShapes DEF CreatePodIngress, SetClient
    <2> HIDE DEF new
    <2>3. Begun(new.owner)'
      BY <2>1, <2>2, CallShapes DEF Begun, Exists
    <2> QED
      BY <2>1, <2>2, <2>3, RequestStep
  <1>4. ASSUME NEW p \in Pods, NEW k \in Ports, NEW r \in RuleIds, getServiceForPort(c, p, k, r)
        PROVE  ExposureInv'
    <2> DEFINE new == [pc |-> "lookup", found |-> r]
    <2>1. new \in Call /\ new.pc = "lookup" /\ new.found = r
      BY NewCalls
    <2>2. /\ client' = [client EXCEPT ![c] = new]
          /\ UNCHANGED <<workload, pod, sshRule, rule, slips, crowded, seen>>
          /\ client[c].pc = "idle" /\ rule[r].svc = "ClusterIP"
      BY <1>4, CallShapes DEF getServiceForPort, SetClient
    <2> HIDE DEF new
    <2> QED
      BY <2>1, <2>2, RequestStep
  <1> QED
    BY <1>1, <1>2, <1>3, <1>4

\* The steps that make or delete an ingress or a service of one.
LEMMA RuleStep ==
    ASSUME ExposureInv, NEW c \in Clients,
           \/ CreateIngress(c) \/ deleteService(c) \/ deleteIngress(c)
           \/ \E r \in Unused : CreateService(c, r)
    PROVE  ExposureInv'
  <1>0. ExposureTypeOK /\ rule \in [RuleIds -> Rule]
    BY DEF ExposureInv, ExposureTypeOK
  <1>1. CASE Slip(c) /\ UNCHANGED <<workload, pod, sshRule, crowded, seen>>
    BY <1>1, SlipInv
  <1>2. ASSUME CreateIngress(c), ~Slip(c)
        PROVE  ExposureInv'
    <2> DEFINE i == client[c].made
               new == IF client[c].todo = <<>> THEN AtRest
                      ELSE [pc |-> "service", todo |-> client[c].todo, owner |-> client[c].owner]
               row == [rule[i] EXCEPT !.ing = TRUE]
    <2>1. /\ client[c].pc = "ingress" /\ i \in RuleIds
          /\ client[c].todo \in Seq(Ports) /\ client[c].owner \in Owners
      BY <1>0, <1>2, ClientCalls, CallShapes DEF CreateIngress
    <2>2. /\ client' = [client EXCEPT ![c] = new] /\ rule' = [rule EXCEPT ![i].ing = TRUE]
          /\ UNCHANGED <<workload, pod, sshRule, slips, crowded, seen>>
      BY <1>2 DEF CreateIngress, SetClient
    <2>3. /\ new \in {AtRest} \cup Call
          /\ new.pc = "idle" \/ (new.pc = "service" /\ new.owner = client[c].owner)
      BY <2>1, NewCalls, CallShapes
    <2>4. Makes(c, i)
      BY <2>1 DEF Makes
    <2> HIDE DEF i, new
    <2>5. rule' = [rule EXCEPT ![i] = row]
      BY <1>0, <2>1, <2>2
    <2>6. /\ row \in Rule /\ row.svc = rule[i].svc /\ row.ing = TRUE
          /\ row.owner = rule[i].owner /\ row.opened = rule[i].opened
      BY <1>0, <2>1, RuleShapes
    <2> HIDE DEF row
    <2>7. Kept
      BY <2>2 DEF Kept
    <2> QED
      BY <2>1, <2>2, <2>3, <2>4, <2>5, <2>6, <2>7, IngressMade
  <1>3. ASSUME deleteService(c), ~Slip(c)
        PROVE  ExposureInv'
    <2> DEFINE i == client[c].found
               new == [pc |-> "unroute", found |-> i]
               row == [rule[i] EXCEPT !.svc = "deleted"]
    <2>1. client[c].pc = "unserve" /\ i \in RuleIds
      BY <1>0, <1>3, ClientCalls, CallShapes DEF deleteService
    <2>2. /\ client' = [client EXCEPT ![c] = new] /\ rule' = [rule EXCEPT ![i].svc = "deleted"]
          /\ UNCHANGED <<workload, pod, sshRule, slips, crowded, seen>>
      BY <1>3 DEF deleteService, SetClient
    <2>3. new \in Call /\ new.pc = "unroute" /\ new.found = i
      BY <2>1, NewCalls
    <2>4. client[c].found = i
      OBVIOUS
    <2> HIDE DEF i, new
    <2>5. rule' = [rule EXCEPT ![i] = row]
      BY <1>0, <2>1, <2>2
    <2>6. /\ row \in Rule /\ row.svc = "deleted" /\ row.ing = rule[i].ing
          /\ row.owner = rule[i].owner /\ row.opened = rule[i].opened
      BY <1>0, <2>1, RuleShapes
    <2> HIDE DEF row
    <2>7. Kept
      BY <2>2 DEF Kept
    <2> QED
      BY <2>1, <2>2, <2>3, <2>4, <2>5, <2>6, <2>7, ServiceDeleted
  <1>4. ASSUME deleteIngress(c), ~Slip(c)
        PROVE  ExposureInv'
    <2> DEFINE i == client[c].found
               row == [rule[i] EXCEPT !.ing = FALSE]
    <2>1. client[c].pc = "unroute" /\ i \in RuleIds
      BY <1>0, <1>4, ClientCalls, CallShapes DEF deleteIngress
    <2>2. /\ client' = [client EXCEPT ![c] = AtRest] /\ rule' = [rule EXCEPT ![i].ing = FALSE]
          /\ UNCHANGED <<workload, pod, sshRule, slips, crowded, seen>>
      BY <1>4 DEF deleteIngress, SetClient
    <2>4. client[c].found = i
      OBVIOUS
    <2> HIDE DEF i
    <2>5. rule' = [rule EXCEPT ![i] = row]
      BY <1>0, <2>1, <2>2
    <2>6. /\ row \in Rule /\ row.svc = rule[i].svc /\ row.ing = FALSE
          /\ row.owner = rule[i].owner /\ row.opened = rule[i].opened
      BY <1>0, <2>1, RuleShapes
    <2> HIDE DEF row
    <2>7. Kept /\ AtRest.pc = "idle"
      BY <2>2, CallShapes DEF Kept
    <2> QED
      BY <2>1, <2>2, <2>4, <2>5, <2>6, <2>7, IngressDeleted
  <1>5. ASSUME NEW r \in Unused, CreateService(c, r), ~Slip(c)
        PROVE  ExposureInv'
    <2> DEFINE owner == client[c].owner
               new == [pc |-> "ingress", todo |-> Tail(client[c].todo), owner |-> owner, made |-> r]
               row == [svc |-> "ClusterIP", ing |-> FALSE, port |-> Head(client[c].todo),
                       owner |-> owner, opened |-> owner]
    <2>1. /\ client[c].pc = "service" /\ r \in RuleIds /\ rule[r].svc = "none"
          /\ client[c].todo \in Seq(Ports) \ {<<>>} /\ owner \in Owners
      BY <1>0, <1>5, ClientCalls, CallShapes DEF CreateService, Unused
    <2>2. /\ client' = [client EXCEPT ![c] = new] /\ rule' = [rule EXCEPT ![r] = row]
          /\ UNCHANGED <<workload, pod, sshRule, slips, crowded, seen>>
      BY <1>5 DEF CreateService, NewService, SetClient
    <2>3. Head(client[c].todo) \in Ports /\ Tail(client[c].todo) \in Seq(Ports)
      BY <2>1
    <2>4. owner = client[c].owner
      OBVIOUS
    <2> HIDE DEF owner
    <2>5. new \in Call /\ new.pc = "ingress" /\ new.made = r /\ new.owner = owner
      BY <2>1, <2>3, NewCalls
    <2>6. row \in Rule /\ row.svc = "ClusterIP" /\ row.ing = FALSE /\ row.owner = owner
      BY <2>1, <2>3, RuleShapes
    <2> HIDE DEF new, row
    <2>7. Kept
      BY <2>2 DEF Kept
    <2> QED
      BY <2>1, <2>2, <2>4, <2>5, <2>6, <2>7, ServiceMade
  <1>6. ASSUME NEW r \in Unused, CreateService(c, r)
        PROVE  ExposureInv'
    BY <1>1, <1>5, <1>6 DEF CreateService
  <1> QED
    BY <1>1, <1>2, <1>3, <1>4, <1>6 DEF CreateIngress, deleteService, deleteIngress

\* The steps that make node ports.
LEMMA NodePortStep ==
    ASSUME ExposureInv, NEW c \in Clients,
           \/ AnnotatePod(c) \/ \E p \in Pods : OpenSSH(c, p)
           \/ \E r \in Unused : CreateSSHService(c, r)
           \/ \E p \in Pods, k \in Ports, r \in RuleIds : CreatePodNodeport(c, p, k, r)
    PROVE  ExposureInv'
  <1>0. ExposureTypeOK
    BY DEF ExposureInv
  <1>1. CASE AnnotatePod(c)
    <2>1. CASE Slip(c) /\ UNCHANGED <<sshRule, crowded>>
      BY <1>1, <2>1, SlipInv DEF AnnotatePod
    <2>2. CASE ~(Slip(c) /\ UNCHANGED <<sshRule, crowded>>)
      <3>1. /\ client[c].pc = "annotate" /\ client' = [client EXCEPT ![c] = AtRest]
            /\ UNCHANGED <<workload, pod, rule, slips, seen>>
            /\ \/ /\ sshRule' = [sshRule EXCEPT ![client[c].ofPod] = client[c].made]
                  /\ UNCHANGED crowded
               \/ /\ crowded' = IF Exists(client[c].ofPod) THEN crowded \cup {client[c].ofPod} ELSE crowded
                  /\ UNCHANGED sshRule
        BY <1>1, <2>2 DEF AnnotatePod, SetClient
      <3> QED
        BY <3>1, Annotated
    <2> QED
      BY <2>1, <2>2
  <1>2. ASSUME NEW p \in Pods, OpenSSH(c, p)
        PROVE  ExposureInv'
    BY <1>2, SSHOpened
  <1>3. ASSUME NEW r \in Unused, CreateSSHService(c, r)
        PROVE  ExposureInv'
    <2> DEFINE q == client[c].ofPod
               new == [pc |-> "annotate", ofPod |-> q, made |-> r]
               row == [svc |-> "NodePort", ing |-> FALSE, port |-> SSHPort,
                       owner |-> TheJob, opened |-> q]
    <2>1. /\ client[c].pc = "ssh" /\ r \in RuleIds /\ rule[r].svc = "none" /\ q \in Pods
      BY <1>0, <1>3, ClientCalls, CallShapes DEF CreateSSHService, Unused
    <2>2. UNCHANGED <<workload, pod, sshRule, crowded, seen>>
      BY <1>3 DEF CreateSSHService
    <2>3. \/ Slip(c)
          \/ /\ rule' = [rule EXCEPT ![r] = row] /\ client' = [client EXCEPT ![c] = new]
             /\ UNCHANGED slips
          \/ /\ rule' = [rule EXCEPT ![r] = row] /\ client' = [client EXCEPT ![c] = AtRest]
             /\ slips > 0 /\ slips' = slips - 1
      BY <1>3 DEF CreateSSHService, NewService, SetClient
    <2>4. q = client[c].ofPod
      OBVIOUS
    <2> HIDE DEF q
    <2>5. new \in Call /\ new.pc = "annotate" /\ new.ofPod = q /\ new.made = r
      BY <2>1, NewCalls
    <2>6. /\ row \in Rule /\ row.svc = "NodePort" /\ row.ing = FALSE
          /\ row.owner = TheJob /\ row.opened = q
      BY <2>1, RuleShapes, PodsAndJob, ExposureAssumption
    <2> HIDE DEF new, row
    <2>7. CASE Slip(c)
      BY <2>2, <2>7, SlipInv
    <2>8. CASE /\ rule' = [rule EXCEPT ![r] = row] /\ client' = [client EXCEPT ![c] = new]
               /\ UNCHANGED slips
      <3>1. Kept
        BY <2>2, <2>8 DEF Kept
      <3> QED
        BY <2>1, <2>4, <2>5, <2>6, <2>8, <3>1, SSHServiceMade
    <2>9. CASE /\ rule' = [rule EXCEPT ![r] = row] /\ client' = [client EXCEPT ![c] = AtRest]
               /\ slips > 0 /\ slips' = slips - 1
      BY <2>1, <2>2, <2>4, <2>6, <2>9, AddressNotFound
    <2> QED
      BY <2>3, <2>7, <2>8, <2>9
  <1>4. ASSUME NEW p \in Pods, NEW k \in Ports, NEW r \in RuleIds, CreatePodNodeport(c, p, k, r)
        PROVE  ExposureInv'
    <2> DEFINE row == [svc |-> "NodePort", ing |-> FALSE, port |-> k, owner |-> p, opened |-> p]
    <2>1. /\ rule' = [rule EXCEPT ![r] = row] /\ rule[r].svc = "none" /\ Exists(p)
          /\ UNCHANGED client /\ Kept
      BY <1>4 DEF CreatePodNodeport, NewService, Unused, Kept
    <2>2. row \in Rule /\ row.svc = "NodePort" /\ row.ing = FALSE /\ row.owner = p
      BY RuleShapes, PodsAndJob
    <2> HIDE DEF row
    <2> QED
      BY <2>1, <2>2, NodeportMade
  <1> QED
    BY <1>1, <1>2, <1>3, <1>4

\* The invariant holds of every reachable state, whatever the requests that run
\* at one time, the pods that come and go and the calls that fail.
THEOREM ExposureInvariance == ExposureSpec => []ExposureInv
  <1>1. ExposureInit => ExposureInv
    <2> SUFFICES ASSUME ExposureInit PROVE ExposureInv
      OBVIOUS
    <2>1. /\ workload = "none" /\ slips = MaxSlips /\ crowded = {} /\ seen = {}
          /\ \A p \in Pods : pod[p] = "none" /\ sshRule[p] = NoRule
          /\ \A c \in Clients : client[c].pc = "idle"
          /\ \A r \in RuleIds : rule[r].svc = "none" /\ rule[r].ing = FALSE
      BY CallShapes, PodsAndJob DEF ExposureInit
    <2>2. ExposureTypeOK
      BY PodsAndJob, ExposureAssumption DEF ExposureInit, ExposureTypeOK
    <2>3. OwnersBegun /\ KindsApart /\ OneMaker /\ HalvesAreInHand /\ OpenersMeet
      BY <2>1 DEF OwnersBegun, KindsApart, OneMaker, HalvesAreInHand, OpenersMeet,
                  Makes, Finds, Deletes, Opens
    <2>4. OpenedByAnnotation
      BY <2>1 DEF OpenedByAnnotation, SSHRules
    <2> QED
      BY <2>2, <2>3, <2>4 DEF ExposureInv
  <1>2. ExposureInv /\ [ExposureNext]_exposureVars => ExposureInv'
    <2> SUFFICES ASSUME ExposureInv, [ExposureNext]_exposureVars PROVE ExposureInv'
      OBVIOUS
    <2>1. CASE ClusterStep
      BY <2>1, ClusterInv
    <2>9. ASSUME NEW p \in Pods, CachePod(p) PROVE ExposureInv'
      BY <2>9, CacheInv
    <2>2. ASSUME NEW r \in RuleIds, CollectService(r) \/ CollectIngress(r)
          PROVE  ExposureInv'
      BY <2>2, CollectStep
    <2>3. ASSUME NEW c \in Clients,
                 \/ CreateJupyterJob(c) \/ CreateIngress(c) \/ getIngressForService(c)
                 \/ deleteService(c) \/ deleteIngress(c) \/ AnnotatePod(c)
          PROVE  ExposureInv'
      BY <2>3, RequestBegins, RuleStep, NodePortStep
    <2>4. ASSUME NEW c \in Clients, NEW r \in Unused, CreateService(c, r) \/ CreateSSHService(c, r)
          PROVE  ExposureInv'
      BY <2>4, RuleStep, NodePortStep
    <2>5. ASSUME NEW c \in Clients, NEW p \in Pods, OpenSSH(c, p)
          PROVE  ExposureInv'
      BY <2>5, NodePortStep
    <2>6. ASSUME NEW c \in Clients, NEW p \in Pods, NEW k \in Ports, CreatePodIngress(c, p, k)
          PROVE  ExposureInv'
      BY <2>6, RequestBegins
    <2>7. ASSUME NEW c \in Clients, NEW p \in Pods, NEW k \in Ports, NEW r \in RuleIds,
                 getServiceForPort(c, p, k, r) \/ CreatePodNodeport(c, p, k, r) \/ DeletePodNodeport(c, p, k, r)
          PROVE  ExposureInv'
      BY <2>7, RequestBegins, NodePortStep, CollectStep
    <2>8. CASE UNCHANGED exposureVars
      BY <2>8 DEF exposureVars, ExposureInv, ExposureTypeOK, OwnersBegun, KindsApart, OneMaker,
                  HalvesAreInHand, OpenersMeet, OpenedByAnnotation, NothingFailed, SSHRules,
                  Begun, OwnerGone, Exists, Makes, Finds, Deletes, Opens
    <2> QED
      BY <2>1, <2>2, <2>3, <2>4, <2>5, <2>6, <2>7, <2>8, <2>9 DEF ExposureNext, ClusterStep
  <1> QED
    BY <1>1, <1>2, PTL DEF ExposureSpec

\* With no request in progress and no call failed, every service of a rule has
\* its ingress and every ingress its service, however requests on one port met.
THEOREM RulesAreWhole == ExposureSpec => []RulesWhole
  <1>1. ExposureInv => RulesWhole
    <2> SUFFICES ASSUME ExposureInv, Quiet, NothingFailed, NEW r \in RuleIds, ~OwnerGone(r),
                        rule[r].svc = "ClusterIP" \/ rule[r].ing
                 PROVE  rule[r].svc = "ClusterIP" /\ rule[r].ing
      BY DEF RulesWhole, Shown
    <2>1. \A c \in Clients : client[c].pc = "idle"
      BY CallShapes DEF Quiet
    <2>2. /\ ~(rule[r].svc = "ClusterIP" /\ ~rule[r].ing)
          /\ ~(rule[r].svc = "deleted" /\ rule[r].ing)
      BY <2>1 DEF ExposureInv, HalvesAreInHand, Makes
    <2>3. rule[r].ing => rule[r].svc \in {"ClusterIP", "deleted"}
      BY DEF ExposureInv, KindsApart
    <2> QED
      BY <2>2, <2>3
  <1> QED
    BY <1>1, ExposureInvariance, PTL

\* OpenSSH opens one node port for a pod, as long as no call fails, no two requests
\* for the pod run at one time and none has a copy of the pod older than the pod.
THEOREM SSHIsOpenedOnce == ExposureSpec => []SSHOpenedOnce
  <1>1. ExposureInv => SSHOpenedOnce
    <2> SUFFICES ASSUME ExposureInv, NothingFailed, NEW p \in Pods \ crowded
                 PROVE  Cardinality(SSHRules(p)) <= 1
      BY DEF SSHOpenedOnce, SSHRules
    <2>1. \A q, r \in SSHRules(p) : q = r
      BY DEF ExposureInv, OpenedByAnnotation
    <2>2. CASE SSHRules(p) = {}
      BY <2>2, FS_EmptySet
    <2>3. CASE SSHRules(p) # {}
      <3>1. PICK q : SSHRules(p) = {q}
        BY <2>1, <2>3
      <3>2. Cardinality({q}) = 1
        BY FS_Singleton
      <3> QED
        BY <3>1, <3>2
    <2> QED
      BY <2>2, <2>3
  <1> QED
    BY <1>1, ExposureInvariance, PTL
=============================================================================
