---------------------------- MODULE AwaitProofs ----------------------------
(***************************************************************************)
(* Proofs about one await call (module Await), for every value of the     *)
(* constants: the type invariant, and that an await returns success only   *)
(* for an object that reached the state its kind's wait is for.            *)
(***************************************************************************)
EXTENDS Await, TLAPS

\* What membership in Objects(k) amounts to.
LEMMA ObjectsDef ==
  ASSUME NEW k, NEW o
  PROVE  o \in Objects(k) <=>
           /\ o = [spec |-> o.spec, status |-> o.status]
           /\ o.spec \in SpecValues(k)
           /\ o.status \in StatusValues(k, o.spec)
BY DEF Objects

\* A status change keeps an object of kind k an object of kind k.
LEMMA StatusUpdate ==
  ASSUME NEW k, NEW o \in Objects(k), NEW s \in StatusValues(k, o.spec)
  PROVE  [o EXCEPT !.status = s] \in Objects(k)
BY ObjectsDef

-----------------------------------------------------------------------------
(* The registry: which awaiter each kind and operation gets.                *)

\* The non-nil slots of the registry, as (kind, operation, awaiter).
RegistryTable ==
  {<<"Deployment", "create", "untilAppsDeploymentInitialized">>,
   <<"Deployment", "update", "untilAppsDeploymentUpdated">>,
   <<"Deployment", "delete", "untilAppsDeploymentDeleted">>,
   <<"Namespace", "delete", "untilCoreV1NamespaceDeleted">>,
   <<"PersistentVolume", "create", "untilCoreV1PersistentVolumeInitialized">>,
   <<"PersistentVolumeClaim", "create", "untilCoreV1PersistentVolumeClaimBound">>,
   <<"Pod", "create", "untilCoreV1PodInitialized">>,
   <<"Pod", "delete", "untilCoreV1PodDeleted">>,
   <<"ReplicationController", "create", "untilCoreV1ReplicationControllerInitialized">>,
   <<"ReplicationController", "update", "untilCoreV1ReplicationControllerUpdated">>,
   <<"ReplicationController", "delete", "untilCoreV1ReplicationControllerDeleted">>,
   <<"ResourceQuota", "create", "untilCoreV1ResourceQuotaInitialized">>,
   <<"ResourceQuota", "update", "untilCoreV1ResourceQuotaUpdated">>,
   <<"Service", "create", "untilCoreV1ServiceInitialized">>,
   <<"ServiceAccount", "create", "untilCoreV1ServiceAccountInitialized">>,
   <<"Ingress", "create", "untilExtensionsV1Beta1IngressInitialized">>}

\* The registry lookup of the provider's call site either finds no awaiter
\* or finds one written for the object's kind and the operation performed.
LEMMA RegistrySlots ==
  ASSUME op \in Ops
  PROVE  Fn = None \/ <<Kind, op, Fn>> \in RegistryTable
<1>1. CASE gvk \notin DOMAIN awaiters
  BY <1>1 DEF Fn, AwaiterFor, Lookup, AwaitSpec, Ops
<1>2. CASE gvk \in DeploymentGVKs
  BY <1>2 DEF Fn, Kind, KindOf, AwaiterFor, Lookup, awaiters, deploymentAwaiter,
             AwaitSpec, Ops, RegistryTable
<1>3. CASE gvk \in DOMAIN awaiters /\ gvk \notin DeploymentGVKs
  <2>1. CASE gvk = "v1/Namespace"
    BY <1>3, <2>1 DEF Fn, Kind, KindOf, AwaiterFor, Lookup, awaiters, AwaitSpec,
       Ops, RegistryTable, DeploymentGVKs
  <2>2. CASE gvk = "v1/PersistentVolume"
    BY <1>3, <2>2 DEF Fn, Kind, KindOf, AwaiterFor, Lookup, awaiters, AwaitSpec,
       Ops, RegistryTable, DeploymentGVKs
  <2>3. CASE gvk = "v1/PersistentVolumeClaim"
    BY <1>3, <2>3 DEF Fn, Kind, KindOf, AwaiterFor, Lookup, awaiters, AwaitSpec,
       Ops, RegistryTable, DeploymentGVKs
  <2>4. CASE gvk = "v1/Pod"
    BY <1>3, <2>4 DEF Fn, Kind, KindOf, AwaiterFor, Lookup, awaiters, AwaitSpec,
       Ops, RegistryTable, DeploymentGVKs
  <2>5. CASE gvk = "v1/ReplicationController"
    BY <1>3, <2>5 DEF Fn, Kind, KindOf, AwaiterFor, Lookup, awaiters, AwaitSpec,
       Ops, RegistryTable, DeploymentGVKs
  <2>6. CASE gvk = "v1/ResourceQuota"
    BY <1>3, <2>6 DEF Fn, Kind, KindOf, AwaiterFor, Lookup, awaiters, AwaitSpec,
       Ops, RegistryTable, DeploymentGVKs
  <2>7. CASE gvk = "v1/Service"
    BY <1>3, <2>7 DEF Fn, Kind, KindOf, AwaiterFor, Lookup, awaiters, AwaitSpec,
       Ops, RegistryTable, DeploymentGVKs
  <2>8. CASE gvk = "v1/ServiceAccount"
    BY <1>3, <2>8 DEF Fn, Kind, KindOf, AwaiterFor, Lookup, awaiters, AwaitSpec,
       Ops, RegistryTable, DeploymentGVKs
  <2>9. CASE gvk = "extensions/v1beta1/Ingress"
    BY <1>3, <2>9 DEF Fn, Kind, KindOf, AwaiterFor, Lookup, awaiters, AwaitSpec,
       Ops, RegistryTable, DeploymentGVKs
  <2>10. CASE gvk \notin {"v1/Namespace", "v1/PersistentVolume",
                          "v1/PersistentVolumeClaim", "v1/Pod",
                          "v1/ReplicationController", "v1/ResourceQuota",
                          "v1/Service", "v1/ServiceAccount",
                          "extensions/v1beta1/Ingress"}
    BY <1>3, <2>10 DEF Fn, AwaiterFor, Lookup, awaiters, AwaitSpec, Ops,
       DeploymentGVKs
  <2>. QED
    BY <2>1, <2>2, <2>3, <2>4, <2>5, <2>6, <2>7, <2>8, <2>9, <2>10
<1>. QED
  BY <1>1, <1>2, <1>3

\* A registered awaiter of a kind that watches is never a deletion awaiter.
LEMMA WatchSlots ==
  ASSUME op \in Ops, Fn \in WatchAwaiters
  PROVE  /\ <<Kind, op, Fn>> \in RegistryTable
         /\ op # "delete"
         /\ Fn # None
BY RegistrySlots DEF RegistryTable, WatchAwaiters, None

-----------------------------------------------------------------------------
(* The predicates are sound: they accept only converged states.            *)

\* When WatchUntil's predicate accepts the serialization of a state o of
\* the awaited object (same spec as the inputs), o is a state the spec
\* says the wait is for.
LEMMA PredicateSound ==
  ASSUME TypeOK, NEW o \in Objects(Kind), o.spec = obj.spec,
         Fn \in WatchAwaiters
  PROVE  WatchPredicate(Fn, Inputs(Kind, obj), Serialize(Kind, o)) => KindConverged(o)
<1> USE ConstantsAssumption DEF SpecReplicas, StatusAvailable, StatusPhase,
      SpecHard, StatusHard, SpecType, StatusLBIngress, Secrets, Paths, Nil,
      Int64, String, Slice, Map
<1>1. <<Kind, op, Fn>> \in RegistryTable
  BY WatchSlots DEF TypeOK
<1>2. o.spec \in SpecValues(Kind) /\ o.status \in StatusValues(Kind, o.spec)
  BY ObjectsDef
<1>3. CASE Kind \in Replicators
  <2>1. o.spec \in Nat /\ o.status \in 0..MaxReplicas
    BY <1>2, <1>3 DEF SpecValues, StatusValues, Replicators
  <2>2. Fn \in {"untilAppsDeploymentInitialized", "untilAppsDeploymentUpdated",
                "untilCoreV1ReplicationControllerInitialized",
                "untilCoreV1ReplicationControllerUpdated"}
    BY <1>1, <1>3 DEF RegistryTable, Replicators, WatchAwaiters
  <2>3. Pluck(Serialize(Kind, o), StatusAvailable)[2] => o.status > 0
    BY <1>3, <2>1 DEF Pluck, Serialize, Field, Paths, SpecReplicas, StatusAvailable,
       Int64, Nil, Replicators, PhaseKinds
  <2>4. Pluck(Serialize(Kind, o), SpecReplicas) = <<Int64(o.spec), TRUE>>
    BY <1>3 DEF Pluck, Serialize, Field, Paths, SpecReplicas, Int64, Nil, Replicators
  <2>5. o.status > 0 => Pluck(Serialize(Kind, o), StatusAvailable) = <<Int64(o.status), TRUE>>
    BY <1>3 DEF Pluck, Serialize, Field, Paths, SpecReplicas, StatusAvailable, Int64, Nil,
       Replicators
  <2> SUFFICES ASSUME WatchPredicate(Fn, Inputs(Kind, obj), Serialize(Kind, o))
               PROVE  KindConverged(o)
    OBVIOUS
  <2>6. /\ Pluck(Serialize(Kind, o), StatusAvailable)[2]
        /\ Pluck(Serialize(Kind, o), StatusAvailable)[1]
             = Pluck(Serialize(Kind, o), SpecReplicas)[1]
    <3>1. CASE Fn \in {"untilAppsDeploymentInitialized", "untilAppsDeploymentUpdated"}
      BY <3>1 DEF WatchPredicate, untilAppsDeploymentInitialized, untilAppsDeploymentUpdated,
         waitForDesiredReplicasFunc, deploymentSpecReplicas,
         availableReplicas
    <3>2. CASE Fn \in {"untilCoreV1ReplicationControllerInitialized",
                       "untilCoreV1ReplicationControllerUpdated"}
      BY <3>2 DEF WatchPredicate, untilCoreV1ReplicationControllerInitialized,
         untilCoreV1ReplicationControllerUpdated, waitForDesiredReplicasFunc,
         replicationControllerSpecReplicas, availableReplicas
    <3>. QED
      BY <2>2, <3>1, <3>2
  <2>7. o.status = o.spec
    <3>1. o.status > 0
      BY <2>3, <2>6
    <3>2. Pluck(Serialize(Kind, o), StatusAvailable) = <<Int64(o.status), TRUE>>
      BY <3>1, <2>5
    <3>3. Pluck(Serialize(Kind, o), SpecReplicas)[1] = <<"int64", o.spec>>
      BY <2>4
    <3>4. <<"int64", o.status>> = <<"int64", o.spec>>
      BY <3>2, <3>3, <2>6
    <3>. QED
      BY <3>4
  <2>. QED
    BY <1>3, <2>7 DEF KindConverged
<1>4. CASE Kind \in {"PersistentVolume", "PersistentVolumeClaim", "Pod"}
  <2> SUFFICES ASSUME WatchPredicate(Fn, Inputs(Kind, obj), Serialize(Kind, o))
               PROVE  KindConverged(o)
    OBVIOUS
  <2>1. Pluck(Serialize(Kind, o), StatusPhase)[1]
          = IF o.status # EmptyString THEN String(o.status) ELSE Nil
    BY <1>4 DEF Pluck, Serialize, Field, PhaseKinds, Replicators
  <2>2. CASE Kind = "PersistentVolume"
    <3>1. Fn = "untilCoreV1PersistentVolumeInitialized"
      BY <1>1, <2>2 DEF RegistryTable, WatchAwaiters
    <3>2. Pluck(Serialize(Kind, o), StatusPhase)[1] \in {String("Available"), String("Bound")}
      BY <3>1 DEF WatchPredicate, untilCoreV1PersistentVolumeInitialized, pvAvailableOrBound
    <3>. QED
      BY <2>1, <2>2, <3>2 DEF KindConverged
  <2>3. CASE Kind = "PersistentVolumeClaim"
    <3>1. Fn = "untilCoreV1PersistentVolumeClaimBound"
      BY <1>1, <2>3 DEF RegistryTable, WatchAwaiters
    <3>2. Pluck(Serialize(Kind, o), StatusPhase)[1] = String("Bound")
      BY <3>1 DEF WatchPredicate, untilCoreV1PersistentVolumeClaimBound, pvcBound
    <3>. QED
      BY <2>1, <2>3, <3>2 DEF KindConverged
  <2>4. CASE Kind = "Pod"
    <3>1. Fn = "untilCoreV1PodInitialized"
      BY <1>1, <2>4 DEF RegistryTable, WatchAwaiters
    <3>2. Pluck(Serialize(Kind, o), StatusPhase)[1] = String("Running")
      BY <3>1 DEF WatchPredicate, untilCoreV1PodInitialized, podRunning
    <3>. QED
      BY <2>1, <2>4, <3>2 DEF KindConverged
  <2>. QED
    BY <1>4, <2>2, <2>3, <2>4
<1>5. CASE Kind = "ResourceQuota"
  <2>1. Fn \in {"untilCoreV1ResourceQuotaInitialized", "untilCoreV1ResourceQuotaUpdated"}
    BY <1>1, <1>5 DEF RegistryTable, WatchAwaiters
  <2>2. Pluck(Serialize(Kind, o), SpecHard)[1] = Map(o.spec)
    BY <1>5 DEF Pluck, Serialize, Field, PhaseKinds, Replicators
  <2>3. WatchPredicate(Fn, Inputs(Kind, obj), Serialize(Kind, o)) = rqInitialized(Serialize(Kind, o))
    BY <2>1 DEF WatchPredicate, untilCoreV1ResourceQuotaInitialized
  <2>4. ~rqInitialized(Serialize(Kind, o))
    BY <2>2 DEF rqInitialized, IsType, TypeOf
  <2>. QED
    BY <2>3, <2>4
<1>6. CASE Kind \in {"Service", "Ingress"}
  <2> SUFFICES ASSUME WatchPredicate(Fn, Inputs(Kind, obj), Serialize(Kind, o))
               PROVE  KindConverged(o)
    OBVIOUS
  <2>1. Fn \in {"untilCoreV1ServiceInitialized", "untilExtensionsV1Beta1IngressInitialized"}
    BY <1>1, <1>6 DEF RegistryTable, WatchAwaiters
  <2>2. o.status \in 0..1
    BY <1>2, <1>6 DEF StatusValues, Replicators
  <2>3. Pluck(Serialize(Kind, o), StatusLBIngress)[1] = IF o.status > 0 THEN Slice(o.status) ELSE Nil
    BY <1>6, <2>2 DEF Pluck, Serialize, Field, PhaseKinds, Replicators
  <2>4. externalIPAllocated(Serialize(Kind, o))
    BY <2>1 DEF WatchPredicate, untilCoreV1ServiceInitialized, untilExtensionsV1Beta1IngressInitialized
  <2>5. o.status > 0
    BY <2>3, <2>4 DEF externalIPAllocated, IsType, TypeOf, ValueOf
  <2>. QED
    BY <1>6, <2>2, <2>5 DEF KindConverged
<1>7. CASE Kind = "ServiceAccount"
  <2> SUFFICES ASSUME WatchPredicate(Fn, Inputs(Kind, obj), Serialize(Kind, o))
               PROVE  KindConverged(o)
    OBVIOUS
  <2>1. Fn = "untilCoreV1ServiceAccountInitialized"
    BY <1>1, <1>7 DEF RegistryTable, WatchAwaiters
  <2>2. /\ o.spec \in {Nil, Slice(0), Slice(1)}
        /\ o.status \in {SecretsLen(o.spec), SecretsLen(o.spec) + 1}
    BY <1>2, <1>7 DEF SpecValues, StatusValues, Replicators
  <2>3. SecretsLen(o.spec) \in Nat
    BY <2>2 DEF SecretsLen, ValueOf
  <2>4. numSpecSecrets(Inputs(Kind, obj)) = SecretsLen(o.spec)
    BY <1>7, <2>2 DEF numSpecSecrets, Inputs, InputField, Pluck, SecretsLen, IsType,
       TypeOf, ValueOf, Replicators
  <2>5. Pluck(Serialize(Kind, o), Secrets)[1] = IF o.status > 0 THEN Slice(o.status) ELSE Nil
    BY <1>7, <2>2, <2>3 DEF Pluck, Serialize, Field, PhaseKinds, Replicators
  <2>6. defaultSecretAllocated(numSpecSecrets(Inputs(Kind, obj)), Serialize(Kind, o))
    BY <2>1 DEF WatchPredicate, untilCoreV1ServiceAccountInitialized
  <2>7. o.status > SecretsLen(o.spec)
    BY <2>4, <2>5, <2>6 DEF defaultSecretAllocated, IsType, TypeOf, ValueOf
  <2>. QED
    BY <1>7, <2>2, <2>3, <2>7 DEF KindConverged
<1>. QED
  BY <1>1, <1>3, <1>4, <1>5, <1>6, <1>7 DEF RegistryTable, WatchAwaiters, Replicators

\* A deletion check reports done only when the get found the object gone:
\* a failed get is an error (or a crash), and a namespace that still exists
\* always has a phase.
LEMMA CheckSound ==
  ASSUME TypeOK, Fn \in DeletionAwaiters, NEW r \in GetResults
  PROVE  DeletionCheck(Fn, r) = "done" => ~exists
<1> USE DEF StatusPhase, Paths, Nil, String
<1>1. <<Kind, op, Fn>> \in RegistryTable
  BY RegistrySlots DEF TypeOK, DeletionAwaiters, None
<1>2. LogErrorWithName(NilObject) # "done"
  BY DEF LogErrorWithName
<1>3. CASE r = FailedGet
  <2>1. r.err = "error" /\ r.obj = NilObject
    BY <1>3 DEF FailedGet
  <2>2. LogErrorWithName(r.obj) # "done"
    BY <1>2, <2>1
  <2>3. deploymentMissing(r) # "done"
    BY <2>1, <2>2 DEF deploymentMissing
  <2>4. rcMissing(r) # "done"
    BY <2>1, <2>2 DEF rcMissing
  <2>5. namespaceMissingOrKilled(r) # "done"
    BY <2>1, <2>2 DEF namespaceMissingOrKilled
  <2>6. podMissingOrKilled(r) # "done"
    BY <2>1 DEF podMissingOrKilled
  <2>. QED
    BY <2>3, <2>4, <2>5, <2>6 DEF DeletionCheck, DeletionAwaiters, untilAppsDeploymentDeleted, untilCoreV1NamespaceDeleted, untilCoreV1PodDeleted,
     untilCoreV1ReplicationControllerDeleted
<1>4. CASE r = CurrentGet /\ exists
  <2>1. r.err = "none" /\ r.obj = Serialize(Kind, obj)
    BY <1>4 DEF CurrentGet
  <2>2. CASE Fn = "untilCoreV1NamespaceDeleted"
    <3>1. Kind = "Namespace"
      BY <1>1, <2>2 DEF RegistryTable
    <3>2. obj.status \in {"Active", "Terminating"}
      BY <3>1, ObjectsDef DEF TypeOK, StatusValues, Replicators
    <3>3. Pluck(r.obj, StatusPhase)[1] = String(obj.status)
      BY <2>1, <3>1, <3>2 DEF Pluck, Serialize, Field, Replicators, PhaseKinds,
         EmptyString
    <3>4. Pluck(r.obj, StatusPhase)[1] # String(EmptyString)
      BY <3>2, <3>3 DEF EmptyString
    <3>. QED
      BY <2>1, <2>2, <3>4 DEF DeletionCheck, namespaceMissingOrKilled,
         untilCoreV1NamespaceDeleted
  <2>3. CASE Fn # "untilCoreV1NamespaceDeleted"
    BY <2>1, <2>3 DEF DeletionCheck, untilAppsDeploymentDeleted, untilCoreV1NamespaceDeleted, untilCoreV1PodDeleted,
     untilCoreV1ReplicationControllerDeleted, deploymentMissing, podMissingOrKilled,
       rcMissing, DeletionAwaiters
  <2>. QED
    BY <2>2, <2>3
<1>. QED
  BY <1>3, <1>4 DEF GetResults

\* The initial states are well typed.
LEMMA InitType == Init => TypeOK
<1> SUFFICES ASSUME Init PROVE TypeOK
  OBVIOUS
<1>1. obj.spec \in SpecValues(Kind)
  BY ObjectsDef DEF Init, Kind
<1>2. lastSpec \in SpecValues(Kind)
  BY <1>1 DEF Init, Kind
<1>3. exists \in BOOLEAN
  <2>1. CASE op = "delete"
    BY <2>1 DEF Init
  <2>2. CASE op # "delete"
    BY <2>2 DEF Init
  <2>. QED
    BY <2>1, <2>2
<1>4. stream \in Seq(Objects(Kind)) /\ changes \in 0..MaxChanges /\ faults \in 0..MaxFaults
  BY ConstantsAssumption DEF Init
<1>5. pc \in PCs /\ waitErr \in SUBSET ErrorParts /\ result \in SUBSET ErrorParts
  BY DEF Init, PCs
<1>6. wasConverged \in BOOLEAN
  BY DEF Init, ConvergedState
<1>. QED
  BY <1>2, <1>3, <1>4, <1>5, <1>6 DEF Init, TypeOK, Kind

\* Every step keeps the variables in their types.
LEMMA TypeStep == TypeOK /\ [Next]_vars => TypeOK'
<1> SUFFICES ASSUME TypeOK, [Next]_vars PROVE TypeOK'
  OBVIOUS
<1>. USE ConstantsAssumption DEF TypeOK, Kind, Fn
<1>1. CASE StartAwait
  <2>1. pc' \in {"done", "events", "retry", "watch"}
    <3>1. CASE Fn \in EventAwaiters
      BY <1>1, <3>1 DEF StartAwait, Return
    <3>2. CASE Fn \notin EventAwaiters /\ Fn \in DeletionAwaiters
      BY <1>1, <3>2 DEF StartAwait, Return
    <3>3. CASE Fn \notin EventAwaiters /\ Fn \notin DeletionAwaiters
      BY <1>1, <3>3 DEF StartAwait, Return
    <3>. QED
      BY <3>1, <3>2, <3>3
  <2>2. result' \in SUBSET ErrorParts
    BY <1>1 DEF StartAwait, Return
  <2>. QED
    BY <1>1, <2>1, <2>2 DEF StartAwait, Return, PCs
<1>2. CASE EventClient
  <2>1. CASE faults < MaxFaults /\ faults' = faults + 1 /\ Return({"eventClient"})
    BY <1>2, <2>1 DEF EventClient, Return, PCs, ErrorParts
  <2>2. CASE Return({}) /\ faults' = faults
    BY <1>2, <2>2 DEF EventClient, Return, PCs, ErrorParts
  <2>3. CASE pc' = "watch" /\ UNCHANGED <<faults, watch, result>>
    BY <1>2, <2>3 DEF EventClient, PCs
  <2>. QED
    BY <1>2, <2>1, <2>2, <2>3 DEF EventClient
<1>3. CASE Subscribe
  BY <1>3 DEF Subscribe
<1>4. CASE Deliver
  <2>1. stream # <<>> /\ stream' = Tail(stream)
    BY <1>4 DEF Deliver
  <2>2. stream' \in Seq(Objects(Kind))
    BY <2>1
  <2>3. convergedObserved' \in BOOLEAN
    BY <1>4 DEF Deliver, ConvergedState
  <2>4. pc' \in PCs /\ watch' \in {"none", "open", "broken", "closed"}
        /\ result' \in SUBSET ErrorParts /\ waitErr' = waitErr
    BY <1>4 DEF Deliver, Return, PCs
  <2>. QED
    BY <1>4, <2>2, <2>3, <2>4 DEF Deliver
<1>5. CASE Poll
  <2> PICK r \in GetResults : PollResult(r)
    BY <1>5 DEF Poll
  <2>1. r.err = "error" => faults < MaxFaults
    BY DEF GetResults, CurrentGet, FailedGet
  <2>2. faults' \in 0..MaxFaults
    BY <2>1 DEF PollResult
  <2>. QED
    BY <2>2 DEF PollResult, Return, PCs, ErrorParts
<1>6. CASE Expire
  BY <1>6 DEF Expire, EndWait, Return, PCs, ErrorParts
<1>7. CASE FetchWarnings
  <2>1. CASE Return(waitErr \cup {"events"}) /\ faults' = faults
    BY <1>7, <2>1 DEF FetchWarnings, Return, PCs, ErrorParts
  <2>2. CASE faults < MaxFaults /\ faults' = faults + 1 /\ Return({"warningsFetch"})
    BY <1>7, <2>2 DEF FetchWarnings, Return, PCs, ErrorParts
  <2>. QED
    BY <1>7, <2>1, <2>2 DEF FetchWarnings
<1>8. CASE StatusChange
  <2> PICK s \in StatusValues(Kind, obj.spec) \ {obj.status} :
        /\ obj' = [obj EXCEPT !.status = s]
        /\ stream' = IF watch = "open" THEN Append(stream, obj') ELSE stream
        /\ wasConverged' = (wasConverged \/ ConvergedState(obj', TRUE))
    BY <1>8 DEF StatusChange
  <2>1. obj' \in Objects(Kind)
    BY StatusUpdate
  <2>. QED
    BY <1>8, <2>1 DEF StatusChange
<1>9. CASE ObjectRemoved
  BY <1>9 DEF ObjectRemoved
<1>10. CASE WatchBreaks
  BY <1>10 DEF WatchBreaks
<1>11. CASE Cancel
  BY <1>11 DEF Cancel, EndWait, Return, PCs, ErrorParts
<1>12. CASE UNCHANGED vars
  BY <1>12 DEF vars
<1>. QED
  BY <1>1, <1>2, <1>3, <1>4, <1>5, <1>6, <1>7, <1>8, <1>9, <1>10, <1>11, <1>12
     DEF Next, Awaiter, Environment

-----------------------------------------------------------------------------
(* SuccessImpliesConverged, through the inductive invariant IInv.          *)

\* Every awaiter the registry holds either watches or polls for deletion,
\* the deletion awaiters serve deletions only, and the awaiters that
\* fetch events are watching ones.
LEMMA SlotClasses ==
  ASSUME op \in Ops
  PROVE  /\ Fn # None => Fn \in WatchAwaiters \cup DeletionAwaiters
         /\ Fn \in DeletionAwaiters => op = "delete" /\ Fn # None
         /\ EventAwaiters \subseteq WatchAwaiters
BY RegistrySlots DEF RegistryTable, WatchAwaiters, DeletionAwaiters, EventAwaiters,
   None

\* What the wait is for depends only on the kind, the operation and the
\* previous spec, which no step changes.
LEMMA ConvergedPrime ==
  ASSUME NEW t, NEW ex, gvk' = gvk, op' = op, lastSpec' = lastSpec
  PROVE  ConvergedState(t, ex)' = ConvergedState(t, ex)
BY DEF ConvergedState, KindConverged, DeletionConverged, Fn, Kind

\* The initial states satisfy the inductive invariant.
LEMMA InitIInv == Init => IInv
<1> SUFFICES ASSUME Init PROVE IInv
  OBVIOUS
<1>1. TypeOK
  BY InitType
<1>. QED
  BY <1>1 DEF Init, IInv, InvPhase, InvCurrent, InvStream, SuccessImpliesConverged

\* Every step preserves the inductive invariant.
LEMMA IInvStep == IInv /\ [Next]_vars => IInv'
<1> SUFFICES ASSUME IInv, [Next]_vars PROVE IInv'
  OBVIOUS
<1>1. TypeOK /\ TypeOK'
  BY TypeStep DEF IInv
<1>2. op \in Ops /\ obj \in Objects(Kind)
  BY <1>1 DEF TypeOK
<1>3. InvPhase /\ InvCurrent /\ InvStream /\ SuccessImpliesConverged
  BY DEF IInv
<1>4. gvk' = gvk /\ op' = op /\ lastSpec' = lastSpec
  BY DEF Next, Awaiter, Environment, StartAwait, EventClient, Subscribe, Deliver,
     Poll, PollResult, Expire, FetchWarnings, StatusChange, ObjectRemoved,
     WatchBreaks, Cancel, vars
<1>5. Fn' = Fn /\ Kind' = Kind
  BY <1>4 DEF Fn, Kind
<1>6. ASSUME NEW t, NEW ex PROVE ConvergedState(t, ex)' = ConvergedState(t, ex)
  BY <1>4, ConvergedPrime
<1>7. SUFFICES InvPhase' /\ InvCurrent' /\ InvStream' /\ SuccessImpliesConverged'
  BY <1>1 DEF IInv
<1>8. CASE StartAwait
  <2>1. UNCHANGED <<obj, exists, stream, wasConverged>>
    BY <1>8 DEF StartAwait
  <2>2. InvCurrent' /\ InvStream'
    BY <1>3, <1>6, <2>1 DEF InvCurrent, InvStream
  <2>3. InvPhase' /\ SuccessImpliesConverged'
    <3>1. CASE /\ \/ Fn = None
                  \/ Fn = "untilCoreV1ResourceQuotaUpdated" /\ lastSpec = obj.spec
               /\ Return({})
      <4>1. ConvergedState(obj, exists)
        <5>1. CASE Fn = None
          BY <5>1 DEF ConvergedState
        <5>2. CASE Fn = "untilCoreV1ResourceQuotaUpdated" /\ lastSpec = obj.spec
          <6>1. <<Kind, op, Fn>> \in RegistryTable
            BY <1>2, <5>2, RegistrySlots DEF None
          <6>2. Kind = "ResourceQuota" /\ op = "update"
            BY <5>2, <6>1 DEF RegistryTable
          <6>3. KindConverged(obj)
            BY <5>2, <6>2 DEF KindConverged
          <6>. QED
            BY <5>2, <6>2, <6>3 DEF ConvergedState, None
        <5>. QED
          BY <3>1, <5>1, <5>2
      <4>2. wasConverged'
        BY <1>3, <2>1, <4>1 DEF InvCurrent
      <4>. QED
        BY <3>1, <4>2 DEF Return, InvPhase, SuccessImpliesConverged
    <3>2. CASE /\ Fn # None
               /\ pc' = CASE Fn \in EventAwaiters    -> "events"
                          [] Fn \in DeletionAwaiters -> "retry"
                          [] OTHER                   -> "watch"
      <4>1. Fn \in WatchAwaiters \cup DeletionAwaiters
            /\ EventAwaiters \subseteq WatchAwaiters
        BY <1>2, <3>2, SlotClasses
      <4>2. InvPhase'
        BY <1>5, <3>2, <4>1 DEF InvPhase, EventAwaiters, DeletionAwaiters, WatchAwaiters
      <4>3. SuccessImpliesConverged'
        BY <3>2 DEF SuccessImpliesConverged, EventAwaiters, DeletionAwaiters
      <4>. QED
        BY <4>2, <4>3
    <3>. QED
      BY <1>8, <3>1, <3>2 DEF StartAwait
  <2>. QED
    BY <2>2, <2>3
<1>9. CASE EventClient
  <2>1. UNCHANGED <<obj, exists, stream, wasConverged>> /\ pc = "events"
    BY <1>9 DEF EventClient
  <2>2. InvCurrent' /\ InvStream'
    BY <1>3, <1>6, <2>1 DEF InvCurrent, InvStream
  <2>3. Fn \in WatchAwaiters
    BY <1>3, <2>1 DEF InvPhase
  <2>4. InvPhase' /\ SuccessImpliesConverged'
    <3>1. CASE Return({"eventClient"})
      BY <3>1 DEF Return, InvPhase, SuccessImpliesConverged
    <3>2. CASE /\ Fn = "untilCoreV1ServiceInitialized"
               /\ SprintV(Pluck(Inputs(Kind, obj), SpecType)[1]) # "LoadBalancer"
               /\ Return({})
      <4>1. <<Kind, op, Fn>> \in RegistryTable
        BY <1>2, <3>2, RegistrySlots DEF None
      <4>2. Kind = "Service" /\ op = "create"
        BY <3>2, <4>1 DEF RegistryTable
      <4>3. Pluck(Inputs(Kind, obj), SpecType)[1]
              = IF obj.spec # EmptyString THEN String(obj.spec) ELSE Nil
        BY <4>2 DEF Pluck, Inputs, InputField, SpecType, SpecReplicas, SpecHard,
           Secrets, Paths, StatusAvailable, StatusPhase, StatusHard, StatusLBIngress,
           Replicators, Nil, String
      <4>4. obj.spec # "LoadBalancer"
        BY <3>2, <4>3 DEF SprintV, Nil, String, ValueOf, EmptyString
      <4>5. ConvergedState(obj, exists)
        BY <3>2, <4>2, <4>4 DEF ConvergedState, KindConverged, None
      <4>. QED
        BY <1>3, <2>1, <3>2, <4>5 DEF Return, InvPhase, SuccessImpliesConverged,
           InvCurrent
    <3>3. CASE pc' = "watch" /\ UNCHANGED result
      BY <1>5, <2>3, <3>3 DEF InvPhase, SuccessImpliesConverged
    <3>. QED
      BY <1>9, <3>1, <3>2, <3>3 DEF EventClient
  <2>. QED
    BY <2>2, <2>4
<1>10. CASE Subscribe
  <2>1. InvPhase' /\ SuccessImpliesConverged'
    BY <1>3, <1>5, <1>10 DEF Subscribe, InvPhase, SuccessImpliesConverged
  <2>2. InvCurrent'
    BY <1>3, <1>6, <1>10 DEF Subscribe, InvCurrent
  <2>3. InvStream'
    <3>1. stream' = <<obj>> /\ UNCHANGED <<obj, exists, wasConverged>>
      BY <1>10 DEF Subscribe
    <3>2. ConvergedState(obj, exists) => wasConverged
      BY <1>3 DEF InvCurrent
    <3>. QED
      BY <3>1, <3>2, <1>6 DEF InvStream
  <2>. QED
    BY <2>1, <2>2, <2>3
<1>11. CASE Deliver
  <2> DEFINE o == Head(stream)
  <2>1. /\ pc = "watch" /\ stream # <<>> /\ stream' = Tail(stream)
        /\ UNCHANGED <<obj, exists, wasConverged>>
    BY <1>11 DEF Deliver
  <2>2. stream \in Seq(Objects(Kind))
    BY <1>1 DEF TypeOK
  <2>3. Fn \in WatchAwaiters
    BY <1>3, <2>1 DEF InvPhase
  <2>4. InvCurrent'
    BY <1>3, <1>6, <2>1 DEF InvCurrent
  <2>5. InvStream'
    <3> SUFFICES ASSUME NEW i \in 1..Len(stream')
                 PROVE  /\ stream'[i].spec = obj'.spec
                        /\ ConvergedState(stream'[i], exists') => wasConverged'
      BY <1>6 DEF InvStream
    <3>1. i + 1 \in 1..Len(stream) /\ stream'[i] = stream[i + 1]
      BY <2>1, <2>2
    <3>. QED
      BY <1>3, <2>1, <3>1 DEF InvStream
  <2>6. /\ o \in Objects(Kind)
        /\ o.spec = obj.spec
        /\ ConvergedState(o, exists) => wasConverged
    BY <1>3, <2>1, <2>2 DEF InvStream
  <2>7. CASE WatchPredicate(Fn, Inputs(Kind, obj), Serialize(Kind, o))
    <3>1. KindConverged(o)
      BY <1>1, <2>3, <2>6, <2>7, PredicateSound
    <3>2. op # "delete" /\ Fn # None
      BY <1>2, <2>3, WatchSlots
    <3>3. ConvergedState(o, exists)
      BY <3>1, <3>2 DEF ConvergedState
    <3>4. pc' = "done" /\ wasConverged'
      BY <1>11, <2>1, <2>6, <2>7, <3>3 DEF Deliver, Return
    <3>. QED
      BY <1>5, <2>4, <2>5, <3>4 DEF InvPhase, SuccessImpliesConverged
  <2>8. CASE ~WatchPredicate(Fn, Inputs(Kind, obj), Serialize(Kind, o))
    <3>1. UNCHANGED <<pc, result>>
      BY <1>11, <2>8 DEF Deliver
    <3>. QED
      BY <1>3, <1>5, <2>1, <2>4, <2>5, <3>1 DEF InvPhase, SuccessImpliesConverged
  <2>. QED
    BY <2>7, <2>8
<1>12. CASE Poll
  <2>1. PICK r \in GetResults : PollResult(r)
    BY <1>12 DEF Poll
  <2>2. pc = "retry" /\ UNCHANGED <<obj, exists, stream, wasConverged>>
    BY <2>1 DEF PollResult
  <2>3. Fn \in DeletionAwaiters
    BY <1>3, <2>2 DEF InvPhase
  <2>4. InvCurrent' /\ InvStream'
    BY <1>3, <1>6, <2>2 DEF InvCurrent, InvStream
  <2>5. pc' \in {"done", "retry", "crashed"}
    BY <2>1 DEF PollResult, Return
  <2>6. InvPhase'
    BY <1>5, <2>3, <2>5 DEF InvPhase
  <2>7. SuccessImpliesConverged'
    <3>1. CASE DeletionCheck(Fn, r) = "done"
      <4>1. ~exists
        BY <1>1, <2>3, <3>1, CheckSound
      <4>2. op = "delete" /\ Fn # None
        BY <1>2, <2>3, SlotClasses
      <4>3. ConvergedState(obj, exists)
        BY <4>1, <4>2 DEF ConvergedState, DeletionConverged
      <4>. QED
        BY <1>3, <2>2, <4>3 DEF InvCurrent, SuccessImpliesConverged
    <3>2. CASE DeletionCheck(Fn, r) # "done"
      <4>1. pc' # "done" \/ result' # {}
        BY <2>1, <3>2 DEF PollResult, Return
      <4>. QED
        BY <4>1 DEF SuccessImpliesConverged
    <3>. QED
      BY <3>1, <3>2
  <2>. QED
    BY <2>4, <2>6, <2>7
<1>13. CASE Expire \/ Cancel
  <2>1. UNCHANGED <<obj, exists, stream, wasConverged>>
    BY <1>13 DEF Expire, Cancel
  <2>2. PICK err : /\ err # {}
                   /\ \/ Fn \in EventAwaiters /\ pc' = "warnings"
                      \/ pc' = "done" /\ result' = err
    BY <1>13 DEF Expire, Cancel, EndWait, Return
  <2>3. InvPhase'
    BY <1>2, <1>5, <2>2, SlotClasses DEF InvPhase
  <2>4. SuccessImpliesConverged'
    BY <2>2 DEF SuccessImpliesConverged
  <2>. QED
    BY <1>3, <1>6, <2>1, <2>3, <2>4 DEF InvCurrent, InvStream
<1>14. CASE FetchWarnings
  <2>1. pc' = "done" /\ result' # {}
    BY <1>14 DEF FetchWarnings, Return
  <2>2. UNCHANGED <<obj, exists, stream, wasConverged>>
    BY <1>14 DEF FetchWarnings
  <2>3. InvPhase' /\ SuccessImpliesConverged'
    BY <2>1 DEF InvPhase, SuccessImpliesConverged
  <2>. QED
    BY <1>3, <1>6, <2>2, <2>3 DEF InvCurrent, InvStream
<1>15. CASE StatusChange
  <2>1. PICK st \in StatusValues(Kind, obj.spec) \ {obj.status} :
          /\ obj' = [obj EXCEPT !.status = st]
          /\ stream' = IF watch = "open" THEN Append(stream, obj') ELSE stream
          /\ wasConverged' = (wasConverged \/ ConvergedState(obj', TRUE))
    BY <1>15 DEF StatusChange
  <2>2. exists /\ exists' = exists /\ UNCHANGED <<pc, result>>
    BY <1>15 DEF StatusChange
  <2>3. obj'.spec = obj.spec
    BY <1>2, <2>1, ObjectsDef
  <2>4. wasConverged => wasConverged'
    BY <2>1
  <2>5. InvPhase' /\ SuccessImpliesConverged'
    BY <1>3, <1>5, <2>2, <2>4 DEF InvPhase, SuccessImpliesConverged
  <2>6. InvCurrent'
    BY <1>6, <2>1, <2>2 DEF InvCurrent
  <2>7. InvStream'
    <3>1. stream \in Seq(Objects(Kind))
      BY <1>1 DEF TypeOK
    <3>2. CASE watch = "open"
      <4>1. stream' = Append(stream, obj')
        BY <2>1, <3>2
      <4> SUFFICES ASSUME NEW i \in 1..Len(stream')
                   PROVE  /\ stream'[i].spec = obj'.spec
                          /\ ConvergedState(stream'[i], exists') => wasConverged'
        BY <1>6 DEF InvStream
      <4>2. CASE i \in 1..Len(stream)
        <5>1. stream'[i] = stream[i]
          BY <3>1, <4>1, <4>2
        <5>. QED
          BY <1>3, <2>2, <2>3, <2>4, <4>2, <5>1 DEF InvStream
      <4>3. CASE i = Len(stream) + 1
        <5>1. stream'[i] = obj'
          BY <3>1, <4>1, <4>3
        <5>. QED
          BY <2>1, <2>2, <5>1
      <4>. QED
        BY <3>1, <4>1, <4>2, <4>3
    <3>3. CASE watch # "open"
      BY <1>3, <1>6, <2>1, <2>2, <2>3, <2>4, <3>2, <3>3 DEF InvStream
    <3>. QED
      BY <3>2, <3>3
  <2>. QED
    BY <2>5, <2>6, <2>7
<1>16. CASE ObjectRemoved
  <2>1. wasConverged' = TRUE /\ UNCHANGED <<pc, result, obj, stream>>
    BY <1>16 DEF ObjectRemoved
  <2>2. InvPhase'
    BY <1>3, <1>5, <2>1 DEF InvPhase
  <2>. QED
    BY <1>3, <2>1, <2>2 DEF InvCurrent, InvStream, SuccessImpliesConverged
<1>17. CASE WatchBreaks
  <2>1. InvPhase' /\ SuccessImpliesConverged' /\ InvStream'
    BY <1>3, <1>5, <1>17 DEF WatchBreaks, InvPhase, SuccessImpliesConverged, InvStream
  <2>2. InvCurrent'
    BY <1>3, <1>6, <1>17 DEF WatchBreaks, InvCurrent
  <2>. QED
    BY <2>1, <2>2
<1>18. CASE UNCHANGED vars
  <2>1. InvPhase' /\ SuccessImpliesConverged'
    BY <1>3, <1>5, <1>18 DEF vars, InvPhase, SuccessImpliesConverged
  <2>2. InvCurrent'
    BY <1>3, <1>6, <1>18 DEF vars, InvCurrent
  <2>3. InvStream'
    BY <1>3, <1>6, <1>18 DEF vars, InvStream
  <2>. QED
    BY <2>1, <2>2, <2>3
<1>. QED
  BY <1>8, <1>9, <1>10, <1>11, <1>12, <1>13, <1>14, <1>15, <1>16, <1>17, <1>18
     DEF Next, Awaiter, Environment

\* IInv holds in every reachable state of an await call.
THEOREM IInvInvariant == Spec => []IInv
BY InitIInv, IInvStep, PTL DEF Spec

\* No awaiter returns nil for an object that never reached the state its
\* kind's wait is for (predicates, deletion checks and early returns of
\* pkg/await/awaiters.go are sound), for every value of the constants.
THEOREM SuccessSound == Spec => []SuccessImpliesConverged
<1>1. IInv => SuccessImpliesConverged
  BY DEF IInv
<1>. QED
  BY IInvInvariant, <1>1, PTL

-----------------------------------------------------------------------------
(* The await call implements the safety part of its contract.              *)

\* The call starts pending, whatever the object's state.
LEMMA InitContract == Init => AC!Init
<1> SUFFICES ASSUME Init PROVE AC!Init
  OBVIOUS
<1>1. Outcome = "pending"
  BY DEF Init, Outcome
<1>2. wasConverged \in BOOLEAN
  BY DEF Init, ConvergedState
<1>. QED
  BY <1>1, <1>2 DEF AC!Init

\* Steps that leave the awaiter's return and the history alone are
\* stutters of the contract.
LEMMA ContractStutter ==
  ASSUME UNCHANGED <<pc, result, wasConverged>>
  PROVE  [AC!Next]_AC!acVars
BY DEF Outcome, AC!acVars

\* So are the steps of a call that stays pending.
LEMMA ContractPending ==
  ASSUME pc \notin {"done", "crashed"}, pc' \notin {"done", "crashed"},
         wasConverged' = wasConverged
  PROVE  [AC!Next]_AC!acVars
BY DEF Outcome, AC!acVars

\* A step of a pending call that returns nil is the contract's Succeed.
LEMMA ContractSucceed ==
  ASSUME pc \notin {"done", "crashed"}, pc' = "done", result' = {},
         wasConverged' = wasConverged, SuccessImpliesConverged'
  PROVE  [AC!Next]_AC!acVars
BY DEF Outcome, AC!Next, AC!Succeed, SuccessImpliesConverged

\* A step of a pending call that returns an error is the contract's Fail.
LEMMA ContractFail ==
  ASSUME pc \notin {"done", "crashed"}, pc' = "done", result' # {},
         wasConverged' = wasConverged
  PROVE  [AC!Next]_AC!acVars
BY DEF Outcome, AC!Next, AC!Fail

\* Every step of an await call is a step of its contract or a stutter.
LEMMA ContractStep == IInv /\ IInv' /\ [Next]_vars => [AC!Next]_AC!acVars
<1> SUFFICES ASSUME IInv, IInv', [Next]_vars PROVE [AC!Next]_AC!acVars
  OBVIOUS
<1>1. SuccessImpliesConverged'
  BY DEF IInv
<1>2. CASE StartAwait
  <2>1. CASE pc' = "done"
    BY <1>1, <1>2, <2>1, ContractSucceed DEF StartAwait, Return
  <2>2. CASE pc' # "done"
    BY <1>2, <2>2, ContractPending DEF StartAwait, Return
  <2>. QED
    BY <2>1, <2>2
<1>3. CASE EventClient
  <2>0. pc = "events" /\ wasConverged' = wasConverged
    BY <1>3 DEF EventClient
  <2>1. CASE pc' = "done" /\ result' = {}
    BY <1>1, <2>0, <2>1, ContractSucceed
  <2>2. CASE pc' = "done" /\ result' # {}
    BY <2>0, <2>2, ContractFail
  <2>3. CASE pc' # "done"
    BY <1>3, <2>0, <2>3, ContractPending DEF EventClient, Return
  <2>. QED
    BY <2>1, <2>2, <2>3
<1>4. CASE Subscribe
  BY <1>4, ContractStutter DEF Subscribe
<1>5. CASE Deliver
  BY <1>1, <1>5, ContractSucceed, ContractStutter DEF Deliver, Return
<1>6. CASE \E r \in GetResults : PollResult(r)
  <2>1. PICK r \in GetResults : PollResult(r)
    BY <1>6
  <2>. DEFINE check == DeletionCheck(Fn, r)
  <2>0. pc = "retry" /\ wasConverged' = wasConverged
    BY <2>1 DEF PollResult
  <2>2. CASE check = "done"
    BY <1>1, <2>0, <2>1, <2>2, ContractSucceed DEF PollResult, Return
  <2>3. CASE check = "retry"
    BY <2>1, <2>3, ContractStutter DEF PollResult
  <2>4. CASE check = "fatal"
    BY <2>0, <2>1, <2>4, ContractFail DEF PollResult, Return
  <2>5. CASE check = "panic"
    <3>1. pc' = "crashed"
      BY <2>1, <2>5 DEF PollResult
    <3>. QED
      BY <2>0, <3>1 DEF Outcome, AC!Next, AC!Crash
  <2>. QED
    BY <2>1, <2>2, <2>3, <2>4, <2>5 DEF PollResult
<1>7. CASE Expire \/ Cancel
  <2>1. pc \in {"watch", "retry"} /\ wasConverged' = wasConverged
    BY <1>7 DEF Expire, Cancel
  <2>2. CASE Fn \in EventAwaiters
    <3>1. pc' = "warnings"
      BY <1>7, <2>2 DEF Expire, Cancel, EndWait
    <3>. QED
      BY <2>1, <3>1, ContractPending
  <2>3. CASE Fn \notin EventAwaiters
    <3>1. pc' = "done" /\ result' # {}
      BY <1>7, <2>3 DEF Expire, Cancel, EndWait, Return
    <3>. QED
      BY <2>1, <3>1, ContractFail
  <2>. QED
    BY <2>2, <2>3
<1>8. CASE FetchWarnings
  <2>1. pc = "warnings" /\ pc' = "done" /\ wasConverged' = wasConverged
    BY <1>8 DEF FetchWarnings, Return
  <2>2. result' # {}
    BY <1>8 DEF FetchWarnings, Return
  <2>. QED
    BY <2>1, <2>2, ContractFail
<1>9. CASE StatusChange \/ ObjectRemoved
  <2>0. wasConverged \in BOOLEAN /\ wasConverged' \in BOOLEAN
    BY DEF IInv, TypeOK
  <2>1. pc \notin {"done", "crashed"} /\ UNCHANGED <<pc, result>>
    BY <1>9 DEF StatusChange, ObjectRemoved
  <2>2. wasConverged => wasConverged'
    BY <1>9 DEF StatusChange, ObjectRemoved
  <2>3. CASE wasConverged' = wasConverged
    BY <2>1, <2>3, ContractStutter
  <2>4. CASE wasConverged' # wasConverged
    BY <2>0, <2>1, <2>2, <2>4 DEF Outcome, AC!Next, AC!Converge
  <2>. QED
    BY <2>3, <2>4
<1>10. CASE WatchBreaks
  BY <1>10, ContractStutter DEF WatchBreaks
<1>11. CASE UNCHANGED vars
  BY <1>11, ContractStutter DEF vars
<1>. QED
  BY <1>2, <1>3, <1>4, <1>5, <1>6, <1>7, <1>8, <1>9, <1>10, <1>11
     DEF Next, Awaiter, Environment, Poll

\* The safety part of the contract holds of every await call, for every
\* value of the constants: the object's convergence is never undone, nil
\* is returned only once it has converged, and nothing follows the return
\* or the crash.  (Its fairness part, that the call ends, is left to TLC.)
THEOREM ContractSafety == Spec => AC!SafetySpec
<1>1. Init => AC!Init
  BY InitContract
<1>2. IInv /\ IInv' /\ [Next]_vars => [AC!Next]_AC!acVars
  BY ContractStep
<1>. QED
  BY <1>1, <1>2, IInvInvariant, PTL DEF Spec, AC!SafetySpec
=============================================================================
