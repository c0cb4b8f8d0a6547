------------------------- MODULE AwaitCompleteness -------------------------
(***************************************************************************)
(* Proofs that the awaiters accept what the spec calls converged, on the  *)
(* calls where the code agrees with the spec (AgreeingConstants and        *)
(* AgreeingCall): once the watch delivers, or a get returns, a converged   *)
(* state, the await returns nil and never fails afterwards.                *)
(***************************************************************************)
EXTENDS AwaitProofs

\* Every step of an await call leaves the kind and the operation alone.
LEMMA KindOpFixed == [Next]_vars => UNCHANGED <<gvk, op>>
BY DEF Next, Awaiter, Environment, StartAwait, EventClient, Subscribe, Deliver,
       Poll, PollResult, Expire, Cancel, FetchWarnings, StatusChange,
       ObjectRemoved, WatchBreaks, vars

\* Once the call has returned or crashed, no step changes its outcome or
\* what it was shown.
LEMMA DoneFrozen ==
  ASSUME pc \in {"done", "crashed"}, [Next]_vars
  PROVE  UNCHANGED <<pc, result, convergedObserved>>
BY DEF Next, Awaiter, Environment, StartAwait, EventClient, Subscribe, Deliver,
       Poll, PollResult, Expire, Cancel, FetchWarnings, StatusChange,
       ObjectRemoved, WatchBreaks, vars

\* The Service awaiter formats the inputs' spec.type as "LoadBalancer"
\* exactly when the user asked for a load balancer: an unset type is nil
\* in the inputs and formats as "<nil>".
LEMMA ServiceTypeFormat ==
  ASSUME Kind = "Service", NEW t \in Objects(Kind),
         SprintV(Pluck(Inputs(Kind, t), SpecType)[1]) = "LoadBalancer"
  PROVE  t.spec = "LoadBalancer"
<1>1. t.spec \in {EmptyString, "ClusterIP", "LoadBalancer"}
  BY ObjectsDef DEF SpecValues, Replicators
<1>2. Pluck(Inputs(Kind, t), SpecType)[1]
        = IF t.spec # EmptyString THEN String(t.spec) ELSE Nil
  BY <1>1 DEF Pluck, Inputs, InputField, Paths, SpecType, SpecReplicas, SpecHard,
     Secrets, Replicators, String, Nil, EmptyString
<1>. QED
  BY <1>1, <1>2 DEF SprintV, String, Nil, ValueOf, EmptyString

\* The predicates are complete on the agreeing calls: a state of the
\* awaited object (same spec as the inputs) that the spec calls converged
\* satisfies the predicate its awaiter gives WatchUntil.
LEMMA PredicateComplete ==
  ASSUME TypeOK, AgreeingConstants, InvServiceWatch, pc = "watch",
         Fn \in WatchAwaiters, NEW o \in Objects(Kind), o.spec = obj.spec,
         KindConverged(o)
  PROVE  WatchPredicate(Fn, Inputs(Kind, obj), Serialize(Kind, o))
<1> USE ConstantsAssumption DEF SpecReplicas, StatusAvailable, StatusPhase,
      SpecHard, StatusHard, SpecType, StatusLBIngress, Secrets, Paths, Nil,
      Int64, String, Slice, Map
<1>1. <<Kind, op, Fn>> \in RegistryTable
  BY WatchSlots DEF TypeOK
<1>2. o.spec \in SpecValues(Kind) /\ o.status \in StatusValues(Kind, o.spec)
  BY ObjectsDef
<1>3. Kind # "ResourceQuota"
  BY DEF TypeOK, AgreeingConstants, Kind
<1>4. CASE Kind \in Replicators
  <2>1. o.spec \in ReplicaCounts /\ o.spec # 0 /\ o.spec \in Nat
    BY <1>2, <1>4 DEF SpecValues, AgreeingConstants, Replicators
  <2>2. o.status = o.spec
    BY <1>4 DEF KindConverged, Replicators
  <2>3. Pluck(Serialize(Kind, o), SpecReplicas) = <<Int64(o.spec), TRUE>>
    BY <1>4 DEF Pluck, Serialize, Field, Replicators
  <2>8. o.status > 0
    BY <2>1, <2>2
  <2>9. Pluck(Serialize(Kind, o), StatusAvailable) = <<Int64(o.status), TRUE>>
    BY <1>4, <2>8 DEF Pluck, Serialize, Field, Replicators
  <2>4. Pluck(Serialize(Kind, o), StatusAvailable) = <<Int64(o.spec), TRUE>>
    BY <2>2, <2>9
  <2>5. Fn \in {"untilAppsDeploymentInitialized", "untilAppsDeploymentUpdated",
                "untilCoreV1ReplicationControllerInitialized",
                "untilCoreV1ReplicationControllerUpdated"}
    BY <1>1, <1>4 DEF RegistryTable, Replicators, WatchAwaiters
  <2>10. waitForDesiredReplicasFunc(Pluck(Serialize(Kind, o), SpecReplicas),
                                    Pluck(Serialize(Kind, o), StatusAvailable))
    <3>1. waitForDesiredReplicasFunc(<<Int64(o.spec), TRUE>>, <<Int64(o.spec), TRUE>>)
      BY DEF waitForDesiredReplicasFunc
    <3>. QED
      BY <2>3, <2>4, <3>1
  <2>6. CASE Fn \in {"untilAppsDeploymentInitialized", "untilAppsDeploymentUpdated"}
    BY <2>10, <2>6 DEF WatchPredicate, untilAppsDeploymentInitialized,
       untilAppsDeploymentUpdated, deploymentSpecReplicas, availableReplicas
  <2>7. CASE Fn \in {"untilCoreV1ReplicationControllerInitialized",
                     "untilCoreV1ReplicationControllerUpdated"}
    BY <2>10, <2>7 DEF WatchPredicate, untilCoreV1ReplicationControllerInitialized,
       untilCoreV1ReplicationControllerUpdated, replicationControllerSpecReplicas,
       availableReplicas
  <2>. QED
    BY <2>5, <2>6, <2>7
<1>5. CASE Kind \in {"PersistentVolume", "PersistentVolumeClaim", "Pod"}
  <2>1. o.status # EmptyString
    BY <1>5 DEF KindConverged, Replicators, EmptyString
  <2>2. Pluck(Serialize(Kind, o), StatusPhase)[1] = String(o.status)
    BY <1>5, <2>1 DEF Pluck, Serialize, Field, PhaseKinds, Replicators
  <2>3. CASE Kind = "PersistentVolume"
    <3>1. Fn = "untilCoreV1PersistentVolumeInitialized"
      BY <1>1, <2>3 DEF RegistryTable, WatchAwaiters
    <3>2. o.status \in {"Available", "Bound"}
      BY <2>3 DEF KindConverged, Replicators
    <3>. QED
      BY <2>2, <3>1, <3>2 DEF WatchPredicate, untilCoreV1PersistentVolumeInitialized,
         pvAvailableOrBound
  <2>4. CASE Kind = "PersistentVolumeClaim"
    <3>1. Fn = "untilCoreV1PersistentVolumeClaimBound"
      BY <1>1, <2>4 DEF RegistryTable, WatchAwaiters
    <3>2. o.status = "Bound"
      BY <2>4 DEF KindConverged, Replicators
    <3>. QED
      BY <2>2, <3>1, <3>2 DEF WatchPredicate, untilCoreV1PersistentVolumeClaimBound, pvcBound
  <2>5. CASE Kind = "Pod"
    <3>1. Fn = "untilCoreV1PodInitialized"
      BY <1>1, <2>5 DEF RegistryTable, WatchAwaiters
    <3>2. o.status = "Running"
      BY <2>5 DEF KindConverged, Replicators
    <3>. QED
      BY <2>2, <3>1, <3>2 DEF WatchPredicate, untilCoreV1PodInitialized, podRunning
  <2>. QED
    BY <1>5, <2>3, <2>4, <2>5
<1>6. CASE Kind \in {"Service", "Ingress"}
  <2>1. Fn \in {"untilCoreV1ServiceInitialized", "untilExtensionsV1Beta1IngressInitialized"}
    BY <1>1, <1>6 DEF RegistryTable, WatchAwaiters
  <2>2. Kind = "Service" => o.spec = "LoadBalancer"
    BY <1>1, <2>1 DEF InvServiceWatch, RegistryTable
  <2>3. o.status \in Nat \ {0}
    BY <1>6, <2>2 DEF KindConverged, Replicators
  <2>4. Pluck(Serialize(Kind, o), StatusLBIngress)[1] = Slice(o.status)
    BY <1>6, <2>3 DEF Pluck, Serialize, Field, PhaseKinds, Replicators
  <2>5. externalIPAllocated(Serialize(Kind, o))
    BY <2>3, <2>4 DEF externalIPAllocated, IsType, TypeOf, ValueOf
  <2>. QED
    BY <2>1, <2>5 DEF WatchPredicate, untilCoreV1ServiceInitialized, untilExtensionsV1Beta1IngressInitialized
<1>7. CASE Kind = "ServiceAccount"
  <2>1. Fn = "untilCoreV1ServiceAccountInitialized"
    BY <1>1, <1>7 DEF RegistryTable, WatchAwaiters
  <2>2. o.spec \in {Nil, Slice(0), Slice(1)}
    BY <1>2, <1>7 DEF SpecValues, Replicators
  <2>3. SecretsLen(o.spec) \in Nat
    BY <2>2 DEF SecretsLen, ValueOf
  <2>4. o.status \in Nat /\ o.status > SecretsLen(o.spec)
    BY <1>7 DEF KindConverged, Replicators
  <2>5. numSpecSecrets(Inputs(Kind, obj)) = SecretsLen(o.spec)
    BY <1>7, <2>2 DEF numSpecSecrets, Inputs, InputField, Pluck, SecretsLen, IsType,
       TypeOf, ValueOf, Replicators
  <2>6. Pluck(Serialize(Kind, o), Secrets)[1] = Slice(o.status)
    BY <1>7, <2>3, <2>4 DEF Pluck, Serialize, Field, PhaseKinds, Replicators
  <2>. QED
    BY <2>1, <2>4, <2>5, <2>6 DEF WatchPredicate, untilCoreV1ServiceAccountInitialized,
       defaultSecretAllocated, IsType, TypeOf, ValueOf
<1>. QED
  BY <1>1, <1>3, <1>4, <1>5, <1>6, <1>7 DEF RegistryTable, WatchAwaiters, Replicators


\* The deletion checks are complete on the agreeing calls: when the object
\* is in a state the spec calls deleted, a successful get makes the check
\* report done (for a Namespace or a Pod the object is then gone, and the
\* get answers 404).
LEMMA CheckComplete ==
  ASSUME TypeOK, AgreeingCall, Fn \in DeletionAwaiters, ConvergedState(obj, exists)
  PROVE  DeletionCheck(Fn, CurrentGet) = "done"
<1>1. <<Kind, op, Fn>> \in RegistryTable
  BY RegistrySlots DEF TypeOK, DeletionAwaiters, None
<1>2. op = "delete" /\ Kind \in {"Deployment", "Namespace", "Pod", "ReplicationController"}
  BY <1>1 DEF RegistryTable, DeletionAwaiters
<1>3. Kind \in {"Namespace", "Pod"}
  BY <1>2 DEF AgreeingCall, Replicators
<1>4. Kind = "Namespace" => obj.status # EmptyString
  BY ObjectsDef DEF TypeOK, StatusValues, Replicators, EmptyString
<1>5. ~exists
  BY <1>2, <1>3, <1>4 DEF ConvergedState, DeletionConverged, DeletionAwaiters,
     None, Replicators
<1>6. CurrentGet.err = "404"
  BY <1>5 DEF CurrentGet
<1>. QED
  BY <1>6 DEF DeletionCheck, untilAppsDeploymentDeleted, untilCoreV1NamespaceDeleted, untilCoreV1PodDeleted,
     untilCoreV1ReplicationControllerDeleted, deploymentMissing, namespaceMissingOrKilled,
     podMissingOrKilled, rcMissing, DeletionAwaiters

\* ObservedInv is inductive under the agreeing constants.
LEMMA ObservedStep ==
  ASSUME AgreeingConstants
  PROVE  ObservedInv /\ [Next]_vars => ObservedInv'
<1> SUFFICES ASSUME ObservedInv, [Next]_vars PROVE ObservedInv'
  OBVIOUS
<1>1. IInv /\ IInv' /\ TypeOK /\ TypeOK'
  BY IInvStep DEF ObservedInv, IInv
<1>2. UNCHANGED <<gvk, op>>
  BY KindOpFixed
<1>3. AgreeingCall'
  BY <1>2 DEF ObservedInv, AgreeingCall, Kind
<1>4. InvServiceWatch'
  <2> SUFFICES ASSUME Fn' = "untilCoreV1ServiceInitialized", pc' = "watch"
               PROVE  obj'.spec = "LoadBalancer"
    BY DEF InvServiceWatch
  <2>1. Fn' = Fn /\ Kind' = Kind
    BY <1>2 DEF Fn, Kind
  <2>2. Kind = "Service"
    <3>1. <<Kind, op, Fn>> \in RegistryTable
      BY <1>1, <2>1, RegistrySlots DEF TypeOK, None
    <3>. QED
      BY <2>1, <3>1 DEF RegistryTable
  <2>3. obj'.spec = obj.spec
    <3>1. CASE StatusChange
      <4>1. PICK st \in StatusValues(Kind, obj.spec) \ {obj.status} :
              obj' = [obj EXCEPT !.status = st]
        BY <3>1 DEF StatusChange
      <4>. QED
        BY <1>1, <4>1, ObjectsDef DEF TypeOK
    <3>2. CASE ~StatusChange
      BY <3>2 DEF Next, Awaiter, Environment, StartAwait, EventClient,
         Subscribe, Deliver, Poll, PollResult, Expire, Cancel, FetchWarnings,
         ObjectRemoved, WatchBreaks, vars
    <3>. QED
      BY <3>1, <3>2
  <2>4. CASE pc = "watch"
    BY <2>1, <2>3, <2>4 DEF ObservedInv, InvServiceWatch
  <2>5. CASE pc # "watch"
    <3>1. EventClient
      BY <2>1, <2>5 DEF Next, Awaiter, Environment, StartAwait, EventClient,
         Subscribe, Deliver, Poll, PollResult, Expire, Cancel, FetchWarnings,
         StatusChange, ObjectRemoved, WatchBreaks, vars, Return, EndWait,
         EventAwaiters
    <3>2. SprintV(Pluck(Inputs(Kind, obj), SpecType)[1]) = "LoadBalancer"
      BY <2>1, <3>1 DEF EventClient, Return
    <3>. QED
      BY <1>1, <2>2, <2>3, <3>2, ServiceTypeFormat DEF TypeOK
  <2>. QED
    BY <2>4, <2>5
<1>5. (convergedObserved => pc = "done" /\ result = {})'
  <2>1. CASE convergedObserved
    <3>1. pc = "done" /\ result = {}
      BY <2>1 DEF ObservedInv
    <3>. QED
      BY <2>1, <3>1, DoneFrozen
  <2>3. CASE ~convergedObserved
    <3>1. CASE Deliver
      <4>. DEFINE o == Head(stream)
      <4>1. pc = "watch" /\ stream # <<>>
        BY <3>1 DEF Deliver
      <4>2. Fn \in WatchAwaiters
        BY <1>1, <4>1 DEF IInv, InvPhase
      <4>3. o \in Objects(Kind) /\ o.spec = obj.spec
        BY <1>1, <4>1 DEF IInv, InvStream, TypeOK
      <4>4. op # "delete" /\ Fn # None
        BY <1>1, <4>2, WatchSlots DEF TypeOK
      <4>5. CASE ConvergedState(o, exists)
        <5>1. KindConverged(o)
          BY <4>4, <4>5 DEF ConvergedState
        <5>2. WatchPredicate(Fn, Inputs(Kind, obj), Serialize(Kind, o))
          BY <1>1, <4>1, <4>2, <4>3, <5>1, PredicateComplete DEF ObservedInv
        <5>. QED
          BY <3>1, <5>2 DEF Deliver, Return
      <4>6. CASE ~ConvergedState(o, exists)
        BY <2>3, <3>1, <4>6 DEF Deliver
      <4>. QED
        BY <4>5, <4>6
    <3>2. CASE \E r \in GetResults : PollResult(r)
      <4>1. PICK r \in GetResults : PollResult(r)
        BY <3>2
      <4>2. pc = "retry" /\ Fn \in DeletionAwaiters
        BY <1>1, <4>1 DEF PollResult, IInv, InvPhase
      <4>3. CASE r.err # "error" /\ ConvergedState(obj, exists)
        <5>1. r = CurrentGet
          BY <4>1, <4>3 DEF GetResults, FailedGet
        <5>2. DeletionCheck(Fn, r) = "done"
          BY <1>1, <4>2, <4>3, <5>1, CheckComplete DEF ObservedInv
        <5>. QED
          BY <4>1, <5>2 DEF PollResult, Return
      <4>4. CASE ~(r.err # "error" /\ ConvergedState(obj, exists))
        BY <2>3, <4>1, <4>4 DEF PollResult
      <4>. QED
        BY <4>3, <4>4
    <3>3. CASE ~Deliver /\ ~(\E r \in GetResults : PollResult(r))
      BY <2>3, <3>3 DEF Next, Awaiter, Environment, StartAwait, EventClient,
         Subscribe, Poll, Expire, Cancel, FetchWarnings, StatusChange,
         ObjectRemoved, WatchBreaks, vars
    <3>. QED
      BY <3>1, <3>2, <3>3
  <2>. QED
    BY <2>1, <2>3
<1>. QED
  BY <1>1, <1>3, <1>4, <1>5 DEF ObservedInv

\* ObservedInv holds in every state of an agreeing call: the state is
\* well typed, success implies convergence, a Service is watched only
\* when its inputs ask for a load balancer, and an await that has been
\* shown a converged state has already returned nil.
THEOREM ObservedInvariant ==
  ASSUME AgreeingConstants
  PROVE  AgreeingSpec => []ObservedInv
<1>1. AgreeingInit => ObservedInv
  <2> SUFFICES ASSUME AgreeingInit PROVE ObservedInv
    OBVIOUS
  <2>1. IInv
    BY InitIInv DEF AgreeingInit
  <2>2. pc = "start" /\ ~convergedObserved /\ AgreeingCall
    BY DEF AgreeingInit, Init, AgreeingCall, Kind
  <2>. QED
    BY <2>1, <2>2 DEF ObservedInv, InvServiceWatch
<1>. QED
  BY <1>1, ObservedStep, PTL DEF AgreeingSpec

\* On the calls where the code agrees with the spec, an await never fails
\* after the watch or a get has shown it a converged state: every
\* predicate and deletion check of awaiters.go accepts the converged
\* states of its kind, for any kinds other than ResourceQuota, any
\* positive replica counts and any bounds.
THEOREM ObservedConvergenceAccepted ==
  ASSUME AgreeingConstants
  PROVE  AgreeingSpec => []NoFailureAfterConvergedObservation
<1>1. ObservedInv => NoFailureAfterConvergedObservation
  BY DEF ObservedInv, NoFailureAfterConvergedObservation
<1>. QED
  BY <1>1, ObservedInvariant, PTL

=============================================================================
