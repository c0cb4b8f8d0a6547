----------------------------- MODULE Awaiters -----------------------------
(***************************************************************************)
(* The await registry and the per-kind predicate library of                *)
(* pkg/await/awaiters.go.                                                  *)
(*                                                                         *)
(* The registry maps a group/version/kind string to an awaitSpec, the      *)
(* triple of a creation, an update and a deletion awaiter; a nil slot is   *)
(* the string None.  An awaiter is named by its Go function name.  The     *)
(* predicates are pure functions of the unstructured object the watch      *)
(* delivers (and, for ServiceAccount, of the inputs), and the deletion     *)
(* checks map a get result to done, retry or a fatal error.                *)
(***************************************************************************)
EXTENDS Unstructured

None == "none"

\* The group/version/kind keys of the registry, grouped by the kind they
\* name.
DeploymentGVKs == {"apps/v1/Deployment", "apps/v1beta1/Deployment",
                   "apps/v1beta2/Deployment", "extensions/v1beta1/Deployment"}
RbacGVKs ==
  {"rbac.authorization.k8s.io/v1/ClusterRole",
   "rbac.authorization.k8s.io/v1/ClusterRoleBinding",
   "rbac.authorization.k8s.io/v1/Role",
   "rbac.authorization.k8s.io/v1/RoleBinding",
   "rbac.authorization.k8s.io/v1alpha1/ClusterRole",
   "rbac.authorization.k8s.io/v1alpha1/ClusterRoleBinding",
   "rbac.authorization.k8s.io/v1alpha1/Role",
   "rbac.authorization.k8s.io/v1alpha1/RoleBinding",
   "rbac.authorization.k8s.io/v1beta1/ClusterRole",
   "rbac.authorization.k8s.io/v1beta1/ClusterRoleBinding",
   "rbac.authorization.k8s.io/v1beta1/Role",
   "rbac.authorization.k8s.io/v1beta1/RoleBinding"}

\* The kind each registered key names ("Other" for the kinds that need no
\* await logic).
KindOf(gvk) ==
  CASE gvk \in DeploymentGVKs                  -> "Deployment"
    [] gvk = "v1/Namespace"                    -> "Namespace"
    [] gvk = "v1/PersistentVolume"             -> "PersistentVolume"
    [] gvk = "v1/PersistentVolumeClaim"        -> "PersistentVolumeClaim"
    [] gvk = "v1/Pod"                          -> "Pod"
    [] gvk = "v1/ReplicationController"        -> "ReplicationController"
    [] gvk = "v1/ResourceQuota"                -> "ResourceQuota"
    [] gvk = "v1/Service"                      -> "Service"
    [] gvk = "v1/ServiceAccount"               -> "ServiceAccount"
    [] gvk = "extensions/v1beta1/Ingress"      -> "Ingress"
    [] OTHER                                   -> "Other"

AwaitSpec(c, u, d) == [awaitCreation |-> c, awaitUpdate |-> u, awaitDeletion |-> d]

deploymentAwaiter == AwaitSpec("untilAppsDeploymentInitialized",
                               "untilAppsDeploymentUpdated",
                               "untilAppsDeploymentDeleted")

\* The registry: every key the code lists, with { /* NONE */ } entries as
\* specs whose three slots are nil.
awaiters ==
  [gvk \in DeploymentGVKs \cup RbacGVKs \cup
           {"autoscaling/v1/HorizontalPodAutoscaler", "v1/ConfigMap",
            "v1/LimitRange", "v1/Namespace", "v1/PersistentVolume",
            "v1/PersistentVolumeClaim", "v1/Pod", "v1/ReplicationController",
            "v1/ResourceQuota", "v1/Secret", "v1/Service", "v1/ServiceAccount",
            "extensions/v1beta1/Ingress", "storage.k8s.io/v1/StorageClass"} |->
    CASE gvk \in DeploymentGVKs -> deploymentAwaiter
      [] gvk = "v1/Namespace" ->
           AwaitSpec(None, None, "untilCoreV1NamespaceDeleted")
      [] gvk = "v1/PersistentVolume" ->
           AwaitSpec("untilCoreV1PersistentVolumeInitialized", None, None)
      [] gvk = "v1/PersistentVolumeClaim" ->
           AwaitSpec("untilCoreV1PersistentVolumeClaimBound", None, None)
      [] gvk = "v1/Pod" ->
           AwaitSpec("untilCoreV1PodInitialized", None, "untilCoreV1PodDeleted")
      [] gvk = "v1/ReplicationController" ->
           AwaitSpec("untilCoreV1ReplicationControllerInitialized",
                     "untilCoreV1ReplicationControllerUpdated",
                     "untilCoreV1ReplicationControllerDeleted")
      [] gvk = "v1/ResourceQuota" ->
           AwaitSpec("untilCoreV1ResourceQuotaInitialized",
                     "untilCoreV1ResourceQuotaUpdated", None)
      [] gvk = "v1/Service" ->
           AwaitSpec("untilCoreV1ServiceInitialized", None, None)
      [] gvk = "v1/ServiceAccount" ->
           AwaitSpec("untilCoreV1ServiceAccountInitialized", None, None)
      [] gvk = "extensions/v1beta1/Ingress" ->
           AwaitSpec("untilExtensionsV1Beta1IngressInitialized", None, None)
      [] OTHER -> AwaitSpec(None, None, None)]

\* awaiters[gvk] as a Go map read: a missing key yields the zero awaitSpec.
Lookup(gvk) == IF gvk \in DOMAIN awaiters THEN awaiters[gvk]
                                          ELSE AwaitSpec(None, None, None)

\* The slot of the spec that an operation (create, update, delete) uses.
AwaiterFor(gvk, op) ==
  LET s == Lookup(gvk) IN
  CASE op = "create" -> s.awaitCreation
    [] op = "update" -> s.awaitUpdate
    [] op = "delete" -> s.awaitDeletion

-----------------------------------------------------------------------------
(* Field accessors and predicates.                                         *)

deploymentSpecReplicas(o) == Pluck(o, SpecReplicas)
availableReplicas(o) == Pluck(o, StatusAvailable)
replicationControllerSpecReplicas(o) == Pluck(o, SpecReplicas)

\* Mutant: a replicator converges once it has at least the desired count.
waitForDesiredReplicasFuncAtLeast(desired, current) ==
  desired[2] /\ current[2] /\ ValueOf(current[1]) >= ValueOf(desired[1])

\* The predicate waitForDesiredReplicasFunc returns, applied to a state:
\* desired and current are what getReplicasSpec and getReplicasStatus
\* pluck from it, and the replicator has converged when both counts exist
\* and are equal (Go == on two interface values).
waitForDesiredReplicasFunc(desired, current) ==
  desired[2] /\ current[2] /\ current[1] = desired[1]

\* Mutant: a volume that is already Bound is not accepted.
pvAvailableOnly(o) == Pluck(o, StatusPhase)[1] = String("Available")

pvAvailableOrBound(o) ==
  LET statusPhase == Pluck(o, StatusPhase)[1]
  IN  statusPhase = String("Available") \/ statusPhase = String("Bound")

pvcBound(o) == Pluck(o, StatusPhase)[1] = String("Bound")

\* Mutant: a pod that ran to completion counted as running.
podRunningOrSucceeded(o) ==
  Pluck(o, StatusPhase)[1] \in {String("Running"), String("Succeeded")}

podRunning(o) == Pluck(o, StatusPhase)[1] = String("Running")

\* rqInitialized: both hard lists must assert to v1.ResourceList and be
\* equal.
rqInitialized(o) ==
  LET hard       == Pluck(o, SpecHard)[1]
      hardStatus == Pluck(o, StatusHard)[1]
  IN  /\ IsType(hard, "v1.ResourceList")
      /\ IsType(hardStatus, "v1.ResourceList")
      /\ ValueOf(hard) = ValueOf(hardStatus)

\* externalIPAllocated (Service and Ingress): a non-empty ingress slice.
externalIPAllocated(o) ==
  LET lbIngress == Pluck(o, StatusLBIngress)[1]
  IN  IsType(lbIngress, "[]interface") /\ ValueOf(lbIngress) > 0

\* The number of secrets the user's inputs list (0 when not an array).
numSpecSecrets(inputs) ==
  LET specSecrets == Pluck(inputs, Secrets)[1]
  IN  IF IsType(specSecrets, "[]interface") THEN ValueOf(specSecrets) ELSE 0

defaultSecretAllocated(nSpec, o) ==
  LET secrets == Pluck(o, Secrets)[1]
  IN  IsType(secrets, "[]interface") /\ ValueOf(secrets) > nSpec

-----------------------------------------------------------------------------
(* The creation and update awaiters that wait with WatchUntil, each as the *)
(* predicate it watches the object with (its deadline of 1, 5 or 10       *)
(* minutes is abstracted into the watcher's Expire step).  An update       *)
(* awaiter that delegates to its creation awaiter is that awaiter.         *)

untilAppsDeploymentInitialized(o) ==
  waitForDesiredReplicasFunc(deploymentSpecReplicas(o), availableReplicas(o))

untilAppsDeploymentUpdated(o) == untilAppsDeploymentInitialized(o)

untilCoreV1PersistentVolumeInitialized(o) == pvAvailableOrBound(o)

untilCoreV1PersistentVolumeClaimBound(o) == pvcBound(o)

untilCoreV1PodInitialized(o) == podRunning(o)

untilCoreV1ReplicationControllerInitialized(o) ==
  waitForDesiredReplicasFunc(replicationControllerSpecReplicas(o),
                             availableReplicas(o))

untilCoreV1ReplicationControllerUpdated(o) ==
  untilCoreV1ReplicationControllerInitialized(o)

untilCoreV1ResourceQuotaInitialized(o) == rqInitialized(o)

\* The Service and Ingress awaiters watch for an allocated load balancer
\* (their event client, the Service's type check and the warnings fetch
\* are steps of Await).
untilCoreV1ServiceInitialized(o) == externalIPAllocated(o)

untilExtensionsV1Beta1IngressInitialized(o) == externalIPAllocated(o)

\* numSpecSecrets is computed from the inputs once, before the watch.
untilCoreV1ServiceAccountInitialized(inputs, o) ==
  defaultSecretAllocated(numSpecSecrets(inputs), o)

\* The predicate that WatchUntil evaluates for the awaiter named fn (the
\* ResourceQuota update awaiter, once the spec changed, reruns the
\* creation awaiter).
WatchPredicate(fn, inputs, o) ==
  CASE fn = "untilAppsDeploymentInitialized" -> untilAppsDeploymentInitialized(o)
    [] fn = "untilAppsDeploymentUpdated"     -> untilAppsDeploymentUpdated(o)
    [] fn = "untilCoreV1ReplicationControllerInitialized" ->
         untilCoreV1ReplicationControllerInitialized(o)
    [] fn = "untilCoreV1ReplicationControllerUpdated" ->
         untilCoreV1ReplicationControllerUpdated(o)
    [] fn = "untilCoreV1PersistentVolumeInitialized" ->
         untilCoreV1PersistentVolumeInitialized(o)
    [] fn = "untilCoreV1PersistentVolumeClaimBound" ->
         untilCoreV1PersistentVolumeClaimBound(o)
    [] fn = "untilCoreV1PodInitialized" -> untilCoreV1PodInitialized(o)
    [] fn \in {"untilCoreV1ResourceQuotaInitialized",
               "untilCoreV1ResourceQuotaUpdated"} ->
         untilCoreV1ResourceQuotaInitialized(o)
    [] fn = "untilCoreV1ServiceInitialized" -> untilCoreV1ServiceInitialized(o)
    [] fn = "untilExtensionsV1Beta1IngressInitialized" ->
         untilExtensionsV1Beta1IngressInitialized(o)
    [] fn = "untilCoreV1ServiceAccountInitialized" ->
         untilCoreV1ServiceAccountInitialized(inputs, o)

-----------------------------------------------------------------------------
(* Deletion checks.  A get result is [err, obj]: err is "none", "404" or   *)
(* "error" (any other error), and obj is the object, or NilObject (a nil   *)
(* *Unstructured) when the get failed.  A check answers "done", "retry",   *)
(* "fatal" (the error is returned), or "panic": the check calls GetName()  *)
(* on a nil *Unstructured to log the error, a nil pointer dereference.     *)

NilObject == [p \in Paths |-> Nil]

\* The log call in the error branch of deploymentMissing, rcMissing and
\* namespaceMissingOrKilled evaluates obj.GetName().
LogErrorWithName(obj) == IF obj = NilObject THEN "panic" ELSE "fatal"

deploymentMissing(r) ==
  IF r.err = "404" THEN "done"
  ELSE IF r.err # "none" THEN LogErrorWithName(r.obj)
  ELSE "retry"

namespaceMissingOrKilled(r) ==
  IF r.err = "404" THEN "done"
  ELSE IF r.err # "none" THEN LogErrorWithName(r.obj)
  ELSE IF Pluck(r.obj, StatusPhase)[1] = String(EmptyString) THEN "done"
  ELSE "retry"

podMissingOrKilled(r) ==
  IF r.err = "404" THEN "done"
  ELSE IF r.err # "none" THEN "fatal"
  ELSE "retry"

rcMissing(r) ==
  IF r.err = "404" THEN "done"
  ELSE IF r.err # "none" THEN LogErrorWithName(r.obj)
  ELSE "retry"

\* The deletion awaiters, each as the check it polls the object with (its
\* deadline of 5 or 10 minutes is abstracted into the watcher's Expire step).
untilAppsDeploymentDeleted(r) == deploymentMissing(r)

untilCoreV1NamespaceDeleted(r) == namespaceMissingOrKilled(r)

untilCoreV1PodDeleted(r) == podMissingOrKilled(r)

untilCoreV1ReplicationControllerDeleted(r) == rcMissing(r)

\* The check that RetryUntil evaluates for a deletion awaiter.
DeletionCheck(fn, r) ==
  CASE fn = "untilAppsDeploymentDeleted"  -> untilAppsDeploymentDeleted(r)
    [] fn = "untilCoreV1NamespaceDeleted" -> untilCoreV1NamespaceDeleted(r)
    [] fn = "untilCoreV1PodDeleted"       -> untilCoreV1PodDeleted(r)
    [] fn = "untilCoreV1ReplicationControllerDeleted" ->
         untilCoreV1ReplicationControllerDeleted(r)

\* Awaiters whose wait failure is enriched with the object's last warnings.
EventAwaiters == {"untilCoreV1ServiceInitialized",
                  "untilExtensionsV1Beta1IngressInitialized"}

\* Awaiters that run RetryUntil rather than WatchUntil.
DeletionAwaiters == {"untilAppsDeploymentDeleted", "untilCoreV1NamespaceDeleted",
                     "untilCoreV1PodDeleted", "untilCoreV1ReplicationControllerDeleted"}
=============================================================================
