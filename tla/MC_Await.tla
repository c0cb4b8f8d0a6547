------------------------------ MODULE MC_Await ------------------------------
(***************************************************************************)
(* Model-checking instance of Await: one key per kind of the registry, a   *)
(* kind the registry lists with no await logic, and a kind it does not     *)
(* list at all.                                                            *)
(***************************************************************************)
EXTENDS Await

\* One group/version/kind per awaiter, plus v1/ConfigMap (listed, no
\* awaiter) and v1/Endpoints (not listed).
MCGVKs == {"apps/v1/Deployment", "v1/ReplicationController", "v1/Namespace",
           "v1/PersistentVolume", "v1/PersistentVolumeClaim", "v1/Pod",
           "v1/ResourceQuota", "v1/Service", "v1/ServiceAccount",
           "extensions/v1beta1/Ingress", "v1/ConfigMap", "v1/Endpoints"}

\* The kinds whose waits agree with the spec (the ResourceQuota waits do not).
MCAgreeingGVKs == MCGVKs \ {"v1/ResourceQuota"}

MCQuotas == {"hardA", "hardB"}

\* Single kinds for the runs that look at one awaiter.
MCQuotaGVKs      == {"v1/ResourceQuota"}
MCDeploymentGVKs == {"apps/v1/Deployment"}
MCServiceGVKs    == {"v1/Service"}
MCReplicatorGVKs == {"apps/v1/Deployment", "v1/ReplicationController"}
MCDeletionGVKs   == {"apps/v1/Deployment", "v1/ReplicationController",
                     "v1/Namespace", "v1/Pod"}
=============================================================================
