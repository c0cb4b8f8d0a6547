\* Deployment and ReplicationController deletions, whose replicas may reach
\* zero while the object still exists.
CONSTANTS
  GVKs <- MCReplicatorGVKs
  ReplicaCounts = {1}
  MaxReplicas = 2
  Quotas <- MCQuotas
  MaxChanges = 3
  MaxFaults = 1
SPECIFICATION Spec
INVARIANT
  NoFailureAfterConvergedObservation
CHECK_DEADLOCK FALSE
