\* A Deployment whose inputs ask for zero replicas.
CONSTANTS
  GVKs <- MCDeploymentGVKs
  ReplicaCounts = {0, 1}
  MaxReplicas = 2
  Quotas <- MCQuotas
  MaxChanges = 3
  MaxFaults = 1
SPECIFICATION AgreeingSpec
INVARIANT
  NoFailureAfterConvergedObservation
CHECK_DEADLOCK FALSE
