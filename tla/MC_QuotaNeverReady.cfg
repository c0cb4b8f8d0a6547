\* The ResourceQuota awaiters against the spec's convergence condition.
CONSTANTS
  GVKs <- MCQuotaGVKs
  ReplicaCounts = {1}
  MaxReplicas = 2
  Quotas <- MCQuotas
  MaxChanges = 3
  MaxFaults = 1
SPECIFICATION Spec
INVARIANT
  NoFailureAfterConvergedObservation
CHECK_DEADLOCK FALSE
