\* A LoadBalancer Service whose wait fails and whose warnings fetch fails.
CONSTANTS
  GVKs <- MCServiceGVKs
  ReplicaCounts = {1}
  MaxReplicas = 2
  Quotas <- MCQuotas
  MaxChanges = 3
  MaxFaults = 1
SPECIFICATION Spec
INVARIANT
  WaitErrorReported
CHECK_DEADLOCK FALSE
