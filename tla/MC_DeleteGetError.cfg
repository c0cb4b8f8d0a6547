\* The deletion awaiters when a get fails with an error other than 404.
CONSTANTS
  GVKs <- MCDeletionGVKs
  ReplicaCounts = {1}
  MaxReplicas = 2
  Quotas <- MCQuotas
  MaxChanges = 3
  MaxFaults = 1
SPECIFICATION Spec
INVARIANT
  NoCrash
CHECK_DEADLOCK FALSE
