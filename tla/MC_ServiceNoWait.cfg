\* Services of every type, with an event client that may fail to build.
CONSTANTS
  GVKs <- MCServiceGVKs
  ReplicaCounts = {1}
  MaxReplicas = 2
  Quotas <- MCQuotas
  MaxChanges = 3
  MaxFaults = 1
SPECIFICATION Spec
INVARIANT
  NoWaitServiceNeverFails
CHECK_DEADLOCK FALSE
