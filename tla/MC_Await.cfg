\* The awaiters whose predicates agree with the spec (no replicator
\* deletion), replicators asked for at least one replica.
CONSTANTS
  GVKs <- MCAgreeingGVKs
  ReplicaCounts = {1, 2}
  MaxReplicas = 2
  Quotas <- MCQuotas
  MaxChanges = 3
  MaxFaults = 1
SPECIFICATION AgreeingSpec
INVARIANTS
  SuccessImpliesConverged
  NoFailureAfterConvergedObservation
CHECK_DEADLOCK FALSE
