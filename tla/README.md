# Verification of pkg/await

This directory holds TLA+ models of the await logic in
`src/pkg/await/awaiters.go`. After the provider creates, updates or deletes a
Kubernetes object, this logic decides when the object is "ready". The project
contains TLC model-checking runs on small instances and TLAPS proofs of the
two main safety properties for every value of the constants.

## The system and its parts

| Part | Source | Status |
|---|---|---|
| Await registry: the `awaitSpec` triple and the `awaiters` map from group/version/kind to awaiters | awaiters.go 66-180 | modelled (`Awaiters`) |
| Predicate library: `waitForDesiredReplicasFunc`, the replica accessors, `pvAvailableOrBound`, `pvcBound`, `podRunning`, `rqInitialized`, `externalIPAllocated`, `numSpecSecrets`/`defaultSecretAllocated` | 199-666 | modelled (`Awaiters`, `Unstructured`) |
| Deletion checks for RetryUntil: `deploymentMissing`, `namespaceMissingOrKilled`, `podMissingOrKilled`, `rcMissing` | 238-465 | modelled (`Awaiters`) |
| Awaiter control flow: the ResourceQuota update skip, the event client, the Service type check, the wait and the warnings fetch | 473-634 | modelled (`Await`) |
| Watcher `WatchUntil` / `RetryUntil` (pkg/watcher) | not under src | partly, from the spec (sections 4.1, 4.2) |
| Event helpers `getLastWarningsForObject`, `stringifyEvents` | not under src | partly: only whether they succeed |
| Provider call site, `is404` | not under src | partly, from the spec |
| SDK constructor and getter of core/v1 ResourceQuotaList | sdk/go/kubernetes/core/v1/resourceQuotaList.go 30-59 | modelled (`ResourceQuotaListSdk`), not checked (see below); the output types are left out |
| Other generated SDK files (`batch/v1beta1`, `pkg/version` types) | generated | not modelled: type declarations with no logic |

These parts interact as follows. The provider looks up `awaiters[gvk]` and
calls the slot for the operation. A nil slot, or a key that is not in the map,
means immediate success. A creation or update awaiter runs `WatchUntil` with
a predicate over the unstructured object. A deletion awaiter runs
`RetryUntil` with a check over the result of a get. Meanwhile the cluster's
controllers change the object's status.

## Modules

- **`Unstructured`** models the object as the awaiters see it. An object is a
  function from field paths to Go `interface{}` values. Each value is a pair
  `<<dynamic type, value>>`, so TLA+ equality is Go's `==` on interfaces, and
  the assertion `v.(T)` succeeds exactly when `TypeOf(v) = T`. This is what
  exposes the type bugs below.
  - `Pluck` models `openapi.Pluck`.
  - `SprintV` models `fmt.Sprintf("%v", ...)`.
  - JSON arrays are abstracted to their length. A JSON object is a name for its
    contents.
- **`Awaiters`** holds the registry and every predicate and check,
  translated from the source one for one, under the source's names.
  - Each awaiter function is an operator under its own name
    (`untilAppsDeploymentInitialized`, `untilCoreV1PodInitialized`, ...),
    giving the predicate it passes to `WatchUntil`; the Updated awaiters of
    the replicators are their Initialized ones, as in the code.
  - `WatchPredicate(fn, inputs, o)` dispatches from an awaiter's name to
    that predicate.
  - `DeletionCheck(fn, r)` is the check for `RetryUntil`. A check answers
    done, retry, fatal, or panic. Panic means it called `GetName()` on a nil
    object.
- **`Await`** models one await call. It keeps 15 variables, whose roles are
  commented in the module:
  - the object's truth `obj = [spec, status]` and `exists`;
  - the awaiter's `pc`;
  - the watch subscription and its undelivered `stream`;
  - the error parts;
  - the history variables `wasConverged` and `convergedObserved`.

  The awaiter reads the object through `Serialize`, the API server's JSON
  encoding. That encoding drops zero `omitempty` fields and defaults
  `spec.type` of a Service to ClusterIP. Inputs reach the awaiter through
  `Inputs`, which does neither.

  Actions:

  | Action | What it models |
  |---|---|
  | `StartAwait` | The lookup, the nil slot, and the early return of `untilCoreV1ResourceQuotaUpdated`; otherwise the awaiter begins. |
  | `EventClient` | `c.eventClient()` and its error return, then the Service `spec.type` check. |
  | `Subscribe` | Opening the watch. |
  | `Deliver` | The predicate evaluated on the next delivered state. |
  | `Poll` / `PollResult` | One get and check of `RetryUntil`. |
  | `Expire` | The deadline. |
  | `Cancel` | Context cancellation. |
  | `FetchWarnings` | Lines 539-546 and 624-631. |
  | `StatusChange`, `ObjectRemoved`, `WatchBreaks` | The environment. |

  "Converged" is the condition of spec section 4.4, `KindConverged`. It is
  stated independently of the code's predicates.
- **`AwaitContract`** is the abstract specification of an await call, as
  the provider sees it: an `outcome` (pending, succeeded, failed, crashed)
  and whether the object has `converged`. Its actions are `Converge`,
  `Succeed` (only when converged), `Fail` and `Crash`; its fairness says the
  call ends. `Await` instantiates it as `AC` under the refinement mapping
  `outcome <- Outcome` (from `pc` and `result`) and
  `converged <- wasConverged`. `ContractSafety` proves the safety part.
  The contract's fairness only says that the call ends, which the weakly
  fair deadline gives by itself, so it is not checked.
- **`ResourceQuotaListSdk`** models the generated SDK functions
  `NewResourceQuotaList` (the nil-args and nil-Items checks, the overwrite
  of ApiVersion and Kind, the registration) and `GetResourceQuotaList`
  (the read by ID). The Pulumi engine is modelled from its interface: it
  registers or adopts a resource under a free name, and it may fail either
  call. No run checks this module. Each call is decided by its own guards
  (lines 32-40), and neither names nor interleavings of calls let a
  property say more than those guards.
- **`MC_Await`** instantiates `Await` with 12 kinds: one per awaiter, plus
  `v1/ConfigMap` (listed in the map, no awaiter) and `v1/Endpoints` (not listed).
- **`AwaitProofs`** holds the TLAPS proofs of soundness and of the contract.
- **`AwaitCompleteness`** extends it with the proof that, on the calls where
  the code agrees with the spec, a converged state shown to the awaiter is
  accepted.

## Runs

| Run | cfg | Expect | Shows |
|---|---|---|---|
| await_agreeing | MC_Await.cfg | pass | All kinds except ResourceQuota, over all three operations, with watch breaks, failed gets, deadlines and cancellation. Two properties hold: `SuccessImpliesConverged` (success only after real convergence) and `NoFailureAfterConvergedObservation` (a converged state, once delivered or fetched, is accepted). About 20k distinct states. |
| quota_never_ready | MC_QuotaNeverReady.cfg | violation | `rqInitialized` asserts `v1.ResourceList`, but decoded JSON holds `map[string]interface{}`. The quota wait therefore never succeeds, even after status.hard = spec.hard is delivered (line 478). |
| zero_replicas | MC_ZeroReplicas.cfg | violation | On the agreeing calls (`AgreeingSpec`: no replicator delete, so the trace is a creation): with `spec.replicas = 0` the server omits `status.availableReplicas`, so `hasReplicasStatus` is false (line 658). A converged Deployment times out. |
| delete_get_error | MC_DeleteGetError.cfg | violation | A non-404 get error during deletion reaches `d.GetName()` on a nil object (line 255; also lines 292 and 443): a nil dereference. |
| delete_scaled_down | MC_DeleteScaledDown.cfg | violation | A replicator being deleted that a get shows at zero replicas is retried, not accepted (lines 261, 450), until the deadline. Spec section 4.4 counts it as deleted. |
| service_no_wait | MC_ServiceNoWait.cfg | violation | A ClusterIP Service, which needs no wait, fails when the event client cannot be built (line 510): the type check comes after. |
| warnings_mask | MC_WarningsMask.cfg | violation | When both the wait and the warnings fetch fail, only `wErr` is returned (line 543; also line 628). The timeout is lost, contrary to spec section 7. |

PROJECT.json lists a mutant for each property of the passing run. Each is
a plausible bug in a mapped definition, and each is killed:
- `>=` in place of `==` in `waitForDesiredReplicasFunc` breaks
  `SuccessImpliesConverged`;
- a PV predicate that forgets Bound breaks
  `NoFailureAfterConvergedObservation`.

The inductive invariants of the proofs (`IInv`, `ObservedInv`) are not
separate runs. Each was checked with TLC on the await_agreeing instance
before it was proved. A run of its own would only repeat the properties
above, with the same mutants.

`MC_Await.cfg` uses `AgreeingSpec` (defined in `Await`), whose initial
states exclude replicator deletion, where the code and the spec disagree
(delete_scaled_down).

### Bounds

| Constant | Value | Why it is enough |
|---|---|---|
| `ReplicaCounts` | {1,2}, or {0,1,2} | Allows both equal and unequal counts, and the zero boundary. |
| `MaxReplicas` | 2 | Status replica counts range over 0..2. |
| `Quotas` | two names | Allows equal and unequal hard lists. |
| `MaxChanges` | 3 | Enough for a status to become converged, leave convergence, and come back, all while a watch is broken. |
| `MaxFaults` | 1 | One broken watch or failed API call per call. Every error path is taken, and the runs still finish in seconds. |

### Fairness

The awaiter's own steps are weakly fair. The awaiter is a single goroutine
that keeps polling, and its deadline is a timer that fires. The successful
get is fair, but a failing get is not: nothing forces the cluster to fail.
Status changes, watch breaks and cancellation carry no fairness. Both
checked properties are invariants, so fairness plays no part in them. No
liveness property is checked: every call ends because the deadline is weakly
fair, whatever the predicates do, so such a property would say nothing about
the code.

## Proofs (AwaitProofs)

`tlapm AwaitProofs.tla` checks every obligation. The results:

- `IInvInvariant`: `Spec => []IInv`.
- `SuccessSound`: `Spec => []SuccessImpliesConverged`.
- `ContractSafety`: `Spec => AC!SafetySpec`. The await call implements the
  safety part of its contract. The initial states map to a pending call
  (`InitContract`). `ContractStep` takes every step of `Next`, one case per
  action, to a contract step or a stutter, given `IInv` before and after:
  - a return of nil is `Succeed`, enabled by `SuccessImpliesConverged'`;
  - a return of an error is `Fail`;
  - a nil dereference is `Crash`;
  - a status change or removal that first makes `wasConverged` true is
    `Converge`;
  - everything else leaves `Outcome` and `wasConverged` alone.

All three hold for every value of the constants, under `ConstantsAssumption`
(the counts and bounds are naturals).

`SuccessImpliesConverged` is not inductive on its own. A `Deliver` step may
succeed on a state that was queued long ago, and the object may have moved on
since. `IInv` therefore adds three conjuncts:
- `InvPhase`: only a watching awaiter is in a watch phase, and only a
  deletion awaiter polls;
- `InvCurrent`: a converged current state is remembered in `wasConverged`;
- `InvStream`: every queued state has the object's spec, and is remembered
  if it is converged.

The step proof has one case per action. It rests on these lemmas:
- `RegistrySlots`: every slot of the registry is one of 16 rows of
  (kind, operation, awaiter);
- `PredicateSound`: every predicate that holds on the serialized form of a
  state with the object's spec implies `KindConverged` of that state;
- `CheckSound`: a deletion check says done only when the object is gone.

Nothing that a run checks is left unproved for the agreeing calls. The
violation runs show properties that are false. Liveness and ENABLED are
outside TLAPS, and no liveness property is stated (see Fairness).

## Proofs (AwaitCompleteness)

`NoFailureAfterConvergedObservation` is false in general. It fails for
ResourceQuota (quota_never_ready), for zero replicas (zero_replicas) and for
a replicator delete (delete_scaled_down). The theorem therefore states it
under hypotheses that exclude exactly these three cases:
- `AgreeingConstants`: no kind is ResourceQuota, and 0 is not a replica count;
- `AgreeingSpec`: `Spec` with the initial call restricted by `AgreeingCall`,
  so that no replicator is deleted.

This is the configuration of await_agreeing.

- `ObservedInvariant`: `AgreeingSpec => []ObservedInv`.
- `ObservedConvergenceAccepted`: `AgreeingSpec =>
  []NoFailureAfterConvergedObservation`.

`ObservedInv` is `IInv` together with three further conjuncts:
- `InvServiceWatch`: a Service is watched only when its inputs format as
  "LoadBalancer";
- `AgreeingCall`, which the operation and kind keep (`KindOpFixed`);
- `convergedObserved => pc = "done" /\ result = {}`.

The step proof (`ObservedStep`) shows that only `Deliver` and `PollResult`
can set `convergedObserved`, and that each of them then returns nil. It
rests on these lemmas:
- `PredicateComplete`: per kind, every watch predicate holds on the
  serialized form of a converged state with the object's spec. For a
  Service this needs `InvServiceWatch`, since a ClusterIP Service is never
  watched.
- `CheckComplete`: every deletion check says done on a successful get of a
  deleted Namespace or Pod.
- `DoneFrozen`: a returned or crashed call never changes its outcome again.

String literals in the modules avoid the empty string, braces and spaces,
because the SMT backend rejects them. The Go `""` is `EmptyString`.

## Not modelled

- The generated SDK types (output types, `batch/v1beta1`, `pkg/version`).
- Logging and message wording.
- The event filtering inside `getLastWarningsForObject`.
- Several concurrent await calls. Each call touches one object and shares no
  state with other calls.

## Plan for later sittings

- Deployment and ReplicationController update across generations. Lines
  234-236 and 422-424 reuse the creation predicate, which can accept the
  old generation.
- Retrying transient get errors during deletion.
- Action properties as `[][...]` theorems. `DoneFrozen` already proves that
  a returned call never changes its outcome.
