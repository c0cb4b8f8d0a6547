------------------------------- MODULE Await -------------------------------
(***************************************************************************)
(* One await call of pkg/await: the provider has just created, updated or  *)
(* deleted an object of kind gvk, looks the kind up in the registry and    *)
(* runs the awaiter it finds, which waits on the object through the        *)
(* watcher (WatchUntil for creation and update, RetryUntil for deletion)   *)
(* while the cluster's controllers change the object's status.             *)
(*                                                                         *)
(* The watcher (pkg/watcher), the provider's call site and the event       *)
(* helpers are not under src/ and are modelled from the spec (sections     *)
(* 4.1, 4.2, 4.5 and 6): a watch delivers, in order, the states the object *)
(* takes while the subscription is open, starting with its state when it   *)
(* subscribes; a broken subscription loses what it had not delivered and  *)
(* is reopened; RetryUntil polls with get; the deadline and a cancellation *)
(* of the context may end either wait at any moment.                       *)
(*                                                                         *)
(* The object is kept as its server-side truth, obj = [spec, status], and  *)
(* the awaiters read it through Serialize, the JSON the API server         *)
(* encodes (fields marked omitempty vanish when zero).                     *)
(***************************************************************************)
EXTENDS Awaiters, Sequences

CONSTANTS
  GVKs,           \* the kinds an await call may be made for
  ReplicaCounts,  \* the values spec.replicas of a replicator may have
  MaxReplicas,    \* the largest status.availableReplicas
  Quotas,         \* names for the distinct contents of a hard quota list
  MaxChanges,     \* bound on status changes made by the cluster per call
  MaxFaults       \* bound on broken watches and failed API calls per call

ASSUME ConstantsAssumption ==
  /\ ReplicaCounts \subseteq Nat
  /\ MaxReplicas \in Nat
  /\ MaxChanges \in Nat
  /\ MaxFaults \in Nat

Ops == {"create", "update", "delete"}

VARIABLES
  gvk,                \* the kind of the object awaited
  op,                 \* the operation the provider performed
  obj,                \* the object's truth in the cluster: [spec, status]
  exists,             \* FALSE once the object is gone (get answers 404)
  lastSpec,           \* spec of the previous inputs (update only)
  pc,                 \* where the awaiter is
  watch,              \* the watch subscription: none, open, broken, closed
  stream,             \* states the open watch has yet to deliver
  lastReason,         \* whether RetryUntil has seen "still exists"
  waitErr,            \* the error WatchUntil returned, before enrichment
  result,             \* the error the awaiter returns ({} is nil)
  changes, faults,    \* counters for the bounds MaxChanges and MaxFaults
  wasConverged,       \* history: the object converged at some point
  convergedObserved   \* history: the awaiter was shown a converged state

vars == <<gvk, op, obj, exists, lastSpec, pc, watch, stream, lastReason,
          waitErr, result, changes, faults, wasConverged, convergedObserved>>

-----------------------------------------------------------------------------
(* The cluster side: the states an object of each kind can be in.          *)

Replicators == {"Deployment", "ReplicationController"}
PhaseKinds  == {"Namespace", "PersistentVolume", "PersistentVolumeClaim", "Pod"}

\* The spec values a user's inputs can give an object of a kind.
SpecValues(kind) ==
  CASE kind \in Replicators     -> ReplicaCounts
    [] kind = "ResourceQuota"   -> Quotas
    [] kind = "Service"         -> {EmptyString, "ClusterIP", "LoadBalancer"}
    [] kind = "ServiceAccount"  -> {Nil, Slice(0), Slice(1)}
    [] OTHER                    -> {"none"}

\* The number of secrets the user listed for a ServiceAccount.
SecretsLen(spec) == IF spec = Nil THEN 0 ELSE ValueOf(spec)

\* The status values the cluster can give it ("" is an unset phase).
StatusValues(kind, spec) ==
  CASE kind \in Replicators            -> 0..MaxReplicas
    [] kind = "PersistentVolume"       -> {EmptyString, "Pending", "Available", "Bound", "Released"}
    [] kind = "PersistentVolumeClaim"  -> {EmptyString, "Pending", "Bound", "Lost"}
    [] kind = "Pod"                    -> {EmptyString, "Pending", "Running", "Succeeded", "Failed"}
    [] kind = "Namespace"              -> {"Active", "Terminating"}
    [] kind = "ResourceQuota"          -> {EmptyString} \cup Quotas
    [] kind \in {"Service", "Ingress"} -> 0..1
    [] kind = "ServiceAccount"         -> {SecretsLen(spec), SecretsLen(spec) + 1}
    [] OTHER                           -> {"none"}

Objects(kind) ==
  UNION {[spec: {s}, status: StatusValues(kind, s)] : s \in SpecValues(kind)}

\* The JSON the API server encodes for an object: zero counts, empty lists
\* and empty phases are omitted, and an unset Service type is defaulted.
Field(kind, t, p) ==
  CASE p = SpecReplicas /\ kind \in Replicators -> Int64(t.spec)
    [] p = StatusAvailable /\ kind \in Replicators /\ t.status > 0 -> Int64(t.status)
    [] p = StatusPhase /\ kind \in PhaseKinds /\ t.status # EmptyString -> String(t.status)
    [] p = SpecHard /\ kind = "ResourceQuota" -> Map(t.spec)
    [] p = StatusHard /\ kind = "ResourceQuota" /\ t.status # EmptyString -> Map(t.status)
    [] p = SpecType /\ kind = "Service" ->
         String(IF t.spec = EmptyString THEN "ClusterIP" ELSE t.spec)
    [] p = StatusLBIngress /\ kind \in {"Service", "Ingress"} /\ t.status > 0 ->
         Slice(t.status)
    [] p = Secrets /\ kind = "ServiceAccount" /\ t.status > 0 -> Slice(t.status)
    [] OTHER -> Nil

Serialize(kind, t) == [p \in Paths |-> Field(kind, t, p)]

\* The user's inputs (currentInputs) as the provider holds them: only what
\* the user wrote, nothing defaulted or omitted.
InputField(kind, t, p) ==
  CASE p = SpecReplicas /\ kind \in Replicators -> Int64(t.spec)
    [] p = SpecHard /\ kind = "ResourceQuota" -> Map(t.spec)
    [] p = SpecType /\ kind = "Service" /\ t.spec # EmptyString -> String(t.spec)
    [] p = Secrets /\ kind = "ServiceAccount" -> t.spec
    [] OTHER -> Nil

Inputs(kind, t) == [p \in Paths |-> InputField(kind, t, p)]

-----------------------------------------------------------------------------
(* What the spec (section 4.4) says each wait waits for, on the truth.     *)

Kind == KindOf(gvk)
Fn   == AwaiterFor(gvk, op)

\* The state a creation or update wait is for, by kind.
KindConverged(t) ==
  \/ Kind \in Replicators /\ t.status = t.spec
  \/ Kind = "PersistentVolume" /\ t.status \in {"Available", "Bound"}
  \/ Kind = "PersistentVolumeClaim" /\ t.status = "Bound"
  \/ Kind = "Pod" /\ t.status = "Running"
  \/ /\ Kind = "ResourceQuota"
     /\ t.status = t.spec \/ (op = "update" /\ lastSpec = t.spec)
  \/ Kind = "Service" /\ (t.spec # "LoadBalancer" \/ t.status \in Nat \ {0})
  \/ Kind = "Ingress" /\ t.status \in Nat \ {0}
  \/ Kind = "ServiceAccount" /\ t.status \in {n \in Nat : n > SecretsLen(t.spec)}

\* The state a deletion wait is for (with ex: does the object still exist):
\* the object is gone, a replicator has scaled down to zero replicas, or a
\* namespace has no phase.
DeletionConverged(t, ex) ==
  \/ ~ex
  \/ Kind \in Replicators /\ t.status = 0
  \/ Kind = "Namespace" /\ t.status = EmptyString

\* The state t is one the awaited operation is done in: anything when no
\* awaiter is registered.
ConvergedState(t, ex) ==
  \/ Fn = None
  \/ Fn # None /\ op = "delete" /\ DeletionConverged(t, ex)
  \/ Fn # None /\ op # "delete" /\ KindConverged(t)

-----------------------------------------------------------------------------
(* The await call.                                                         *)

\* The awaiter returns err; the watch subscription, if any, is released.
Return(err) ==
  /\ pc' = "done"
  /\ result' = err
  /\ watch' = IF watch = "none" THEN "none" ELSE "closed"

\* WatchUntil or RetryUntil returned err: the Service and Ingress awaiters
\* go on to fetch the object's warnings, the others return err.
EndWait(err) ==
  IF Fn \in EventAwaiters
    THEN /\ pc' = "warnings"
         /\ waitErr' = err
         /\ watch' = "closed"
         /\ UNCHANGED result
    ELSE /\ Return(err)
         /\ UNCHANGED waitErr

Init ==
  /\ gvk \in GVKs
  /\ op \in Ops
  /\ obj \in Objects(KindOf(gvk))
  /\ exists \in IF op = "delete" THEN BOOLEAN ELSE {TRUE}
  /\ lastSpec \in IF AwaiterFor(gvk, op) = "untilCoreV1ResourceQuotaUpdated"
                    THEN SpecValues(KindOf(gvk)) ELSE {obj.spec}
  /\ pc = "start"
  /\ watch = "none"
  /\ stream = <<>>
  /\ lastReason = "none"
  /\ waitErr = {}
  /\ result = {}
  /\ changes = 0
  /\ faults = 0
  /\ wasConverged = ConvergedState(obj, exists)
  /\ convergedObserved = FALSE

\* The provider's call site looks the awaiter up and calls it; a nil slot
\* is immediate success.  The awaiter's first step: the ResourceQuota
\* update awaiter returns at once when the spec did not change; the
\* Service and Ingress awaiters first build an event client; the others
\* start WatchUntil or RetryUntil.
StartAwait ==
  /\ pc = "start"
  /\ \/ /\ \/ Fn = None
           \/ Fn = "untilCoreV1ResourceQuotaUpdated" /\ lastSpec = obj.spec
        /\ Return({})
        /\ UNCHANGED waitErr
     \/ /\ Fn # None
        /\ Fn = "untilCoreV1ResourceQuotaUpdated" => lastSpec # obj.spec
        /\ pc' = CASE Fn \in EventAwaiters    -> "events"
                   [] Fn \in DeletionAwaiters -> "retry"
                   [] OTHER                   -> "watch"
        /\ UNCHANGED <<watch, result, waitErr>>
  /\ UNCHANGED <<gvk, op, obj, exists, lastSpec, stream, lastReason, changes,
                 faults, wasConverged, convergedObserved>>

\* c.eventClient() in the Service and Ingress awaiters: it can fail; then
\* a Service waits only when spec.type formats as "LoadBalancer".
EventClient ==
  /\ pc = "events"
  /\ \/ /\ faults < MaxFaults
        /\ faults' = faults + 1
        /\ Return({"eventClient"})
     \/ /\ Fn = "untilCoreV1ServiceInitialized"
        /\ SprintV(Pluck(Inputs(Kind, obj), SpecType)[1]) # "LoadBalancer"
        /\ Return({})
        /\ UNCHANGED faults
     \/ /\ \/ Fn = "untilExtensionsV1Beta1IngressInitialized"
           \/ SprintV(Pluck(Inputs(Kind, obj), SpecType)[1]) = "LoadBalancer"
        /\ pc' = "watch"
        /\ UNCHANGED <<faults, watch, result>>
  /\ UNCHANGED <<gvk, op, obj, exists, lastSpec, stream, lastReason, waitErr,
                 changes, wasConverged, convergedObserved>>

\* WatchUntil opens (or reopens after a transport error) the watch; the
\* first state it delivers is the object's current one.
Subscribe ==
  /\ pc = "watch"
  /\ watch \in {"none", "broken"}
  /\ watch' = "open"
  /\ stream' = <<obj>>
  /\ UNCHANGED <<gvk, op, obj, exists, lastSpec, pc, lastReason, waitErr,
                 result, changes, faults, wasConverged, convergedObserved>>

\* WatchUntil evaluates the awaiter's predicate on the next delivered state
\* and returns nil on the first one that satisfies it.
Deliver ==
  /\ pc = "watch"
  /\ watch = "open"
  /\ stream # <<>>
  /\ LET o == Head(stream) IN
     /\ convergedObserved' = (convergedObserved \/ ConvergedState(o, exists))
     /\ stream' = Tail(stream)
     /\ IF WatchPredicate(Fn, Inputs(Kind, obj), Serialize(Kind, o))
          THEN Return({}) /\ UNCHANGED waitErr
          ELSE UNCHANGED <<pc, watch, result, waitErr>>
  /\ UNCHANGED <<gvk, op, obj, exists, lastSpec, lastReason, changes, faults,
                 wasConverged>>

\* What a get of the object returns when it succeeds: the object, or a
\* 404 once it is gone.
CurrentGet ==
  IF exists THEN [err |-> "none", obj |-> Serialize(Kind, obj)]
            ELSE [err |-> "404", obj |-> NilObject]

\* A get that fails with any other error returns no object (a nil
\* *Unstructured).
FailedGet == [err |-> "error", obj |-> NilObject]

GetResults ==
  {CurrentGet} \cup (IF faults < MaxFaults THEN {FailedGet} ELSE {})

\* RetryUntil gets the object and runs the deletion check on the result r:
\* done returns nil, a retryable error keeps polling, any other error is
\* returned, and a nil dereference in the check crashes the provider.
PollResult(r) ==
  /\ pc = "retry"
  /\ faults' = IF r.err = "error" THEN faults + 1 ELSE faults
  /\ convergedObserved' = (convergedObserved \/ (r.err # "error" /\ ConvergedState(obj, exists)))
  /\ LET check == DeletionCheck(Fn, r) IN
     \/ check = "done" /\ Return({}) /\ UNCHANGED lastReason
     \/ /\ check = "retry"
        /\ lastReason' = "stillExists"
        /\ UNCHANGED <<pc, watch, result>>
     \/ check = "fatal" /\ Return({"fatal"}) /\ UNCHANGED lastReason
     \/ check = "panic" /\ pc' = "crashed" /\ UNCHANGED <<watch, result, lastReason>>
  /\ UNCHANGED <<gvk, op, obj, exists, lastSpec, stream, waitErr, changes,
                 wasConverged>>

Poll == \E r \in GetResults : PollResult(r)

\* The deadline elapses: WatchUntil or RetryUntil returns a timeout error,
\* which RetryUntil wraps around the last "still exists" reason.
Expire ==
  /\ pc \in {"watch", "retry"}
  /\ EndWait({"timeout"} \cup (IF lastReason = "none" THEN {} ELSE {lastReason}))
  /\ UNCHANGED <<gvk, op, obj, exists, lastSpec, stream, lastReason, changes,
                 faults, wasConverged, convergedObserved>>

\* The caller cancels the context: the wait returns a cancellation error.
Cancel ==
  /\ pc \in {"watch", "retry"}
  /\ EndWait({"cancelled"})
  /\ UNCHANGED <<gvk, op, obj, exists, lastSpec, stream, lastReason, changes,
                 faults, wasConverged, convergedObserved>>

\* After a failed wait the Service and Ingress awaiters fetch the object's
\* last three warnings: a fetch error is returned in place of the wait's
\* error, otherwise the warnings are appended to the wait's error.
FetchWarnings ==
  /\ pc = "warnings"
  /\ \/ /\ Return(waitErr \cup {"events"})
        /\ UNCHANGED faults
     \/ /\ faults < MaxFaults
        /\ faults' = faults + 1
        /\ Return({"warningsFetch"})
  /\ UNCHANGED <<gvk, op, obj, exists, lastSpec, stream, lastReason, waitErr,
                 changes, wasConverged, convergedObserved>>

-----------------------------------------------------------------------------
(* The environment.                                                        *)

\* A controller changes the object's status; an open watch queues it.
StatusChange ==
  /\ pc \notin {"done", "crashed"}
  /\ exists
  /\ changes < MaxChanges
  /\ \E s \in StatusValues(Kind, obj.spec) \ {obj.status} :
       /\ obj' = [obj EXCEPT !.status = s]
       /\ stream' = IF watch = "open" THEN Append(stream, obj') ELSE stream
       /\ wasConverged' = (wasConverged \/ ConvergedState(obj', TRUE))
  /\ changes' = changes + 1
  /\ UNCHANGED <<gvk, op, exists, lastSpec, pc, watch, lastReason, waitErr,
                 result, faults, convergedObserved>>

\* Garbage collection removes an object being deleted.
ObjectRemoved ==
  /\ pc \notin {"done", "crashed"}
  /\ op = "delete"
  /\ exists
  /\ exists' = FALSE
  /\ wasConverged' = TRUE
  /\ UNCHANGED <<gvk, op, obj, lastSpec, pc, watch, stream, lastReason,
                 waitErr, result, changes, faults, convergedObserved>>

\* The watch connection breaks; what it had not delivered is lost.
WatchBreaks ==
  /\ pc = "watch"
  /\ watch = "open"
  /\ faults < MaxFaults
  /\ watch' = "broken"
  /\ stream' = <<>>
  /\ faults' = faults + 1
  /\ UNCHANGED <<gvk, op, obj, exists, lastSpec, pc, lastReason, waitErr,
                 result, changes, wasConverged, convergedObserved>>

Awaiter == StartAwait \/ EventClient \/ Subscribe \/ Deliver \/ Poll
           \/ Expire \/ FetchWarnings

Environment == StatusChange \/ ObjectRemoved \/ WatchBreaks \/ Cancel

Next == Awaiter \/ Environment

\* The awaiter's own steps are weakly fair: it is one goroutine, it keeps
\* polling, and the deadline is a wall-clock timer that fires.  Nothing
\* forces a get to fail: fairness is on the get that succeeds.  The
\* cluster, the network and the caller's cancellation owe it nothing.
Fairness ==
  /\ WF_vars(StartAwait) /\ WF_vars(EventClient) /\ WF_vars(Subscribe)
  /\ WF_vars(Deliver) /\ WF_vars(PollResult(CurrentGet)) /\ WF_vars(Expire)
  /\ WF_vars(FetchWarnings)

Spec == Init /\ [][Next]_vars /\ Fairness

-----------------------------------------------------------------------------
(* Properties.                                                             *)

PCs == {"start", "events", "watch", "retry", "warnings", "done", "crashed"}
ErrorParts == {"timeout", "cancelled", "stillExists", "fatal", "eventClient",
               "events", "warningsFetch"}

TypeOK ==
  /\ gvk \in GVKs
  /\ op \in Ops
  /\ obj \in Objects(Kind)
  /\ exists \in BOOLEAN
  /\ lastSpec \in SpecValues(Kind)
  /\ pc \in PCs
  /\ watch \in {"none", "open", "broken", "closed"}
  /\ stream \in Seq(Objects(Kind))
  /\ lastReason \in {"none", "stillExists"}
  /\ waitErr \in SUBSET ErrorParts
  /\ result \in SUBSET ErrorParts
  /\ changes \in 0..MaxChanges
  /\ faults \in 0..MaxFaults
  /\ wasConverged \in BOOLEAN
  /\ convergedObserved \in BOOLEAN

\* An await that returns nil did so because the object really reached the
\* state the spec says the kind's wait is for (section 4.4) at some point
\* of the call: no predicate, deletion check or early return of the
\* awaiters reports success for an object that never converged.
SuccessImpliesConverged ==
  pc = "done" /\ result = {} => wasConverged

\* An await never fails after the watch or a get has shown it a state the
\* spec calls converged: every such state satisfies the awaiter's
\* predicate or check, so the wait ends there with success (spec section 8,
\* "never a silent success" read the other way: never a spurious timeout).
NoFailureAfterConvergedObservation ==
  pc = "done" /\ result # {} => ~convergedObserved

\* The provider never crashes while awaiting: every error of a get during
\* deletion is returned to the caller (spec section 7, FatalObserved).
NoCrash == pc # "crashed"

\* A failed wait's error is never masked: the error an awaiter returns
\* contains the error WatchUntil returned (spec section 7,
\* DiagnosticFetchFailure is reported alongside the wait failure).
WaitErrorReported == pc = "done" => waitErr \subseteq result

\* A Service whose inputs do not ask for a LoadBalancer needs no wait (spec
\* section 4.4 waits only for load-balancer Services), so its creation
\* awaiter never fails: the event client built first (lines 509-512) must
\* not fail a call that watches nothing.
NoWaitServiceNeverFails ==
  (Kind = "Service" /\ obj.spec # "LoadBalancer" /\ pc = "done") => result = {}

-----------------------------------------------------------------------------
(* The await call implements its contract (AwaitContract).                 *)

\* The contract's view of the call: pending until the awaiter returns or
\* the provider crashes; nil is success, any error a failure.
Outcome ==
  IF pc = "done" THEN IF result = {} THEN "succeeded" ELSE "failed"
  ELSE IF pc = "crashed" THEN "crashed"
  ELSE "pending"

AC == INSTANCE AwaitContract WITH outcome <- Outcome, converged <- wasConverged

-----------------------------------------------------------------------------
(* The inductive strengthening of SuccessImpliesConverged.                 *)

\* The awaiters that wait with WatchUntil.
WatchAwaiters ==
  {"untilAppsDeploymentInitialized", "untilAppsDeploymentUpdated",
   "untilCoreV1ReplicationControllerInitialized",
   "untilCoreV1ReplicationControllerUpdated",
   "untilCoreV1PersistentVolumeInitialized",
   "untilCoreV1PersistentVolumeClaimBound", "untilCoreV1PodInitialized",
   "untilCoreV1ResourceQuotaInitialized", "untilCoreV1ResourceQuotaUpdated",
   "untilCoreV1ServiceInitialized", "untilCoreV1ServiceAccountInitialized",
   "untilExtensionsV1Beta1IngressInitialized"}

\* Only an awaiter that watches reaches the watch, event and warning steps,
\* and only a deletion awaiter polls.
InvPhase ==
  /\ pc \in {"events", "watch", "warnings"} => Fn \in WatchAwaiters
  /\ pc = "retry" => Fn \in DeletionAwaiters

\* The current state, once converged, is remembered.
InvCurrent == ConvergedState(obj, exists) => wasConverged

\* Every state the watch still has to deliver is a state the object had:
\* same spec, and remembered if it was converged.
InvStream ==
  \A i \in 1..Len(stream) :
    /\ stream[i].spec = obj.spec
    /\ ConvergedState(stream[i], exists) => wasConverged

\* The inductive invariant: the state is well typed, the phase agrees with
\* the awaiter, every converged state the object is in or the watch still
\* holds is remembered, and so success of WatchUntil, RetryUntil or an
\* early return implies the object converged.
IInv ==
  /\ TypeOK
  /\ InvPhase
  /\ InvCurrent
  /\ InvStream
  /\ SuccessImpliesConverged

-----------------------------------------------------------------------------
(* The calls on which the code's waits agree with the spec's convergence.  *)

\* The constants that leave out the two disagreements of the creation
\* waits: no ResourceQuota kind (rqInitialized never holds) and no
\* replicator asked for zero replicas (status.availableReplicas is then
\* omitted).
AgreeingConstants ==
  /\ \A g \in GVKs : KindOf(g) # "ResourceQuota"
  /\ 0 \notin ReplicaCounts

\* No deletion of a replicator: its wait ignores a scale-down to zero.
AgreeingCall == ~(op = "delete" /\ Kind \in Replicators)

AgreeingInit == Init /\ AgreeingCall

AgreeingSpec == AgreeingInit /\ [][Next]_vars /\ Fairness

\* Only a Service whose inputs ask for a load balancer is watched.
InvServiceWatch ==
  Fn = "untilCoreV1ServiceInitialized" /\ pc = "watch" => obj.spec = "LoadBalancer"

\* The inductive strengthening of NoFailureAfterConvergedObservation on the
\* agreeing calls: an await that has been shown a converged state has
\* already returned nil, for the predicate or check accepted that state.
ObservedInv ==
  /\ IInv
  /\ InvServiceWatch
  /\ AgreeingCall
  /\ convergedObserved => pc = "done" /\ result = {}
=============================================================================
