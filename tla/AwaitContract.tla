--------------------------- MODULE AwaitContract ---------------------------
(***************************************************************************)
(* What an await call promises its caller, the provider (spec sections 4  *)
(* and 8), independently of how any awaiter waits.  A call is pending      *)
(* until it returns nil or an error, or the provider crashes; the object   *)
(* it awaits may converge meanwhile, and once converged it has converged.  *)
(* Success is returned only after convergence; a failure may come at any  *)
(* moment (deadline, cancellation, API error); nothing happens after the  *)
(* call has ended; and every call ends.                                    *)
(***************************************************************************)

VARIABLES
  outcome,    \* "pending", "succeeded", "failed" or "crashed"
  converged   \* the object has reached the state its wait is for

acVars == <<outcome, converged>>

Outcomes == {"pending", "succeeded", "failed", "crashed"}

Init ==
  /\ outcome = "pending"
  /\ converged \in BOOLEAN

\* The cluster brings the object to the awaited state.
Converge ==
  /\ outcome = "pending"
  /\ ~converged
  /\ converged' = TRUE
  /\ UNCHANGED outcome

\* The call returns nil: only for an object that has converged.
Succeed ==
  /\ outcome = "pending"
  /\ converged
  /\ outcome' = "succeeded"
  /\ UNCHANGED converged

\* The call returns an error.
Fail ==
  /\ outcome = "pending"
  /\ outcome' = "failed"
  /\ UNCHANGED converged

\* The provider process dies inside the call.
Crash ==
  /\ outcome = "pending"
  /\ outcome' = "crashed"
  /\ UNCHANGED converged

Next == Converge \/ Succeed \/ Fail \/ Crash

\* What may happen: the safety part of the contract.
SafetySpec == Init /\ [][Next]_acVars

\* The call ends: some way out of the pending state is always taken.
Spec == SafetySpec /\ WF_acVars(Succeed \/ Fail \/ Crash)
=============================================================================
