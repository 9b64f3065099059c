---------------------------- MODULE ExprbIntegrate ----------------------------
(***************************************************************************)
(* exprb_init and exprb_integrate_to of src/ode/fortnum_ode_exprb.f90: the *)
(* exponential Rosenbrock integrator over several calls with one state and *)
(* one problem object, whose callbacks may fail.                           *)
(*                                                                         *)
(* Time and steps are integers as in BdfIntegrate, and a state vector is   *)
(* the time whose solution it approximates.  f is the point of the base    *)
(* evaluation, lin the point the problem object has linearized at.         *)
(***************************************************************************)
EXTENDS Integers

CONSTANTS
  Targets,      \* times the caller integrates to
  InitialStep,  \* options%initial_step
  MinStep,      \* options%min_step
  MaxStep,      \* options%max_step
  MaxSteps,     \* options%max_steps
  Calls         \* calls of exprb_integrate_to (model bound)

VARIABLES
  pc,                \* "idle", at the head of an attempt, or in take_step
  call, target, adaptive,
  t, next_step, y,                         \* exprb_state_t
  f, have_f, lin, have_linearization,      \* the base of the steps
  accepted, rejected_error, rejected_failure, last_failure,   \* exprb_report_t
  bases, linearizations,
                     \* base evaluations and linearizations that succeeded
  status

state == <<t, next_step, y>>
base == <<f, have_f, lin, have_linearization, bases, linearizations>>
report == <<accepted, rejected_error, rejected_failure, last_failure>>
args == <<call, target, adaptive>>
vars == <<pc, args, state, base, report, status>>

TypeOK ==
  /\ pc \in {"idle", "head", "step"}
  /\ call \in 0..Calls /\ target \in Int /\ adaptive \in BOOLEAN
  /\ t \in Int /\ next_step \in 0..MaxStep /\ y \in Int
  /\ f \in Int /\ lin \in Int /\ have_f \in BOOLEAN /\ have_linearization \in BOOLEAN
  /\ accepted \in Nat /\ rejected_error \in Nat /\ rejected_failure \in Nat
  /\ last_failure \in {"SOLVED", "EVALUATION", "LINEARIZE", "PHI_FAILURE"}
  /\ bases \in Nat /\ linearizations \in Nat
  /\ status \in {"OK", "CONVERGENCE_ERROR"}

Abs(x) == IF x < 0 THEN -x ELSE x
Least(a, b) == IF a <= b THEN a ELSE b
Sign(x) == IF x < 0 THEN -1 ELSE 1

\* exprb_init
Init ==
  /\ pc = "idle" /\ call = 0 /\ adaptive = TRUE
  /\ t \in Targets /\ target = t /\ y = t
  /\ next_step = Least(InitialStep, MaxStep)
  /\ f = t /\ lin = t /\ have_f = FALSE /\ have_linearization = FALSE
  /\ accepted = 0 /\ rejected_error = 0 /\ rejected_failure = 0
  /\ last_failure = "SOLVED" /\ bases = 0 /\ linearizations = 0
  /\ status = "OK"

-----------------------------------------------------------------------------
(* The controls. *)

Attempts == accepted + rejected_error + rejected_failure
Proposed == Least(next_step, MaxStep)
Size == Least(Proposed, Abs(target - t))
h == Sign(target - t) * Size
TooSmall == Size = 0 \/ Size < MinStep

\* Steps the cube-root controller can propose: between a fifth and twice the
\* one tried, at least 0.8 of it if the error is at most one, else at most that.
Controlled(size, passed) ==
  LET lowest == IF passed THEN (8 * size) \div 10 ELSE size \div 5
      highest == IF passed THEN 2 * size ELSE (8 * size) \div 10
  IN  {Least(MaxStep, s) : s \in lowest..highest}

-----------------------------------------------------------------------------
(* One call. *)

Forget == have_f' = FALSE /\ have_linearization' = FALSE /\ UNCHANGED f

\* The problem object may have been linearized elsewhere since the last call.
Call(g, adapt, elsewhere) ==
  /\ pc = "idle" /\ call < Calls
  /\ call' = call + 1 /\ target' = g /\ adaptive' = adapt
  /\ lin' = elsewhere
  /\ accepted' = 0 /\ rejected_error' = 0 /\ rejected_failure' = 0
  /\ last_failure' = "SOLVED"
  /\ status' = "OK"
  /\ pc' = IF g = t THEN "idle" ELSE "head"
  /\ Forget
  /\ bases' = 0 /\ linearizations' = 0
  /\ UNCHANGED state

\* Slip: the failure is noted, but the loop goes on.
FailedLoops ==
  /\ status' = "CONVERGENCE_ERROR"
  /\ UNCHANGED <<pc, args, state, base, report>>

Failed ==
  /\ pc' = "idle" /\ status' = "CONVERGENCE_ERROR"
  /\ UNCHANGED <<args, state, base, report>>

Budget == Attempts >= MaxSteps

Exhausted == pc = "head" /\ Budget /\ Failed

Underflow == pc = "head" /\ ~Budget /\ TooSmall /\ Failed

Begin ==
  /\ pc = "head" /\ ~Budget /\ ~TooSmall
  /\ pc' = "step"
  /\ UNCHANGED <<args, state, base, report, status>>

\* A failed part of take_step rejects the attempt; the step is cut by four.
Reject(failure) ==
  /\ pc' = "head"
  /\ last_failure' = failure
  /\ rejected_failure' = rejected_failure + 1
  /\ next_step' = Size \div 4
  /\ UNCHANGED <<args, t, y, accepted, rejected_error, status>>

EvaluateBase ==
  /\ pc = "step" /\ ~have_f
  /\ f' = y /\ have_f' = TRUE /\ bases' = bases + 1
  /\ UNCHANGED <<pc, args, state, lin, have_linearization, linearizations,
                 report, status>>

BaseFails ==
  /\ pc = "step" /\ ~have_f
  /\ Reject("EVALUATION")
  /\ UNCHANGED base

Linearize ==
  /\ pc = "step" /\ have_f /\ ~have_linearization
  /\ lin' = y /\ have_linearization' = TRUE
  /\ linearizations' = linearizations + 1
  /\ UNCHANGED <<pc, args, state, f, have_f, bases, report, status>>

\* What a failed callback retains is unspecified.
LinearizeFails(somewhere) ==
  /\ pc = "step" /\ have_f /\ ~have_linearization
  /\ Reject("LINEARIZE")
  /\ lin' = somewhere
  /\ UNCHANGED <<f, have_f, have_linearization, bases, linearizations>>

Stages == pc = "step" /\ have_f /\ have_linearization

\* Slip: a failed stage gives up the base, as an accepted step does.
KeepBaseSlip ==
  /\ have_f' = FALSE /\ have_linearization' = FALSE
  /\ UNCHANGED <<f, lin, bases, linearizations>>

KeepBase == UNCHANGED base

\* A phi action, the evaluation at the stage, or a vector that is not finite.
StagesFail ==
  /\ Stages
  /\ \E failure \in {"EVALUATION", "PHI_FAILURE"} : Reject(failure)
  /\ KeepBase

RejectError ==
  /\ Stages /\ adaptive
  /\ last_failure' = "SOLVED"
  /\ next_step' \in Controlled(Size, FALSE)
  /\ rejected_error' = rejected_error + 1
  /\ pc' = "head"
  /\ KeepBase
  /\ UNCHANGED <<args, t, y, accepted, rejected_failure, status>>

\* Slip: the linearization of the old endpoint is used for the next step too.
RefreshSlip == have_f' = FALSE /\ UNCHANGED <<f, have_linearization>>

Refresh == Forget

Reached == Sign(target - t) * (target - t') <= 0

Accept ==
  /\ Stages
  /\ last_failure' = "SOLVED"
  /\ next_step' \in IF adaptive THEN Controlled(Size, TRUE) ELSE {Size}
  /\ y' = t + h /\ t' = t + h
  /\ Refresh
  /\ accepted' = accepted + 1
  /\ pc' = IF Reached THEN "idle" ELSE "head"
  /\ UNCHANGED <<args, lin, bases, linearizations, rejected_error,
                 rejected_failure, status>>

Step ==
  \/ Exhausted \/ Underflow \/ Begin
  \/ EvaluateBase \/ BaseFails \/ Linearize \/ StagesFail \/ RejectError \/ Accept
  \/ \E somewhere \in Targets : LinearizeFails(somewhere)

Next ==
  \/ \E g, elsewhere \in Targets, adapt \in BOOLEAN : Call(g, adapt, elsewhere)
  \/ Step

Spec == Init /\ [][Next]_vars /\ WF_vars(Step)

-----------------------------------------------------------------------------
(* Properties. *)

\* Every stage uses the right-hand side and the Jacobian of the accepted
\* endpoint, whatever was reused, retried or changed between calls.
BaseIsCurrent == Stages => f = t /\ lin = t /\ y = t

\* Within a call, a base evaluation or linearization that succeeded is never
\* repeated at the same endpoint.
BaseIsReused ==
  pc # "idle" => bases <= accepted + 1 /\ linearizations <= bases

\* max_steps bounds the attempts of a call, whatever their outcome.
AttemptsBounded == Attempts <= MaxSteps

=============================================================================
