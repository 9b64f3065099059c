----------------------------- MODULE BdfIntegrate -----------------------------
(***************************************************************************)
(* bdf_init and bdf_integrate_to of src/ode/fortnum_ode_bdf.f90: the       *)
(* step-size control and the multistep history of the BDF integrator, over *)
(* several calls with one state.                                           *)
(*                                                                         *)
(* Time and step sizes are integers, in units the clock can just resolve;  *)
(* a step of 0 is positive but too small to advance t.  A state vector is  *)
(* abstracted to the time whose solution it approximates, a derivative     *)
(* likewise.  The implicit solve is one outcome (BdfNewton models it).     *)
(***************************************************************************)
EXTENDS Integers

CONSTANTS
  Targets,      \* times the caller integrates to
  InitialStep,  \* options%initial_step
  MinStep,      \* options%min_step
  MaxStep,      \* options%max_step
  MaxSteps,     \* options%max_steps
  Roundoff,     \* 8*spacing of the clock
  Rel,          \* 1/sqrt(epsilon)
  Calls         \* calls of bdf_integrate_to (model bound)

ASSUME BdfAssumption ==
  /\ Targets \subseteq Int
  /\ {InitialStep, MaxStep, MaxSteps, Rel} \subseteq Nat \ {0}
  /\ {MinStep, Roundoff, Calls} \subseteq Nat
  /\ MinStep <= MaxStep

VARIABLES
  running,           \* inside bdf_integrate_to
  call,              \* calls made
  target, adaptive,  \* its arguments
  t, next_step, previous_step, y, previous_y, derivative, derivative_valid,
                     \* bdf_state_t
  accepted, rejected_error, rejected_newton, last_failure,
                     \* bdf_report_t
  status

state == <<t, next_step, previous_step, y, previous_y, derivative, derivative_valid>>
report == <<accepted, rejected_error, rejected_newton, last_failure>>
args == <<call, target, adaptive>>
vars == <<running, args, state, report, status>>

TypeOK ==
  /\ running \in BOOLEAN
  /\ call \in 0..Calls
  /\ target \in Int /\ adaptive \in BOOLEAN
  /\ t \in Int /\ next_step \in 0..MaxStep /\ previous_step \in Int
  /\ y \in Int /\ previous_y \in Int
  /\ derivative \in Int /\ derivative_valid \in BOOLEAN
  /\ accepted \in Nat /\ rejected_error \in Nat /\ rejected_newton \in Nat
  /\ last_failure \in {"SOLVED", "FAILED"}
  /\ status \in {"OK", "CONVERGENCE_ERROR"}

Abs(x) == IF x < 0 THEN -x ELSE x
Least(a, b) == IF a <= b THEN a ELSE b
Sign(x) == IF x < 0 THEN -1 ELSE 1

Attempts == accepted + rejected_error + rejected_newton

-----------------------------------------------------------------------------
(* The controls. *)

\* bdf_init, with or without the initial derivative.
Init ==
  /\ running = FALSE /\ call = 0 /\ adaptive = TRUE
  /\ t \in Targets /\ target = t
  /\ next_step = Least(InitialStep, MaxStep) /\ previous_step = 0
  /\ y = t /\ previous_y = t
  /\ derivative = t /\ derivative_valid \in BOOLEAN
  /\ accepted = 0 /\ rejected_error = 0 /\ rejected_newton = 0
  /\ last_failure = "SOLVED" /\ status = "OK"

Remaining == Abs(target - t)
Proposed == Least(next_step, MaxStep)

\* Slip: the growth cap is forgotten once the step is clipped to the target.
ClippedSlip ==
  IF previous_step # 0 /\ Proposed < Remaining
  THEN Least(Proposed, 2 * Abs(previous_step))
  ELSE Least(Proposed, Remaining)

\* The proposal, clipped to the target and to twice the previous step.
Clipped ==
  LET near == Least(Proposed, Remaining)
  IN  IF previous_step # 0 THEN Least(near, 2 * Abs(previous_step)) ELSE near

\* |h|: a gap that is only clock roundoff is included.
Size ==
  IF Remaining - Clipped <= Roundoff /\ (Remaining - Clipped) * Rel <= Clipped
  THEN Remaining ELSE Clipped

h == Sign(target - t) * Size

\* t + h == t, or below the minimum, on a clipped final step too.
TooSmall == Size = 0 \/ Size < MinStep

\* Multiples of a step that the elementary controller can propose: between a
\* fifth and twice, and no more than 0.6 of a step with an error above one.
Controlled(size, passed) ==
  LET lowest == IF passed THEN (6 * size) \div 10 ELSE size \div 5
      highest == IF passed THEN 2 * size ELSE (6 * size) \div 10
  IN  {Least(MaxStep, s) : s \in lowest..highest}

-----------------------------------------------------------------------------
(* One call. *)

\* The previous step survives a continuation, not a change of direction.
Direction(g) == IF Sign(g - t) * previous_step < 0 THEN 0 ELSE previous_step

Call(g, adapt) ==
  /\ ~running /\ call < Calls
  /\ call' = call + 1 /\ target' = g /\ adaptive' = adapt
  /\ accepted' = 0 /\ rejected_error' = 0 /\ rejected_newton' = 0
  /\ last_failure' = "SOLVED"
  /\ status' = "OK"
  /\ running' = (g # t)
  /\ previous_step' = IF g = t THEN previous_step ELSE Direction(g)
  /\ UNCHANGED <<t, next_step, y, previous_y, derivative, derivative_valid>>

Failed ==
  /\ running' = FALSE /\ status' = "CONVERGENCE_ERROR"
  /\ UNCHANGED <<args, state, report>>

Budget == Attempts >= MaxSteps

Exhausted == running /\ Budget /\ Failed

Underflow == running /\ ~Budget /\ TooSmall /\ Failed

Attempting == running /\ ~Budget /\ ~TooSmall

\* initial_derivative: the linear solve with the mass matrix, before the first
\* step of a state that was given no derivative.
InitialDerivative ==
  /\ Attempting /\ ~derivative_valid
  /\ derivative' = t /\ derivative_valid' = TRUE
  /\ UNCHANGED <<running, args, t, next_step, previous_step, y, previous_y, report, status>>

Retry == next_step' = Size \div 4

\* The mass solve or the implicit solve fails.
SolveFails ==
  /\ Attempting
  /\ last_failure' = "FAILED"
  /\ rejected_newton' = rejected_newton + 1
  /\ Retry
  /\ UNCHANGED <<running, args, t, previous_step, y, previous_y, derivative,
                 derivative_valid, accepted, rejected_error, status>>

\* The implicit solve converges.
Solve == Attempting /\ derivative_valid /\ last_failure' = "SOLVED"

\* A rejected step changes the proposal only.
Keep == UNCHANGED <<t, previous_step, y, previous_y, derivative, derivative_valid>>

RejectError ==
  /\ Solve /\ adaptive
  /\ next_step' \in Controlled(Size, FALSE)
  /\ rejected_error' = rejected_error + 1
  /\ Keep
  /\ UNCHANGED <<running, args, accepted, rejected_newton, status>>

\* Slip: previous_y is taken after y.
ShiftSlip ==
  /\ y' = t + h /\ previous_y' = y'
  /\ derivative' = t + h

Shift ==
  /\ previous_y' = y /\ y' = t + h
  /\ derivative' = t + h

\* Slip: the loop ends beyond the target only.
ReachedSlip == Sign(target - t) * (target - t') < 0

Reached == Sign(target - t) * (target - t') <= 0

Proposals == IF adaptive THEN Controlled(Size, TRUE) ELSE {Proposed}

Accept ==
  /\ Solve
  /\ next_step' \in Proposals
  /\ Shift
  /\ previous_step' = h
  /\ t' = t + h
  /\ accepted' = accepted + 1
  /\ running' = ~Reached
  /\ UNCHANGED <<args, derivative_valid, rejected_error, rejected_newton, status>>

Step == Exhausted \/ Underflow \/ InitialDerivative \/ SolveFails \/ RejectError \/ Accept

Next == (\E g \in Targets, adapt \in BOOLEAN : Call(g, adapt)) \/ Step

Spec == Init /\ [][Next]_vars /\ WF_vars(Step)

-----------------------------------------------------------------------------
(* Properties. *)

\* The history describes the accepted solution: y approximates the solution at
\* t, previous_y the one a previous step earlier unless there is no such step,
\* and a valid derivative is the slope at t, after any number of rejections,
\* calls and changes of direction.
HistoryConsistent ==
  /\ y = t
  /\ previous_step # 0 => previous_y = t - previous_step
  /\ derivative_valid => derivative = t

\* The step about to be tried stays inside the zero-stability bound: at most
\* twice the previous one plus the rounding allowance, also on the step that is
\* clipped to the target and after a retry.
GrowthBounded ==
  running /\ previous_step # 0 => Rel * Size <= 2 * (Rel + 1) * Abs(previous_step)

\* max_steps bounds the attempts of a call, whatever their outcome.
AttemptsBounded == Attempts <= MaxSteps

=============================================================================
