-------------------------------- MODULE Rk8pd --------------------------------
(***************************************************************************)
(* The re-entrant RK8(7) integrator of src/ode/fortnum_ode_rk8pd.f90 and   *)
(* its handle in src/bindings/fortnum_capi_rk8pd.f90: the step size and a  *)
(* cached first-stage derivative live in the handle, time and state in the *)
(* caller, who may change both between calls.                              *)
(*                                                                         *)
(* Time and steps are integers as in BdfIntegrate; a step of 0 is positive *)
(* but too small to move t.  y is the time whose solution it approximates, *)
(* and curve tells which of the caller's solutions.                        *)
(***************************************************************************)
EXTENDS Integers, FiniteSetsExt

CONSTANTS
  Targets,      \* times the caller integrates to or starts from
  InitialStep,  \* h0
  MaxSteps,     \* max_steps
  Calls         \* calls of rk8pd_evolve_apply (model bound)

VARIABLES
  pc,                \* "idle", at the head of the loop, or in a trial
  call, target,
  single,            \* single_step: fortnum_rk8pd_step_to
  t, y, curve,       \* the caller's
  next_step,         \* state%h
  f, f_time, have_f, \* dydt0 (as the curve it belongs to), t_dydt, have_dydt
  accepted,          \* nstep
  status

args == <<call, target, single>>
cache == <<f, f_time, have_f>>
vars == <<pc, args, t, y, curve, next_step, cache, accepted, status>>

Abs(x) == IF x < 0 THEN -x ELSE x
Least(a, b) == IF a <= b THEN a ELSE b
Sign(x) == IF x < 0 THEN -1 ELSE 1

\* Any longer step is cut to the end of the interval all the same.
Longest == Max({Abs(a - b) : a, b \in Targets}) + 1

TypeOK ==
  /\ pc \in {"idle", "head", "trial"}
  /\ call \in 0..Calls /\ target \in Int /\ single \in BOOLEAN
  /\ t \in Int /\ y = t /\ curve \in {0, 1} /\ next_step \in 0..Longest
  /\ f \in {0, 1} /\ f_time \in Int /\ have_f \in BOOLEAN
  /\ accepted \in 0..MaxSteps /\ status \in {"OK", "CONVERGENCE_ERROR"}

\* rk8pd_evolve_init, through fortnum_rk8pd_create.
Init ==
  /\ pc = "idle" /\ call = 0 /\ single = FALSE
  /\ t \in Targets /\ target = t /\ y = t /\ curve = 0
  /\ next_step = Least(InitialStep, Longest)
  /\ f = 0 /\ f_time = 0 /\ have_f = FALSE
  /\ accepted = 0 /\ status = "OK"

\* Between calls the caller continues from another point with the same handle.
Restart(from, other) ==
  /\ pc = "idle" /\ call < Calls
  /\ t' = from /\ target' = from /\ y' = from /\ curve' = other
  /\ status' = "OK"
  /\ UNCHANGED <<pc, call, single, next_step, cache, accepted>>

Call(g, one) ==
  /\ pc = "idle" /\ call < Calls
  /\ call' = call + 1 /\ target' = g /\ single' = one
  /\ accepted' = 0 /\ status' = "OK"
  /\ pc' = IF g = t THEN "idle" ELSE "head"
  /\ UNCHANGED <<t, y, curve, next_step, cache>>

Exhausted ==
  /\ pc = "head" /\ accepted >= MaxSteps
  /\ pc' = "idle" /\ status' = "CONVERGENCE_ERROR"
  /\ UNCHANGED <<args, t, y, curve, next_step, cache, accepted>>

\* The first-stage derivative, unless the cached one belongs to this time.
Begin ==
  /\ pc = "head" /\ accepted < MaxSteps
  /\ pc' = "trial"
  /\ IF have_f /\ f_time = t THEN UNCHANGED cache
                             ELSE f' = curve /\ f_time' = t /\ have_f' = TRUE
  /\ UNCHANGED <<args, t, y, curve, next_step, accepted, status>>

Span == target - t
Size == Least(next_step, Abs(Span))
h == Sign(Span) * Size

\* control_adjust: a fifth to nine tenths after too large an error, up to five
\* times after a small one (or one that is not a number), else no change.
Shrunk(size) == (size \div 5)..((9 * size) \div 10)
Grown(size) == {Least(Longest, s) : s \in size..(IF size = 0 THEN 1 ELSE 5 * size)}

\* A decrease is honoured if it is one and still moves t.
Smaller == {s \in Shrunk(Size) : s < Size /\ s > 0}

Retry ==
  /\ pc = "trial"
  /\ next_step' \in Smaller
  /\ UNCHANGED <<pc, args, t, y, curve, cache, accepted, status>>

\* Slip: the cached derivative survives the step.
DropSlip == UNCHANGED cache
Drop == have_f' = FALSE /\ UNCHANGED <<f, f_time>>

Accept ==
  /\ pc = "trial"
  /\ t' = t + h /\ y' = y + h
  /\ next_step' \in Grown(Size) \cup {Size}
  /\ Drop
  /\ accepted' = accepted + 1
  /\ pc' = IF single \/ t' = target THEN "idle" ELSE "head"
  /\ UNCHANGED <<args, curve, status>>

Step == Exhausted \/ Begin \/ Retry \/ Accept

\* The stages of a trial start from the derivative at the caller's point.
BaseIsCurrent == pc = "trial" => f = curve /\ f_time = t
=============================================================================
