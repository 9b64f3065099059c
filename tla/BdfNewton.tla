------------------------------- MODULE BdfNewton -------------------------------
(***************************************************************************)
(* newton_step of src/ode/fortnum_ode_bdf.f90: the inexact Newton solve of *)
(* one implicit time step, with residual backtracking and callbacks that   *)
(* may fail.                                                               *)
(*                                                                         *)
(* Residual norms are levels, 0 being zero and Top the largest.  Vectors   *)
(* are abstracted to the point they belong to: 0 is the predictor, and     *)
(* every trial is a new point.  Forcing terms are left out: how accurate   *)
(* the linear solve is decides how small the next residual can be, and any *)
(* residual is possible here.                                              *)
(***************************************************************************)
EXTENDS Integers

CONSTANTS
  Top,           \* the largest residual level
  MaxNewton,     \* options%max_newton
  MaxBacktracks  \* options%max_backtracks

VARIABLES
  pc,          \* "enter", "iterate", "solve", "trial", "done"
  x,           \* the iterate
  r,           \* the point whose residual work%r holds
  derivative,  \* the point whose time derivative work%derivative holds
  lin,         \* the point the problem is linearized at
  points,      \* points evaluated so far
  rnorm,       \* |work%r|
  iteration, backtrack,
  small,       \* the correction passes the Newton tolerance
  callback_ok, \* report%callback_status = 0
  linear_ok,   \* report%linear_status = KRYLOV_OK
  failure

vars == <<pc, x, r, derivative, lin, points, rnorm, iteration, backtrack, small,
          callback_ok, linear_ok, failure>>

Codes == {"SOLVED", "NEWTON_LIMIT", "LINEAR_FAILURE", "EVALUATION", "LINE_SEARCH",
          "LINEARIZE"}

TypeOK ==
  /\ pc \in {"enter", "iterate", "solve", "trial", "done"}
  /\ points \in Nat
  /\ {x, r, derivative} \subseteq 0..points
  /\ lin \in -1..points
  /\ rnorm \in 0..Top
  /\ iteration \in 1..MaxNewton + 1 /\ backtrack \in 0..MaxBacktracks + 1
  /\ {small, callback_ok, linear_ok} \subseteq BOOLEAN
  /\ failure \in Codes

\* x is the predictor; nothing is linearized yet.
Init ==
  /\ pc = "enter" /\ x = 0 /\ r = 0 /\ derivative = 0 /\ lin = -1 /\ points = 0
  /\ rnorm = Top /\ iteration = 1 /\ backtrack = 0 /\ small = FALSE
  /\ callback_ok = TRUE /\ linear_ok \in BOOLEAN
  /\ failure = "EVALUATION"

Return(code) == pc' = "done" /\ failure' = code

-----------------------------------------------------------------------------

\* The residual at the predictor: the callback fails, or its output or norm is
\* not finite, or the iteration starts.
Enter ==
  /\ pc = "enter"
  /\ \/ callback_ok' \in BOOLEAN /\ Return("EVALUATION") /\ UNCHANGED rnorm
     \/ callback_ok' = TRUE /\ rnorm' \in 0..Top /\ pc' = "iterate" /\ UNCHANGED failure
  /\ UNCHANGED <<x, r, derivative, lin, points, iteration, backtrack, small, linear_ok>>

Iterating == iteration <= MaxNewton

\* The head of the loop.
Converged ==
  /\ pc = "iterate" /\ Iterating /\ rnorm = 0
  /\ Return("SOLVED")
  /\ UNCHANGED <<x, r, derivative, lin, points, rnorm, iteration, backtrack, small,
                 callback_ok, linear_ok>>

IterationLimit ==
  /\ pc = "iterate" /\ ~Iterating
  /\ Return("NEWTON_LIMIT")
  /\ UNCHANGED <<x, r, derivative, lin, points, rnorm, iteration, backtrack, small,
                 callback_ok, linear_ok>>

Linearized == x

Linearize ==
  /\ pc = "iterate" /\ Iterating /\ rnorm > 0
  /\ \/ callback_ok' = FALSE /\ Return("LINEARIZE") /\ UNCHANGED lin
     \/ callback_ok' = TRUE /\ lin' = Linearized /\ pc' = "solve" /\ UNCHANGED failure
  /\ UNCHANGED <<x, r, derivative, points, rnorm, iteration, backtrack, small, linear_ok>>

\* FGMRES with the preconditioner: both may fail, or the correction is not
\* finite; callback_status becomes that of the preconditioner.
LinearSolve ==
  /\ pc = "solve"
  /\ \/ Return("LINEAR_FAILURE")
        /\ linear_ok' \in BOOLEAN /\ callback_ok' \in BOOLEAN
        /\ UNCHANGED <<small, backtrack>>
     \/ /\ linear_ok' = TRUE /\ callback_ok' = TRUE
        /\ small' \in BOOLEAN
        /\ backtrack' = 0
        /\ pc' = "trial" /\ UNCHANGED failure
  /\ UNCHANGED <<x, r, derivative, lin, points, rnorm, iteration>>

\* Enough decrease, which a converged correction does not need.
Sufficient(next) == next < rnorm \/ small

\* A full converged correction, or a residual of zero.
Ends(next) == (small /\ backtrack = 0) \/ next = 0

\* The derivative is formed for the trial before its residual is evaluated.
Slope == points + 1

\* A trial that fails, is not finite, or does not decrease the residual enough.
TrialFails ==
  /\ pc = "trial" /\ backtrack <= MaxBacktracks
  /\ callback_ok' \in BOOLEAN
  /\ points' = points + 1 /\ derivative' = Slope
  /\ backtrack' = backtrack + 1
  /\ UNCHANGED <<pc, x, r, lin, rnorm, iteration, small, linear_ok, failure>>

TrialSucceeds(next) ==
  /\ pc = "trial" /\ backtrack <= MaxBacktracks
  /\ Sufficient(next)
  /\ callback_ok' = TRUE
  /\ points' = points + 1 /\ derivative' = Slope
  /\ x' = points' /\ r' = points' /\ rnorm' = next
  /\ iteration' = iteration + 1
  /\ IF Ends(next) THEN Return("SOLVED") ELSE pc' = "iterate" /\ UNCHANGED failure
  /\ UNCHANGED <<lin, backtrack, small, linear_ok>>

LineSearchFails ==
  /\ pc = "trial" /\ backtrack > MaxBacktracks
  /\ Return("LINE_SEARCH")
  /\ UNCHANGED <<x, r, derivative, lin, points, rnorm, iteration, backtrack, small,
                 callback_ok, linear_ok>>

Next ==
  \/ Enter \/ Converged \/ IterationLimit \/ Linearize \/ LinearSolve
  \/ TrialFails \/ LineSearchFails
  \/ \E next \in 0..Top : TrialSucceeds(next)

Spec == Init /\ [][Next]_vars /\ WF_vars(Next)

-----------------------------------------------------------------------------
(* Properties. *)

\* The derivative handed to the multistep history is that of the solution
\* returned, although every trial overwrites it.
DerivativeOfSolution == failure = "SOLVED" => derivative = x

\* Newton's equation is consistent: the Jacobian, the residual and the
\* derivative passed to linearize all belong to the iterate.
EquationConsistent == pc = "solve" => lin = x /\ r = x /\ derivative = x

\* A solve that reports success ends with callbacks that succeeded, at a zero
\* residual or after a full step with a converged correction.
SolvedIsHonest ==
  failure = "SOLVED" =>
    /\ pc = "done" /\ callback_ok
    /\ rnorm = 0 \/ (small /\ backtrack = 0 /\ linear_ok)

\* The work of a solve.
EvaluationsBounded == points <= MaxNewton * (MaxBacktracks + 1)

=============================================================================
