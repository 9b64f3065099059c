---------------------------- MODULE MultirootRC ----------------------------
(***************************************************************************)
(* The reverse-communication Newton solver of                              *)
(* src/roots/fortnum_multiroot_rc.f90.  The caller owns the state, writes  *)
(* F and J at state%x and calls multiroot_step, which runs one logical     *)
(* action and answers with a token.                                        *)
(*                                                                         *)
(* A point is named by how the search reached it: <<>> is x0, and          *)
(* Append(p, k) is p + 2^(-k) * dx for the Newton direction dx at p.       *)
(* lambda is therefore 2^(-ls) and has no variable of its own.             *)
(***************************************************************************)
EXTENDS Residuals, Sequences

CONSTANTS
  MaxIter,      \* state%max_iter
  MaxHalvings   \* halvings before a trial is accepted as it is (30)

ASSUME MaxIterAssumption == MaxIter \in Nat
ASSUME MaxHalvingsAssumption == MaxHalvings \in Nat

VARIABLES
  phase,    \* state%phase
  iter,     \* state%iter, Newton steps taken
  ls,       \* state%ls_count, halvings of the current line search
  fail,     \* state%fail_code
  x,        \* state%x, the point the caller evaluates
  xBase,    \* state%x_base, the accepted point
  base,     \* the residual at the last Newton point, whose merit is state%g0
  action,   \* the token of the last call
  f,        \* the arrays f and jac as the caller last filled them
  ready     \* f and jac hold the values at state%x

vars == <<phase, iter, ls, fail, x, xBase, base, action, f, ready>>

Phases == {"START", "LINESEARCH", "DONE"}
Tokens == {"NEED_FJ", "DONE", "FAILED"}
FailCodes == {"OK", "SINGULAR", "MAXITER"}

TypeOK ==
  /\ phase \in Phases
  /\ iter \in Nat
  /\ ls \in 0..MaxHalvings
  /\ fail \in FailCodes
  /\ x \in Seq(Nat)
  /\ xBase \in Seq(Nat)
  /\ base \in Residual
  /\ action \in Tokens
  /\ f \in Residual
  /\ ready \in BOOLEAN

\* multiroot_rc_init; the caller's arrays hold anything.
Init ==
  /\ phase = "START" /\ iter = 0 /\ ls = 0 /\ fail = "OK"
  /\ x = <<>> /\ xBase = <<>>
  /\ f \in {r \in Residual : r.step = "long"}
  /\ base = f
  /\ action = "NEED_FJ"
  /\ ready = FALSE

-----------------------------------------------------------------------------
(* The caller. *)

\* A full step (lambda = 1) is never below xtol only because it was scaled.
Evaluate(r) ==
  /\ action = "NEED_FJ" /\ ~ready
  /\ ls = 0 => r.step # "scaled"
  /\ f' = r
  /\ ready' = TRUE
  /\ UNCHANGED <<phase, iter, ls, fail, x, xBase, base, action>>

-----------------------------------------------------------------------------
(* multiroot_step. *)

Stop(token, code) ==
  /\ phase' = "DONE" /\ fail' = code /\ action' = token

\* Slip: x moves to the trial point before the solve is known to succeed.
BeginNewtonSlip ==
  /\ x' = Append(x, 0)
  /\ IF f.singular
     THEN Stop("FAILED", "SINGULAR") /\ UNCHANGED <<ls, base>>
     ELSE /\ base' = f /\ ls' = 0
          /\ phase' = "LINESEARCH" /\ action' = "NEED_FJ"
          /\ UNCHANGED fail

\* begin_newton: solve J dx = -F at x and ask for the full step.
BeginNewton ==
  IF f.singular
  THEN /\ Stop("FAILED", "SINGULAR")
       /\ UNCHANGED <<ls, x, base>>
  ELSE /\ base' = f
       /\ ls' = 0
       /\ x' = Append(x, 0)
       /\ phase' = "LINESEARCH" /\ action' = "NEED_FJ"
       /\ UNCHANGED fail

Call(p) == ready /\ ready' = FALSE /\ phase = p /\ UNCHANGED f

\* PHASE_START with |F(x0)| <= ftol.
StartAtRoot ==
  /\ Call("START")
  /\ InfNormSmall(f)
  /\ Stop("DONE", fail)
  /\ UNCHANGED <<iter, ls, x, xBase, base>>

StartNewton ==
  /\ Call("START")
  /\ ~InfNormSmall(f)
  /\ BeginNewton
  /\ UNCHANGED <<iter, xBase>>

\* Armijo, or the fallback after the last halving.
Accepts == Decreases(f, base) \/ ls >= MaxHalvings

\* Slip: a shortened step counts as a small one.
StepSmallSlip == f.step # "long" \/ ls > 0

\* lambda*|dx|_inf <= xtol*(|x_base|_inf + xtol)
StepSmall == f.step # "long"

CapReached == iter + 1 >= MaxIter

\* PHASE_LINESEARCH: take the trial point, then test for the end.
Accept ==
  /\ Call("LINESEARCH")
  /\ Accepts
  /\ xBase' = x
  /\ iter' = iter + 1
  /\ \/ /\ InfNormSmall(f) \/ StepSmall
        /\ Stop("DONE", fail)
        /\ UNCHANGED <<ls, x, base>>
     \/ /\ ~InfNormSmall(f) /\ ~StepSmall
        /\ CapReached
        /\ Stop("FAILED", "MAXITER")
        /\ UNCHANGED <<ls, x, base>>
     \/ /\ ~InfNormSmall(f) /\ ~StepSmall
        /\ ~CapReached
        /\ BeginNewton

\* Slip: the halving is not counted.
RejectUncounted ==
  /\ Call("LINESEARCH") /\ ~Accepts
  /\ action' = "NEED_FJ"
  /\ UNCHANGED <<phase, iter, ls, fail, x, xBase, base>>

\* Halve lambda and ask for the next trial point.
Reject ==
  /\ Call("LINESEARCH")
  /\ ~Accepts
  /\ ls' = ls + 1
  /\ x' = Append(xBase, ls + 1)
  /\ action' = "NEED_FJ"
  /\ UNCHANGED <<phase, iter, fail, xBase, base>>

\* A call after the end answers with the same token.
StepAfterEnd ==
  /\ phase = "DONE"
  /\ action' = IF fail # "OK" THEN "FAILED" ELSE "DONE"
  /\ UNCHANGED <<phase, iter, ls, fail, x, xBase, base, f, ready>>

Step == StartAtRoot \/ StartNewton \/ Accept \/ Reject \/ StepAfterEnd

Next == (\E r \in Residual : Evaluate(r)) \/ Step

\* The caller keeps evaluating and calling for as long as it is asked to.
Spec == Init /\ [][Next]_vars

-----------------------------------------------------------------------------
(* Properties. *)

\* DONE is only answered at a point that satisfies one of the two stopping
\* tests the header of multiroot_step names.
DoneIsConverged == action = "DONE" => IsRoot(f) \/ f.step # "long"

\* The token, the fail code and the phase tell the caller one story, and the
\* point left in state%x is the accepted one, never a trial that was rejected:
\* the caller reads the root, or its last good iterate, from state%x.
TerminalStateIsAccepted ==
  /\ phase = "DONE" <=> action # "NEED_FJ"
  /\ action = "FAILED" <=> fail # "OK"
  /\ phase = "DONE" => x = xBase

\* While a trial is out, the caller is asked for x_base + 2^(-ls) dx: the
\* accepted point, and nothing else, is what every trial starts from.
TrialFromBase == phase = "LINESEARCH" => x = Append(xBase, ls)

\* The cap: no more than max_iter Newton steps (one when max_iter is 0, which
\* is only looked at after a step), each counted once.
IterBounded ==
  /\ iter = Len(xBase)
  /\ iter <= MaxIter \/ iter = 1
  /\ phase = "LINESEARCH" => iter < MaxIter \/ iter = 0

\* What has been decided stays decided: calling again after the end changes
\* neither the token nor the point.
TerminalIsSticky == [][phase = "DONE" => UNCHANGED <<phase, action, fail, x, xBase>>]_vars
=============================================================================
