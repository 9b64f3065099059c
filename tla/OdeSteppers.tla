----------------------------- MODULE OdeSteppers -----------------------------
(***************************************************************************)
(* The integrators of src/ode that keep a state between calls: BDF with    *)
(* its implicit solve, exponential Rosenbrock, and RK8(7) behind its C     *)
(* handle.  A program drives one of them; "newton" is one implicit solve   *)
(* on its own.                                                             *)
(***************************************************************************)
EXTENDS BdfIntegrate, FiniteSets

CONSTANTS
  Steppers,                         \* of "bdf", "exprb", "rk8pd", "newton"
  Top, MaxNewton, MaxBacktracks     \* of newton_step

ASSUME SteppersAssumption ==
  /\ {Top, MaxNewton} \subseteq Nat \ {0} /\ MaxBacktracks \in Nat
  /\ Targets # {} /\ IsFiniteSet(Targets)

VARIABLES
  stepper,
  pc, lin,                                            \* of all but bdf
  f, have_f, have_linearization, rejected_failure, bases, linearizations,
                                                      \* of exprb
  single, f_time, curve,                              \* of rk8pd
  x, r, points, rnorm, iteration, backtrack, small, callback_ok, linear_ok, failure
                                                      \* of newton

Exprb == INSTANCE ExprbIntegrate
Rk == INSTANCE Rk8pd
Newton == INSTANCE BdfNewton

OfExprb == <<f, have_f, have_linearization, rejected_failure, bases, linearizations>>
OfRk == <<single, f_time, curve>>
OfNewton == <<x, r, points, rnorm, iteration, backtrack, small, callback_ok,
              linear_ok, failure>>
OfBdf == <<running, previous_step, previous_y, derivative_valid, rejected_newton>>
Shared == <<call, target, adaptive, t, next_step, y, accepted, rejected_error,
            last_failure, status>>
allVars == <<stepper, pc, lin, derivative, OfExprb, OfRk, OfNewton, OfBdf, Shared>>

NoExprb ==
  /\ f = 0 /\ have_f = FALSE /\ have_linearization = FALSE /\ rejected_failure = 0
  /\ bases = 0 /\ linearizations = 0
NoRk == single = FALSE /\ f_time = 0 /\ curve = 0
NoNewton ==
  /\ x = 0 /\ r = 0 /\ points = 0 /\ rnorm = 0 /\ iteration = 1 /\ backtrack = 0
  /\ small = FALSE /\ callback_ok = TRUE /\ linear_ok = TRUE /\ failure = "EVALUATION"
NoBdf ==
  /\ running = FALSE /\ previous_step = 0 /\ previous_y = 0
  /\ derivative_valid = FALSE /\ rejected_newton = 0

SystemInit ==
  /\ stepper \in Steppers
  /\ \/ /\ stepper = "bdf" /\ Init /\ NoExprb /\ NoRk /\ NoNewton
        /\ pc = "idle" /\ lin = 0
     \/ /\ stepper = "exprb" /\ Exprb!Init /\ NoBdf /\ NoRk /\ NoNewton
        /\ derivative = 0
     \/ /\ stepper = "rk8pd" /\ Rk!Init /\ NoBdf /\ NoNewton
        /\ have_linearization = FALSE /\ rejected_failure = 0 /\ bases = 0
        /\ linearizations = 0 /\ adaptive = TRUE /\ rejected_error = 0
        /\ last_failure = "SOLVED" /\ lin = 0 /\ derivative = 0
     \/ /\ stepper = "newton" /\ Newton!Init /\ NoBdf /\ NoExprb /\ NoRk
        /\ call = 0 /\ target = 0 /\ adaptive = TRUE /\ t = 0 /\ next_step = 0 /\ y = 0
        /\ accepted = 0 /\ rejected_error = 0 /\ last_failure = "SOLVED" /\ status = "OK"

BesideRk == <<stepper, derivative, lin, have_linearization, rejected_failure, bases,
              linearizations, adaptive, rejected_error, last_failure, OfBdf, OfNewton>>

BdfStep == Step /\ UNCHANGED <<stepper, pc, lin, OfExprb, OfRk, OfNewton>>
ExprbStep == Exprb!Step /\ UNCHANGED <<stepper, derivative, OfBdf, OfRk, OfNewton>>
RkStep == Rk!Step /\ UNCHANGED BesideRk

SystemNext ==
  \/ /\ stepper = "bdf"
     /\ \/ BdfStep
        \/ /\ \E g \in Targets, adapt \in BOOLEAN : Call(g, adapt)
           /\ UNCHANGED <<stepper, pc, lin, OfExprb, OfRk, OfNewton>>
  \/ /\ stepper = "exprb"
     /\ \/ ExprbStep
        \/ /\ \E g, elsewhere \in Targets, adapt \in BOOLEAN :
                Exprb!Call(g, adapt, elsewhere)
           /\ UNCHANGED <<stepper, derivative, OfBdf, OfRk, OfNewton>>
  \/ /\ stepper = "rk8pd"
     /\ \/ RkStep
        \/ (\E g \in Targets, one \in BOOLEAN : Rk!Call(g, one)) /\ UNCHANGED BesideRk
        \/ (\E from \in Targets, other \in {0, 1} : Rk!Restart(from, other))
           /\ UNCHANGED BesideRk
  \/ /\ stepper = "newton"
     /\ Newton!Next /\ UNCHANGED <<stepper, OfExprb, OfRk, OfBdf, Shared>>

\* A call that is running goes on; the caller need not call again.
Progress ==
  \/ stepper = "bdf" /\ BdfStep
  \/ stepper = "exprb" /\ ExprbStep
  \/ stepper = "rk8pd" /\ RkStep
  \/ stepper = "newton" /\ Newton!Next /\ UNCHANGED <<stepper, OfExprb, OfRk, OfBdf, Shared>>

SystemSpec == SystemInit /\ [][SystemNext]_allVars /\ WF_allVars(Progress)

-----------------------------------------------------------------------------
(* Properties. *)

TypesOK ==
  /\ stepper = "bdf" => TypeOK
  /\ stepper = "exprb" => Exprb!TypeOK
  /\ stepper = "rk8pd" => Rk!TypeOK
  /\ stepper = "newton" => Newton!TypeOK

Busy ==
  IF stepper = "bdf" THEN running
  ELSE IF stepper = "newton" THEN pc # "done" ELSE pc # "idle"

\* What the caller sees of bdf_integrate_to, exprb_integrate_to and
\* rk8pd_evolve_apply is the contract of a stepper: every accepted step toward
\* the target and not past it, success at the target or after the one step
\* asked for, the last endpoint kept on failure.
Outcome ==
  IF stepper # "newton" /\ Busy THEN "running"
  ELSE IF single /\ status = "OK" /\ t # target THEN "paused" ELSE status
Contract == INSTANCE Stepper WITH at <- t, goal <- target, outcome <- Outcome
ContractKept == Contract!Safe

\* The stages use the right-hand side (and the Jacobian) of the endpoint the
\* step starts from, whatever was reused, retried, or changed by the caller
\* between calls.  In an implicit solve Jacobian, residual and derivative belong
\* to the iterate, the derivative handed to the multistep history belongs to
\* the solution, and success is no leftover of a failure.
BaseIsCurrent ==
  /\ stepper = "exprb" => Exprb!BaseIsCurrent
  /\ stepper = "rk8pd" => Rk!BaseIsCurrent
  /\ stepper = "newton" =>
       Newton!EquationConsistent /\ Newton!DerivativeOfSolution /\ Newton!SolvedIsHonest

\* max_steps bounds the attempts of a call whatever their outcome; a base
\* evaluation that succeeded is never repeated at the same endpoint; the line
\* searches of a solve are bounded.
WorkBounded ==
  /\ TypesOK
  /\ stepper = "bdf" => AttemptsBounded
  /\ stepper = "exprb" => Exprb!AttemptsBounded /\ Exprb!BaseIsReused
  /\ stepper = "newton" => Newton!EvaluationsBounded

\* Every call returns.
Returns == Busy ~> ~Busy

-----------------------------------------------------------------------------
\* the instance that is model-checked: calls toward times on both sides of the
\* start
ConstTargets == {-3, 0, 2, 8}
=============================================================================
