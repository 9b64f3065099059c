-------------------------- MODULE OdeSteppersProofs --------------------------
(***************************************************************************)
(* The integrators with a state of their own, for every set of targets,    *)
(* every option, and any number of calls: types, what is reused is         *)
(* current, the budgets, and that each of them keeps the contract of a     *)
(* stepper.                                                                *)
(***************************************************************************)
EXTENDS OdeSteppers, LeastNumber

-----------------------------------------------------------------------------
(* bdf_init and bdf_integrate_to: types, the multistep history, the growth *)
(* bound, the budget, and the contract.                                    *)

\* The step that is tried is a natural number, no longer than the way to the
\* target; it exceeds the largest step by rounding only.
LEMMA SizeBounds ==
  ASSUME BdfAssumption, TypeOK
  PROVE  /\ Remaining \in Nat /\ Clipped \in Nat /\ Size \in Nat
         /\ Clipped <= Remaining /\ Clipped <= MaxStep
         /\ Size <= Remaining /\ Rel * Size <= (Rel + 1) * Clipped
         /\ Size <= 2 * MaxStep
<1>1. Remaining \in Nat /\ Proposed \in 0..MaxStep
  BY DEF Remaining, Proposed, Abs, Least, TypeOK, BdfAssumption
<1>2. Clipped \in Nat /\ Clipped <= Remaining /\ Clipped <= MaxStep
  BY <1>1 DEF Clipped, Least, Abs, TypeOK, BdfAssumption
<1>3. Size \in Nat /\ Size <= Remaining
  BY <1>1, <1>2 DEF Size
<1>. DEFINE C == Clipped
            R == Remaining
<1>4. \A n, c, d \in Nat : d * c \in Nat /\ (n >= 1 => c * n >= c)
  BY SMT
<1>5. Rel * Size <= (Rel + 1) * C
  <2>1. Rel * C <= (Rel + 1) * C
    BY <1>2 DEF BdfAssumption
  <2>2. ASSUME (R - C) * Rel <= C PROVE Rel * R <= (Rel + 1) * C
    BY <1>1, <1>2, <2>2 DEF BdfAssumption
  <2>. QED BY <2>1, <2>2 DEF Size
<1>6. Size <= 2 * MaxStep
  <2>1. ASSUME (R - C) * Rel <= C PROVE R <= 2 * C
    <3>1. R - C \in Nat /\ Rel \in Nat /\ Rel >= 1
      BY <1>1, <1>2 DEF BdfAssumption
    <3>2. (R - C) * Rel >= R - C
      BY <3>1, <1>4
    <3>. QED BY <3>1, <3>2, <2>1, <1>1, <1>2
  <2>. QED BY <2>1, <1>1, <1>2 DEF Size, BdfAssumption
<1>. QED BY <1>1, <1>2, <1>3, <1>5, <1>6

\* Every proposal of the controller is within the largest step.
LEMMA ProposalsInRange ==
  ASSUME BdfAssumption, NEW size \in Nat, NEW passed \in BOOLEAN
  PROVE  Controlled(size, passed) \subseteq 0..MaxStep
<1>1. size \div 5 \in Nat /\ (6 * size) \div 10 \in Nat
  OBVIOUS
<1>2. ASSUME NEW lo \in Nat, NEW hi \in Nat, NEW s \in lo..hi
      PROVE  Least(MaxStep, s) \in 0..MaxStep
  BY <1>2 DEF Least, BdfAssumption
<1>3. PICK lo, hi \in Nat : Controlled(size, passed) = {Least(MaxStep, s) : s \in lo..hi}
  <2>1. 2 * size \in Nat
    OBVIOUS
  <2>. QED BY <1>1, <2>1 DEF Controlled
<1>. QED BY <1>2, <1>3

IInv == TypeOK /\ HistoryConsistent /\ AttemptsBounded

LEMMA IInvInit == BdfAssumption /\ Init => IInv
<1>. SUFFICES ASSUME BdfAssumption, Init PROVE IInv
  OBVIOUS
<1>1. t \in Int /\ target \in Int /\ next_step \in 0..MaxStep
  BY DEF Init, BdfAssumption, Least
<1>2. running \in BOOLEAN /\ adaptive \in BOOLEAN /\ derivative_valid \in BOOLEAN
  BY Zenon DEF Init
<1>3. TypeOK
  BY <1>1, <1>2 DEF Init, TypeOK, BdfAssumption
<1>. QED BY <1>1, <1>3 DEF Init, IInv, HistoryConsistent, AttemptsBounded, Attempts, BdfAssumption

LEMMA IInvCall ==
  ASSUME BdfAssumption, IInv, NEW g \in Targets, NEW adapt \in BOOLEAN, Call(g, adapt)
  PROVE  IInv'
<1>1. g \in Int /\ previous_step' \in {0, previous_step}
  BY DEF Call, Direction, BdfAssumption
<1>2. TypeOK'
  BY <1>1 DEF Call, IInv, TypeOK, BdfAssumption
<1>3. HistoryConsistent'
  BY <1>1 DEF Call, IInv, HistoryConsistent
<1>4. AttemptsBounded'
  BY DEF Call, AttemptsBounded, Attempts, BdfAssumption
<1>. QED BY <1>2, <1>3, <1>4 DEF IInv

\* One more attempt stays within the budget.
LEMMA AttemptAllowed ==
  ASSUME BdfAssumption, TypeOK, Attempting PROVE Attempts + 1 <= MaxSteps
BY DEF Attempting, Budget, Attempts, TypeOK, BdfAssumption

LEMMA HIsStep ==
  ASSUME BdfAssumption, TypeOK
  PROVE  h \in Int /\ (h = Size \/ h = -Size)
BY SizeBounds DEF h, Sign

LEMMA IInvStep ==
  ASSUME BdfAssumption, IInv, Step PROVE IInv'
<1>. USE DEF IInv
<1>0. TypeOK /\ HistoryConsistent /\ AttemptsBounded
  OBVIOUS
<1>1. CASE Exhausted \/ Underflow
  <2>1. running' \in BOOLEAN
    BY <1>1, Zenon DEF Exhausted, Underflow, Failed
  <2>2. /\ status' \in {"OK", "CONVERGENCE_ERROR"}
        /\ UNCHANGED <<args, state, report>>
    BY <1>1 DEF Exhausted, Underflow, Failed
  <2>3. TypeOK'
    BY <1>0, <2>1, <2>2 DEF TypeOK, args, state, report
  <2>. QED BY <1>0, <2>2, <2>3 DEF HistoryConsistent, AttemptsBounded, Attempts, args, state, report
<1>2. CASE InitialDerivative
  BY <1>0, <1>2 DEF InitialDerivative, TypeOK, HistoryConsistent, AttemptsBounded, Attempts,
     args, report
<1>3. CASE SolveFails
  <2>1. Size \div 4 \in 0..MaxStep
    BY <1>0, SizeBounds DEF BdfAssumption
  <2>2. TypeOK'
    BY <1>0, <1>3, <2>1 DEF SolveFails, Retry, TypeOK, args
  <2>3. HistoryConsistent'
    BY <1>0, <1>3 DEF SolveFails, HistoryConsistent
  <2>4. AttemptsBounded'
    BY <1>0, <1>3, AttemptAllowed DEF SolveFails, AttemptsBounded, Attempts, TypeOK
  <2>. QED BY <2>2, <2>3, <2>4
<1>4. CASE RejectError
  <2>1. next_step' \in 0..MaxStep
    BY <1>0, <1>4, SizeBounds, ProposalsInRange DEF RejectError
  <2>2. TypeOK'
    BY <1>0, <1>4, <2>1 DEF RejectError, Solve, Keep, TypeOK, args
  <2>3. HistoryConsistent'
    BY <1>0, <1>4 DEF RejectError, Keep, HistoryConsistent
  <2>4. AttemptsBounded'
    BY <1>0, <1>4, AttemptAllowed DEF RejectError, Solve, AttemptsBounded, Attempts, TypeOK
  <2>. QED BY <2>2, <2>3, <2>4
<1>5. CASE Accept
  <2>1. next_step' \in 0..MaxStep
    <3>1. Proposed \in 0..MaxStep
      BY <1>0 DEF Proposed, Least, TypeOK, BdfAssumption
    <3>. QED BY <1>0, <1>5, <3>1, SizeBounds, ProposalsInRange DEF Accept, Proposals
  <2>2. h \in Int /\ t' = t + h /\ y' = t + h /\ previous_y' = y /\ derivative' = t + h
        /\ previous_step' = h
    BY <1>0, <1>5, HIsStep DEF Accept, Shift
  <2>3. running' \in BOOLEAN
    BY <1>5 DEF Accept
  <2>4. TypeOK'
    BY <1>0, <1>5, <2>1, <2>2, <2>3 DEF Accept, Solve, TypeOK, args
  <2>5. HistoryConsistent'
    BY <1>0, <2>2 DEF HistoryConsistent, TypeOK
  <2>6. AttemptsBounded'
    BY <1>0, <1>5, AttemptAllowed DEF Accept, Solve, AttemptsBounded, Attempts, TypeOK
  <2>. QED BY <2>4, <2>5, <2>6
<1>. QED BY <1>1, <1>2, <1>3, <1>4, <1>5 DEF Step

LEMMA IInvNext == BdfAssumption /\ IInv /\ [Next]_vars => IInv'
<1>. SUFFICES ASSUME BdfAssumption, IInv, [Next]_vars PROVE IInv'
  OBVIOUS
<1>1. CASE UNCHANGED vars
  BY <1>1 DEF IInv, TypeOK, HistoryConsistent, AttemptsBounded, Attempts, vars, args, state, report
<1>. QED BY <1>1, IInvCall, IInvStep DEF Next

\* The inductive invariant of the specification.
THEOREM Inductive == Spec => []IInv
BY BdfAssumption, IInvInit, IInvNext, PTL DEF Spec

\* Every variable keeps its type; in particular no proposal exceeds max_step.
THEOREM TypeCorrect == Spec => []TypeOK
BY Inductive, PTL DEF IInv

\* The stored history is the history of the accepted solution: y belongs to t,
\* previous_y to the point a previous step earlier, a valid derivative to t,
\* after any number of rejections, calls and changes of direction.
THEOREM History == Spec => []HistoryConsistent
BY Inductive, PTL DEF IInv

\* Attempts of every kind together stay within max_steps.
THEOREM Budgeted == Spec => []AttemptsBounded
BY Inductive, PTL DEF IInv

\* No step leaves the zero-stability bound, however it was clipped or rounded.
THEOREM Growth == Spec => []GrowthBounded
<1>1. ASSUME BdfAssumption, TypeOK PROVE GrowthBounded
  <2>. SUFFICES ASSUME previous_step # 0
                PROVE  Rel * Size <= 2 * (Rel + 1) * Abs(previous_step)
    BY DEF GrowthBounded
  <2>1. Abs(previous_step) \in Nat /\ Clipped <= 2 * Abs(previous_step)
    <3>1. Abs(previous_step) \in Nat /\ Remaining \in Nat /\ Proposed \in Nat
      BY <1>1 DEF Abs, Remaining, Proposed, Least, TypeOK, BdfAssumption
    <3>. QED BY <3>1 DEF Clipped, Least
  <2>2. Clipped \in Nat /\ Size \in Nat /\ Rel \in Nat /\ Rel * Size <= (Rel + 1) * Clipped
    BY <1>1, SizeBounds DEF BdfAssumption
  <2>3. \A k, a, b \in Nat : a <= b => k * a <= k * b
    BY SMT
  <2>4. (Rel + 1) * Clipped <= (Rel + 1) * (2 * Abs(previous_step))
    BY <2>1, <2>2, <2>3
  <2>5. (Rel + 1) * (2 * Abs(previous_step)) = 2 * (Rel + 1) * Abs(previous_step)
    BY <2>1, <2>2
  <2>6. Rel * Size \in Nat /\ (Rel + 1) * Clipped \in Nat
        /\ 2 * (Rel + 1) * Abs(previous_step) \in Nat
    BY <2>1, <2>2
  <2>. QED BY <2>2, <2>4, <2>5, <2>6
<1>. QED BY <1>1, BdfAssumption, TypeCorrect, PTL

-----------------------------------------------------------------------------
(* The integrator implements the contract of a stepper. *)

BdfContract == INSTANCE Stepper WITH at <- t, goal <- target,
              outcome <- IF running THEN "running" ELSE status

\* A positive step toward the target does not pass it, and the loop ends
\* exactly when it is reached.
LEMMA StepTowardTarget ==
  ASSUME BdfAssumption, TypeOK, TypeOK', Accept
  PROVE  BdfContract!Toward(t, t', target) /\ (running' <=> t' # target)
<1>1. Size \in Nat /\ Size > 0 /\ Size <= Abs(target - t)
  BY SizeBounds DEF Accept, Solve, Attempting, TooSmall, Remaining
<1>2. t' = t + h /\ target' = target /\ running' = ~Reached
  BY DEF Accept, args
<1>3. t \in Int /\ target \in Int
  BY DEF TypeOK
<1>4. CASE target < t
  <2>1. h = -Size /\ Abs(target - t) = t - target /\ Sign(target - t) = -1
    BY <1>1, <1>3, <1>4 DEF h, Sign, Abs
  <2>2. target <= t' /\ t' < t /\ t' \in Int
    BY <1>1, <1>2, <1>3, <2>1
  <2>3. Reached <=> t' = target
    BY <1>3, <2>1, <2>2 DEF Reached
  <2>4. BdfContract!Toward(t, t', target)
    BY <2>2 DEF BdfContract!Toward
  <2>. QED BY <1>2, <2>3, <2>4, Zenon
<1>5. CASE t <= target
  <2>1. h = Size /\ Abs(target - t) = target - t /\ Sign(target - t) = 1
    BY <1>1, <1>3, <1>5 DEF h, Sign, Abs
  <2>2. t' <= target /\ t < t' /\ t' \in Int
    BY <1>1, <1>2, <1>3, <2>1
  <2>3. Reached <=> t' = target
    BY <1>3, <2>1, <2>2 DEF Reached
  <2>4. BdfContract!Toward(t, t', target)
    BY <2>2 DEF BdfContract!Toward
  <2>. QED BY <1>2, <2>3, <2>4, Zenon
<1>. QED BY <1>3, <1>4, <1>5

\* While a call runs its status is OK: a success is never a leftover.
RunningIsOK == running => status = "OK" /\ t # target

LEMMA RunningInductive ==
  ASSUME BdfAssumption, TypeOK, TypeOK', RunningIsOK, [Next]_vars
  PROVE  RunningIsOK'
<1>1. CASE UNCHANGED vars
  BY <1>1 DEF RunningIsOK, vars, args, state
<1>2. ASSUME NEW g \in Targets, NEW adapt \in BOOLEAN, Call(g, adapt) PROVE RunningIsOK'
  BY <1>2 DEF RunningIsOK, Call
<1>3. CASE Exhausted \/ Underflow
  BY <1>3 DEF RunningIsOK, Exhausted, Underflow, Failed
<1>4. CASE InitialDerivative \/ SolveFails \/ RejectError
  BY <1>4 DEF RunningIsOK, InitialDerivative, SolveFails, RejectError, Keep, args
<1>5. CASE Accept
  <2>1. running /\ status' = status /\ target' = target
    BY <1>5 DEF Accept, Solve, Attempting, args
  <2>. QED BY <1>5, <2>1, StepTowardTarget DEF RunningIsOK
<1>. QED BY <1>1, <1>2, <1>3, <1>4, <1>5 DEF Next, Step

\* Every step of the integrator is a step of the contract, or changes nothing
\* the contract speaks of.
LEMMA StepRefines ==
  ASSUME BdfAssumption, TypeOK, TypeOK', RunningIsOK, [Next]_vars
  PROVE  [BdfContract!Next]_<<t, target, IF running THEN "running" ELSE status>>
<1>0. /\ t \in Int /\ target \in Int /\ target' \in Int
      /\ running \in BOOLEAN /\ running' \in BOOLEAN
      /\ status \in {"OK", "CONVERGENCE_ERROR"}
  BY DEF TypeOK
<1>1. CASE UNCHANGED vars
  BY <1>1 DEF vars, args, state
<1>2. ASSUME NEW g \in Targets, NEW adapt \in BOOLEAN, Call(g, adapt) PROVE BdfContract!Call
  BY <1>0, <1>2 DEF Call, BdfContract!Call
<1>3. ASSUME Exhausted \/ Underflow PROVE BdfContract!GiveUp
  BY <1>0, <1>3 DEF Exhausted, Underflow, Failed, args, state, BdfContract!GiveUp
<1>4. CASE InitialDerivative \/ SolveFails \/ RejectError
  <2>1. UNCHANGED <<t, target, running, status>>
    BY <1>4 DEF InitialDerivative, SolveFails, RejectError, Keep, args
  <2>. QED BY <2>1
<1>5. ASSUME Accept PROVE BdfContract!Advance
  <2>1. running /\ status' = status /\ target' = target /\ status = "OK"
    BY <1>5 DEF Accept, Solve, Attempting, args, RunningIsOK
  <2>2. BdfContract!Toward(t, t', target) /\ (running' <=> t' # target)
    BY <1>5, StepTowardTarget
  <2>3. ASSUME t' = target PROVE BdfContract!Advance
    <3>1. ~running'
      BY <2>2, <2>3, Zenon
    <3>. QED BY <2>1, <2>2, <2>3, <3>1, Zenon DEF BdfContract!Advance
  <2>4. ASSUME t' # target PROVE BdfContract!Advance
    <3>1. running'
      BY <2>2, <2>4, Zenon
    <3>. QED BY <2>1, <2>2, <2>4, <3>1, Zenon DEF BdfContract!Advance
  <2>. QED BY <2>3, <2>4
<1>. QED BY <1>1, <1>2, <1>3, <1>4, <1>5 DEF Next, Step, BdfContract!Next

\* bdf_integrate_to moves the accepted endpoint toward the target and never
\* past it, reports success exactly at the target, and leaves the last accepted
\* endpoint in place when it gives up.
THEOREM KeepsContract == Spec => BdfContract!Safe
<1>1. BdfAssumption /\ Init => BdfContract!Init /\ RunningIsOK
  BY DEF Init, BdfContract!Init, RunningIsOK, BdfAssumption
<1>. QED
  BY <1>1, BdfAssumption, TypeCorrect, RunningInductive, StepRefines, PTL DEF Spec, BdfContract!Safe

-----------------------------------------------------------------------------
(* newton_step.                                                            *)

\* residual and derivative belong to the iterate whenever they are used, and
\* nothing that failed is behind a solution
NewtonPlaced ==
  /\ r = x
  /\ pc \in {"enter", "iterate", "solve"} => derivative = x
  /\ pc = "solve" => lin = x
  /\ pc = "iterate" => callback_ok
  /\ pc = "trial" => linear_ok
  /\ pc # "done" => failure # "SOLVED"
  /\ Newton!DerivativeOfSolution /\ Newton!SolvedIsHonest

\* each iteration has its backtracks
NewtonCounted ==
  /\ pc \in {"enter", "iterate", "solve"} => points <= (iteration - 1) * (MaxBacktracks + 1)
  /\ pc = "trial" => points <= (iteration - 1) * (MaxBacktracks + 1) + backtrack
  /\ pc \in {"solve", "trial"} => iteration <= MaxNewton
  /\ Newton!EvaluationsBounded

NewtonInv == Newton!TypeOK /\ NewtonPlaced /\ NewtonCounted

(* Iterations within the limit make no more evaluations than all of them.  *)
LEMMA EvaluationsOf ==
  ASSUME NEW i \in Int, i <= MaxNewton
  PROVE  /\ i * (MaxBacktracks + 1) \in Int
         /\ i * (MaxBacktracks + 1) <= MaxNewton * (MaxBacktracks + 1)
         /\ (i - 1) * (MaxBacktracks + 1) + (MaxBacktracks + 1) = i * (MaxBacktracks + 1)
<1>1. MaxNewton \in Nat /\ MaxBacktracks + 1 \in Nat
  BY SteppersAssumption
<1> DEFINE K == MaxBacktracks + 1
<1>2. \A k \in Nat, d \in Nat : d * k >= 0
  BY SMT
<1>3. (MaxNewton - i) * K >= 0
  BY <1>1, <1>2
<1>4. (MaxNewton - i) * K = MaxNewton * K - i * K
  BY <1>1
<1>5. (i - 1) * K + K = i * K
  BY <1>1
<1>6. i * K \in Int /\ MaxNewton * K \in Int
  BY <1>1
<1> QED BY <1>3, <1>4, <1>5, <1>6

(* A solve starts with nothing linearized.                                 *)
LEMMA Newton_Begins == Newton!Init => NewtonInv
<1> SUFFICES ASSUME Newton!Init PROVE NewtonInv
  OBVIOUS
<1>1. linear_ok \in BOOLEAN /\ small \in BOOLEAN /\ callback_ok \in BOOLEAN
  BY Zenon DEF Newton!Init
<1>2. Newton!TypeOK
  BY <1>1, SteppersAssumption DEF Newton!Init, Newton!TypeOK, Newton!Codes
<1>3. NewtonPlaced
  BY DEF Newton!Init, NewtonPlaced, Newton!DerivativeOfSolution, Newton!SolvedIsHonest
<1>4. NewtonCounted
  <2>1. 0 <= MaxNewton * (MaxBacktracks + 1) /\ (1 - 1) * (MaxBacktracks + 1) = 0
    BY EvaluationsOf, SteppersAssumption
  <2> QED BY <2>1 DEF Newton!Init, NewtonCounted, Newton!EvaluationsBounded
<1> QED BY <1>2, <1>3, <1>4 DEF NewtonInv

(* Every step of a solve keeps its invariant.                              *)
LEMMA Newton_Kept == NewtonInv /\ Newton!Next => NewtonInv'
<1> SUFFICES ASSUME NewtonInv, Newton!Next PROVE NewtonInv'
  OBVIOUS
<1> USE SteppersAssumption DEF NewtonInv
<1>1. CASE Newton!Enter
  <2>1. callback_ok' \in BOOLEAN
    BY <1>1 DEF Newton!Enter
  <2>2. Newton!TypeOK'
    BY <1>1, <2>1 DEF Newton!Enter, Newton!Return, Newton!TypeOK, Newton!Codes
  <2>3. NewtonPlaced'
    BY <1>1 DEF Newton!Enter, Newton!Return, NewtonPlaced, Newton!DerivativeOfSolution, Newton!SolvedIsHonest
  <2>4. NewtonCounted'
    BY <1>1 DEF Newton!Enter, Newton!Return, NewtonCounted, Newton!EvaluationsBounded
  <2> QED BY <2>2, <2>3, <2>4
<1>2. CASE Newton!Converged
  <2>1. Newton!TypeOK'
    BY <1>2 DEF Newton!Converged, Newton!Return, Newton!TypeOK, Newton!Codes
  <2>2. NewtonPlaced'
    BY <1>2 DEF Newton!Converged, Newton!Return, NewtonPlaced, Newton!DerivativeOfSolution, Newton!SolvedIsHonest
  <2>3. NewtonCounted'
    BY <1>2 DEF Newton!Converged, Newton!Return, NewtonCounted, Newton!EvaluationsBounded
  <2> QED BY <2>1, <2>2, <2>3
<1>3. CASE Newton!IterationLimit \/ Newton!LineSearchFails
  <2>1. Newton!TypeOK'
    BY <1>3 DEF Newton!IterationLimit, Newton!LineSearchFails, Newton!Return, Newton!TypeOK, Newton!Codes
  <2>2. NewtonPlaced'
    BY <1>3 DEF Newton!IterationLimit, Newton!LineSearchFails, Newton!Return, NewtonPlaced,
       Newton!DerivativeOfSolution, Newton!SolvedIsHonest
  <2>3. NewtonCounted'
    BY <1>3 DEF Newton!IterationLimit, Newton!LineSearchFails, Newton!Return, NewtonCounted,
       Newton!EvaluationsBounded
  <2> QED BY <2>1, <2>2, <2>3
<1>4. CASE Newton!Linearize
  <2>1. callback_ok' \in BOOLEAN
    BY <1>4, Zenon DEF Newton!Linearize
  <2>2. Newton!TypeOK'
    BY <1>4, <2>1 DEF Newton!Linearize, Newton!Linearized, Newton!Return, Newton!TypeOK, Newton!Codes
  <2>3. NewtonPlaced'
    BY <1>4 DEF Newton!Linearize, Newton!Linearized, Newton!Return, NewtonPlaced,
       Newton!DerivativeOfSolution, Newton!SolvedIsHonest
  <2>4. NewtonCounted'
    BY <1>4 DEF Newton!Linearize, Newton!Iterating, Newton!Return, NewtonCounted, Newton!EvaluationsBounded
  <2> QED BY <2>2, <2>3, <2>4
<1>5. CASE Newton!LinearSolve
  <2>1. callback_ok' \in BOOLEAN /\ linear_ok' \in BOOLEAN /\ small' \in BOOLEAN
    <3>1. small \in BOOLEAN
      BY DEF Newton!TypeOK
    <3> QED BY <1>5, <3>1, Zenon DEF Newton!LinearSolve
  <2>2. Newton!TypeOK'
    BY <1>5, <2>1 DEF Newton!LinearSolve, Newton!Return, Newton!TypeOK, Newton!Codes
  <2>3. NewtonPlaced'
    BY <1>5 DEF Newton!LinearSolve, Newton!Return, NewtonPlaced,
       Newton!DerivativeOfSolution, Newton!SolvedIsHonest
  <2>4. NewtonCounted'
    <3>1. iteration \in Int /\ (iteration - 1) * (MaxBacktracks + 1) \in Int /\ points \in Int
      BY EvaluationsOf DEF Newton!TypeOK, NewtonCounted
    <3> QED BY <1>5, <3>1 DEF Newton!LinearSolve, Newton!Return, NewtonCounted, Newton!EvaluationsBounded
  <2> QED BY <2>2, <2>3, <2>4
<1>6. CASE Newton!TrialFails
  <2>1. callback_ok' \in BOOLEAN
    BY <1>6 DEF Newton!TrialFails
  <2>2. Newton!TypeOK'
    BY <1>6, <2>1 DEF Newton!TrialFails, Newton!Slope, Newton!TypeOK, Newton!Codes
  <2>3. NewtonPlaced'
    BY <1>6 DEF Newton!TrialFails, NewtonPlaced, Newton!DerivativeOfSolution, Newton!SolvedIsHonest
  <2>4. NewtonCounted'
    <3>1. /\ iteration \in Int /\ iteration <= MaxNewton /\ points \in Int /\ backtrack \in Int
          /\ points <= (iteration - 1) * (MaxBacktracks + 1) + backtrack
          /\ backtrack <= MaxBacktracks /\ pc = "trial"
      BY <1>6 DEF Newton!TrialFails, Newton!TypeOK, NewtonCounted
    <3>2. /\ iteration * (MaxBacktracks + 1) \in Int
          /\ iteration * (MaxBacktracks + 1) <= MaxNewton * (MaxBacktracks + 1)
          /\ (iteration - 1) * (MaxBacktracks + 1) + (MaxBacktracks + 1) = iteration * (MaxBacktracks + 1)
      BY <3>1, EvaluationsOf
    <3>3. (iteration - 1) * (MaxBacktracks + 1) \in Int /\ MaxNewton * (MaxBacktracks + 1) \in Int
      BY <3>1
    <3>4. /\ points' <= (iteration - 1) * (MaxBacktracks + 1) + backtrack'
          /\ points' <= MaxNewton * (MaxBacktracks + 1)
      BY <1>6, <3>1, <3>2, <3>3 DEF Newton!TrialFails
    <3> QED BY <1>6, <3>1, <3>4 DEF Newton!TrialFails, NewtonCounted, Newton!EvaluationsBounded
  <2> QED BY <2>2, <2>3, <2>4
<1>7. ASSUME NEW next \in 0..Top, Newton!TrialSucceeds(next) PROVE NewtonInv'
  <2> USE <1>7
  <2>1. pc' \in {"iterate", "done"} /\ (pc' = "iterate" => failure' = failure)
        /\ failure' \in {"SOLVED", failure}
    BY DEF Newton!TrialSucceeds, Newton!Return
  <2>2. /\ iteration \in Int /\ iteration <= MaxNewton /\ points \in Nat /\ backtrack \in Int
        /\ points <= (iteration - 1) * (MaxBacktracks + 1) + backtrack
        /\ backtrack <= MaxBacktracks /\ pc = "trial" /\ linear_ok /\ iteration >= 1
    BY DEF Newton!TrialSucceeds, Newton!TypeOK, NewtonCounted, NewtonPlaced
  <2>3. Newton!TypeOK'
    BY <2>1, <2>2 DEF Newton!TrialSucceeds, Newton!Slope, Newton!TypeOK, Newton!Codes
  <2>4. NewtonPlaced'
    <3>1. pc' = "done" => Newton!Ends(next)
      BY <2>2 DEF Newton!TrialSucceeds
    <3>2. failure' = "SOLVED" => pc' = "done"
      BY <2>1, <2>2 DEF NewtonPlaced
    <3>3. callback_ok' /\ UNCHANGED <<small, linear_ok, backtrack>> /\ rnorm' = next
      BY DEF Newton!TrialSucceeds
    <3>4. Newton!SolvedIsHonest'
      BY <2>2, <3>1, <3>2, <3>3, Zenon DEF Newton!SolvedIsHonest, Newton!Ends
    <3>5. derivative' = x' /\ r' = x'
      BY DEF Newton!TrialSucceeds, Newton!Slope
    <3> QED BY <2>1, <3>2, <3>3, <3>4, <3>5 DEF NewtonPlaced, Newton!DerivativeOfSolution
  <2>5. NewtonCounted'
    <3>2. /\ iteration * (MaxBacktracks + 1) \in Int
          /\ iteration * (MaxBacktracks + 1) <= MaxNewton * (MaxBacktracks + 1)
          /\ (iteration - 1) * (MaxBacktracks + 1) + (MaxBacktracks + 1) = iteration * (MaxBacktracks + 1)
      BY <2>2, EvaluationsOf
    <3>3. (iteration - 1) * (MaxBacktracks + 1) \in Int /\ MaxNewton * (MaxBacktracks + 1) \in Int
      BY <2>2
    <3>4. points' = points + 1 /\ iteration' = iteration + 1
      BY DEF Newton!TrialSucceeds
    <3>5. points' <= iteration * (MaxBacktracks + 1)
      BY <2>2, <3>2, <3>3, <3>4
    <3>6. iteration' - 1 = iteration
      BY <2>2, <3>4
    <3>7. points' <= MaxNewton * (MaxBacktracks + 1)
      BY <2>2, <3>2, <3>3, <3>4, <3>5
    <3> QED BY <2>1, <3>5, <3>6, <3>7 DEF NewtonCounted, Newton!EvaluationsBounded
  <2> QED BY <2>3, <2>4, <2>5
<1> QED BY <1>1, <1>2, <1>3, <1>4, <1>5, <1>6, <1>7 DEF Newton!Next

-----------------------------------------------------------------------------
(* exprb_integrate_to.                                                     *)

\* what has been evaluated or linearized is at the accepted endpoint, and has
\* been once since the last accepted step
ExprbBase ==
  /\ y = t
  /\ have_f => f = t
  /\ have_linearization => lin = t /\ have_f
  /\ bases = accepted + (IF have_f THEN 1 ELSE 0)
  /\ linearizations = accepted + (IF have_linearization THEN 1 ELSE 0)

\* an attempt is begun within the budget, and only short of the target
ExprbUnderway ==
  /\ Exprb!AttemptsBounded
  /\ pc = "step" => Exprb!Attempts < MaxSteps
  /\ pc # "idle" => status = "OK" /\ t # target

ExprbInv == Exprb!TypeOK /\ ExprbBase /\ ExprbUnderway

(* Every proposal of the controller is within the largest step, and the    *)
(* step that is tried is no longer than the way to the target.             *)
LEMMA ExprbSizes ==
  ASSUME Exprb!TypeOK
  PROVE  /\ Exprb!Size \in 0..MaxStep /\ Exprb!Size <= Exprb!Abs(target - t)
         /\ Exprb!Size \div 4 \in 0..MaxStep
         /\ \A passed \in BOOLEAN : Exprb!Controlled(Exprb!Size, passed) \subseteq 0..MaxStep
<1>1. Exprb!Size \in 0..MaxStep /\ Exprb!Size <= Exprb!Abs(target - t)
  BY BdfAssumption DEF Exprb!Size, Exprb!Proposed, Exprb!Least, Exprb!Abs, Exprb!TypeOK
<1>2. ASSUME NEW size \in Nat, NEW passed \in BOOLEAN
      PROVE  Exprb!Controlled(size, passed) \subseteq 0..MaxStep
  <2>1. size \div 5 \in Nat /\ (8 * size) \div 10 \in Nat /\ 2 * size \in Nat
    OBVIOUS
  <2>2. ASSUME NEW lo \in Nat, NEW hi \in Nat, NEW s \in lo..hi
        PROVE  Exprb!Least(MaxStep, s) \in 0..MaxStep
    BY <2>2, BdfAssumption DEF Exprb!Least
  <2>3. PICK lo, hi \in Nat :
          Exprb!Controlled(size, passed) = {Exprb!Least(MaxStep, s) : s \in lo..hi}
    BY <2>1 DEF Exprb!Controlled
  <2> QED BY <2>2, <2>3
<1>3. Exprb!Size \div 4 \in 0..MaxStep
  BY <1>1, BdfAssumption
<1> QED BY <1>1, <1>2, <1>3

(* A step toward a point, no longer than the way to it, does not pass it,  *)
(* and the loop over such steps ends exactly there.                        *)
LEMMA StepToward ==
  ASSUME NEW a \in Int, NEW g \in Int, a # g, NEW s \in Nat, s <= Exprb!Abs(g - a)
  PROVE  /\ a + Exprb!Sign(g - a) * s \in Int
         /\ \/ a + Exprb!Sign(g - a) * s = a
            \/ Contract!Toward(a, a + Exprb!Sign(g - a) * s, g)
         /\ Exprb!Sign(g - a) * (g - (a + Exprb!Sign(g - a) * s)) <= 0
              <=> a + Exprb!Sign(g - a) * s = g
<1>1. CASE g < a
  <2>1. Exprb!Sign(g - a) = -1 /\ Exprb!Abs(g - a) = a - g
    BY <1>1 DEF Exprb!Sign, Exprb!Abs
  <2>2. a + (-1) * s = a - s /\ a - s \in Int /\ g <= a - s /\ (-1) * (g - (a - s)) = a - s - g
    BY <2>1
  <2> QED BY <1>1, <2>1, <2>2 DEF Contract!Toward
<1>2. CASE a < g
  <2>1. Exprb!Sign(g - a) = 1 /\ Exprb!Abs(g - a) = g - a
    BY <1>2 DEF Exprb!Sign, Exprb!Abs
  <2>2. a + 1 * s = a + s /\ a + s \in Int /\ a + s <= g /\ 1 * (g - (a + s)) = g - (a + s)
    BY <2>1
  <2> QED BY <1>2, <2>1, <2>2 DEF Contract!Toward
<1> QED BY <1>1, <1>2

(* A state that was just made has nothing to reuse.                        *)
LEMMA Exprb_Begins == Exprb!Init => ExprbInv
<1> SUFFICES ASSUME Exprb!Init PROVE ExprbInv
  OBVIOUS
<1>1. t \in Int /\ next_step \in 0..MaxStep
  BY BdfAssumption DEF Exprb!Init, Exprb!Least
<1>0. adaptive \in BOOLEAN /\ have_f \in BOOLEAN /\ have_linearization \in BOOLEAN
  BY Zenon DEF Exprb!Init
<1>2. Exprb!TypeOK
  BY <1>0, <1>1, BdfAssumption DEF Exprb!Init, Exprb!TypeOK
<1>3. ExprbBase
  BY DEF Exprb!Init, ExprbBase
<1>4. ExprbUnderway
  BY BdfAssumption DEF Exprb!Init, ExprbUnderway, Exprb!AttemptsBounded, Exprb!Attempts
<1> QED BY <1>2, <1>3, <1>4 DEF ExprbInv

(* A call forgets what was evaluated: the problem may have been linearized *)
(* elsewhere.                                                              *)
LEMMA Exprb_Called ==
  ASSUME ExprbInv, NEW g \in Targets, NEW elsewhere \in Targets, NEW adapt \in BOOLEAN,
         Exprb!Call(g, adapt, elsewhere)
  PROVE  ExprbInv'
<1> USE DEF ExprbInv, Exprb!Call, Exprb!Forget, Exprb!state
<1>1. g \in Int /\ elsewhere \in Int
  BY BdfAssumption
<1>5. adaptive' \in BOOLEAN /\ have_f' \in BOOLEAN /\ have_linearization' \in BOOLEAN
  BY Zenon
<1>2. Exprb!TypeOK'
  BY <1>1, <1>5, BdfAssumption DEF Exprb!TypeOK
<1>3. ExprbBase'
  BY DEF ExprbBase
<1>4. ExprbUnderway'
  BY BdfAssumption DEF ExprbUnderway, Exprb!AttemptsBounded, Exprb!Attempts
<1> QED BY <1>2, <1>3, <1>4

(* The parts of an attempt keep the base at the endpoint.                  *)
LEMMA Exprb_Stepped == ASSUME ExprbInv, Exprb!Step PROVE ExprbInv'
<1> USE BdfAssumption DEF ExprbInv
<1> USE DEF Exprb!args, Exprb!state, Exprb!base, Exprb!report
<1>1. CASE Exprb!Exhausted \/ Exprb!Underflow
  <2>1. /\ pc' = "idle" /\ status' = "CONVERGENCE_ERROR"
        /\ UNCHANGED <<Exprb!args, Exprb!state, Exprb!base, Exprb!report>>
    BY <1>1 DEF Exprb!Exhausted, Exprb!Underflow, Exprb!Failed
  <2>2. Exprb!TypeOK'
    BY <2>1 DEF Exprb!TypeOK
  <2> QED BY <2>1, <2>2 DEF ExprbBase, ExprbUnderway, Exprb!AttemptsBounded, Exprb!Attempts
<1>2. CASE Exprb!Begin
  <2>1. Exprb!TypeOK'
    BY <1>2 DEF Exprb!Begin, Exprb!TypeOK
  <2>2. ExprbBase'
    BY <1>2 DEF Exprb!Begin, ExprbBase
  <2>3. ExprbUnderway'
    BY <1>2 DEF Exprb!Begin, Exprb!Budget, ExprbUnderway, Exprb!AttemptsBounded, Exprb!Attempts, Exprb!TypeOK
  <2> QED BY <2>1, <2>2, <2>3
<1>3. CASE Exprb!EvaluateBase
  <2>1. Exprb!TypeOK'
    BY <1>3 DEF Exprb!EvaluateBase, Exprb!TypeOK
  <2>2. ExprbBase'
    BY <1>3 DEF Exprb!EvaluateBase, ExprbBase, Exprb!TypeOK
  <2>3. ExprbUnderway'
    BY <1>3 DEF Exprb!EvaluateBase, ExprbUnderway, Exprb!AttemptsBounded, Exprb!Attempts
  <2> QED BY <2>1, <2>2, <2>3
<1>4. CASE Exprb!Linearize
  <2>1. Exprb!TypeOK'
    BY <1>4 DEF Exprb!Linearize, Exprb!TypeOK
  <2>2. ExprbBase'
    BY <1>4 DEF Exprb!Linearize, ExprbBase, Exprb!TypeOK
  <2>3. ExprbUnderway'
    BY <1>4 DEF Exprb!Linearize, ExprbUnderway, Exprb!AttemptsBounded, Exprb!Attempts
  <2> QED BY <2>1, <2>2, <2>3
<1>5. ASSUME NEW failure_ \in {"EVALUATION", "LINEARIZE", "PHI_FAILURE"}, Exprb!Reject(failure_),
             pc = "step", UNCHANGED <<f, have_f, have_linearization, bases, linearizations>>,
             lin' \in Int, have_linearization => lin' = lin
      PROVE  ExprbInv'
  <2>1. Exprb!TypeOK'
    BY <1>5, ExprbSizes DEF Exprb!Reject, Exprb!TypeOK
  <2>2. ExprbBase'
    BY <1>5 DEF Exprb!Reject, ExprbBase
  <2>3. ExprbUnderway'
    BY <1>5 DEF Exprb!Reject, ExprbUnderway, Exprb!AttemptsBounded, Exprb!Attempts, Exprb!TypeOK
  <2> QED BY <2>1, <2>2, <2>3
<1>6. CASE Exprb!BaseFails \/ Exprb!StagesFail
  <2>1. PICK failure_ \in {"EVALUATION", "PHI_FAILURE"} : Exprb!Reject(failure_)
    BY <1>6 DEF Exprb!BaseFails, Exprb!StagesFail
  <2>2. pc = "step" /\ UNCHANGED Exprb!base
    BY <1>6 DEF Exprb!BaseFails, Exprb!StagesFail, Exprb!Stages, Exprb!KeepBase
  <2>3. lin' \in Int
    BY <2>2 DEF Exprb!TypeOK
  <2> QED BY <1>5, <2>1, <2>2, <2>3
<1>7. ASSUME NEW somewhere \in Targets, Exprb!LinearizeFails(somewhere) PROVE ExprbInv'
  <2>1. somewhere \in Int
    OBVIOUS
  <2> QED BY <1>5, <1>7, <2>1 DEF Exprb!LinearizeFails
<1>8. CASE Exprb!RejectError
  <2>1. next_step' \in 0..MaxStep
    BY <1>8, ExprbSizes DEF Exprb!RejectError
  <2>2. Exprb!TypeOK'
    BY <1>8, <2>1 DEF Exprb!RejectError, Exprb!KeepBase, Exprb!TypeOK
  <2>3. ExprbBase'
    BY <1>8 DEF Exprb!RejectError, Exprb!KeepBase, ExprbBase
  <2>4. ExprbUnderway'
    BY <1>8 DEF Exprb!RejectError, Exprb!Stages, ExprbUnderway, Exprb!AttemptsBounded, Exprb!Attempts, Exprb!TypeOK
  <2> QED BY <2>2, <2>3, <2>4
<1>9. CASE Exprb!Accept
  <2>1. next_step' \in 0..MaxStep
    BY <1>9, ExprbSizes DEF Exprb!Accept
  <2>2. t' = t + Exprb!h /\ y' = t' /\ pc = "step" /\ target' = target
    BY <1>9 DEF Exprb!Accept, Exprb!Stages
  <2>3. t \in Int /\ target \in Int /\ t # target /\ status = "OK" /\ status' = status
    BY <1>9, <2>2 DEF Exprb!TypeOK, ExprbUnderway, Exprb!Accept
  <2>4. t' \in Int /\ (Exprb!Reached <=> t' = target)
    BY <2>2, <2>3, ExprbSizes, StepToward DEF Exprb!h, Exprb!Reached
  <2>9. adaptive' \in BOOLEAN /\ have_f' \in BOOLEAN /\ have_linearization' \in BOOLEAN
    <3>1. adaptive \in BOOLEAN /\ adaptive' = adaptive
      BY <1>9 DEF Exprb!Accept, Exprb!TypeOK
    <3> QED BY <1>9, <3>1, Zenon DEF Exprb!Accept, Exprb!Refresh, Exprb!Forget
  <2>5. Exprb!TypeOK'
    BY <1>9, <2>1, <2>2, <2>4, <2>9 DEF Exprb!Accept, Exprb!Refresh, Exprb!Forget, Exprb!TypeOK
  <2>6. ExprbBase'
    BY <1>9, <2>2 DEF Exprb!Accept, Exprb!Stages, Exprb!Refresh, Exprb!Forget, ExprbBase, Exprb!TypeOK
  <2>7. pc' # "idle" => t' # target
    BY <1>9, <2>4 DEF Exprb!Accept
  <2>8. ExprbUnderway'
    BY <1>9, <2>2, <2>3, <2>7 DEF Exprb!Accept, ExprbUnderway, Exprb!AttemptsBounded, Exprb!Attempts, Exprb!TypeOK
  <2> QED BY <2>5, <2>6, <2>8
<1> QED BY <1>1, <1>2, <1>3, <1>4, <1>6, <1>7, <1>8, <1>9 DEF Exprb!Step

-----------------------------------------------------------------------------
(* rk8pd_evolve_apply, behind its handle.                                  *)

\* a cached derivative outlives nothing but a retry
RkCached ==
  /\ have_f => pc = "trial"
  /\ Rk!BaseIsCurrent

RkUnderway ==
  /\ pc = "trial" => accepted < MaxSteps
  /\ pc # "idle" => status = "OK" /\ t # target

RkInv == Rk!TypeOK /\ RkCached /\ RkUnderway

(* The cut of the step sizes is a number.                                  *)
LEMMA LongestStep == Rk!Longest \in Nat
<1> DEFINE S == Targets \X Targets
           T == {Rk!Abs(a - b) : a, b \in Targets}
           D == [p \in S |-> Rk!Abs(p[1] - p[2])]
<1>1. \A p \in S : p = <<p[1], p[2]>> /\ p[1] \in Targets /\ p[2] \in Targets
  OBVIOUS
<1>2. \A a, b \in Targets : <<a, b>> \in S /\ D[<<a, b>>] = Rk!Abs(a - b)
  OBVIOUS
<1>3. \A a, b \in Targets : Rk!Abs(a - b) \in Nat /\ Rk!Abs(a - b) \in T
  BY BdfAssumption DEF Rk!Abs
<1>4. D \in [S -> T]
  BY <1>1, <1>3
<1>5. ASSUME NEW d \in T PROVE \E a, b \in Targets : d = Rk!Abs(a - b)
  OBVIOUS
<1>6. IsFiniteSet(S)
  BY SteppersAssumption, FS_Product, Zenon
<1>7. T \subseteq Nat /\ T # {}
  <2>1. PICK a \in Targets : TRUE
    BY SteppersAssumption
  <2>2. Rk!Abs(a - a) \in T
    BY <1>3
  <2> HIDE DEF T
  <2> QED BY <1>3, <1>5, <2>2
<1>13. ASSUME NEW d \in T PROVE \E p \in S : D[p] = d
  <2>1. PICK a, b \in Targets : d = Rk!Abs(a - b)
    BY <1>5
  <2> HIDE DEF D, S
  <2>3. <<a, b>> \in S
    BY <1>2
  <2>4. D[<<a, b>>] = Rk!Abs(a - b)
    BY <1>2
  <2>2. <<a, b>> \in S /\ D[<<a, b>>] = d
    BY <2>1, <2>3, <2>4
  <2> QED BY <2>2
<1> HIDE DEF D, S, T
<1>8. D \in Surjection(S, T)
  BY <1>4, <1>13 DEF Surjection
<1>9. IsFiniteSet(T)
  BY <1>6, <1>8, FS_Surjection, Zenon
<1>10. PICK m \in T : \A k \in T : k <= m
  BY <1>7, <1>9, GreatestOfFinite
<1>11. Rk!Max(T) \in T
  BY <1>7, <1>10 DEF Rk!Max
<1>12. Rk!Max(T) \in Nat
  BY <1>7, <1>11
<1> QED BY <1>12 DEF Rk!Longest, T

(* The step that is tried, and what the controller makes of it.            *)
LEMMA RkSizes ==
  ASSUME Rk!TypeOK
  PROVE  /\ Rk!Size \in 0..Rk!Longest /\ Rk!Size <= Exprb!Abs(target - t)
         /\ Rk!Grown(Rk!Size) \cup {Rk!Size} \subseteq 0..Rk!Longest
         /\ Rk!Smaller \subseteq 0..Rk!Longest
         /\ Rk!h = Exprb!Sign(target - t) * Rk!Size
<1>1. Rk!Size \in 0..Rk!Longest /\ Rk!Size <= Exprb!Abs(target - t)
  BY LongestStep DEF Rk!Size, Rk!Span, Rk!Least, Rk!Abs, Exprb!Abs, Rk!TypeOK
<1>2. ASSUME NEW size \in 0..Rk!Longest PROVE Rk!Grown(size) \subseteq 0..Rk!Longest
  <2>1. ASSUME NEW s \in Nat PROVE Rk!Least(Rk!Longest, s) \in 0..Rk!Longest
    BY LongestStep DEF Rk!Least
  <2>2. PICK hi \in Nat : Rk!Grown(size) = {Rk!Least(Rk!Longest, s) : s \in size..hi}
    <3>1. 1 \in Nat /\ 5 * size \in Nat
      BY LongestStep
    <3> QED BY <3>1 DEF Rk!Grown
  <2>3. size..hi \subseteq Nat
    BY LongestStep
  <2> QED BY <2>1, <2>2, <2>3
<1>3. Rk!Smaller \subseteq 0..Rk!Longest
  <2>1. ASSUME NEW s \in Rk!Shrunk(Rk!Size), s < Rk!Size, s > 0 PROVE s \in 0..Rk!Longest
    BY <1>1, <2>1, LongestStep DEF Rk!Shrunk
  <2> QED BY <2>1 DEF Rk!Smaller
<1>4. Rk!h = Exprb!Sign(target - t) * Rk!Size
  BY DEF Rk!h, Rk!Sign, Rk!Span, Exprb!Sign
<1> QED BY <1>1, <1>2, <1>3, <1>4

(* A new handle has no derivative.                                         *)
LEMMA Rk_Begins == Rk!Init => RkInv
<1> SUFFICES ASSUME Rk!Init PROVE RkInv
  OBVIOUS
<1>1. t \in Int /\ next_step \in 0..Rk!Longest
  BY BdfAssumption, LongestStep DEF Rk!Init, Rk!Least
<1>0. single \in BOOLEAN /\ have_f \in BOOLEAN
  BY Zenon DEF Rk!Init
<1>2. Rk!TypeOK
  BY <1>0, <1>1, BdfAssumption DEF Rk!Init, Rk!TypeOK
<1> QED BY <1>2 DEF Rk!Init, RkInv, RkCached, RkUnderway, Rk!BaseIsCurrent

(* Between calls the caller may be anywhere.                               *)
LEMMA Rk_Called ==
  ASSUME RkInv,
         \/ \E g \in Targets, one \in BOOLEAN : Rk!Call(g, one)
         \/ \E from \in Targets, other \in {0, 1} : Rk!Restart(from, other)
  PROVE  RkInv'
<1> USE BdfAssumption DEF RkInv, Rk!cache
<1>1. ASSUME NEW g \in Targets, NEW one \in BOOLEAN, Rk!Call(g, one) PROVE RkInv'
  <2>1. Rk!TypeOK'
    BY <1>1 DEF Rk!Call, Rk!TypeOK
  <2> QED BY <1>1, <2>1 DEF Rk!Call, RkCached, RkUnderway, Rk!BaseIsCurrent
<1>2. ASSUME NEW from \in Targets, NEW other \in {0, 1}, Rk!Restart(from, other) PROVE RkInv'
  <2>1. Rk!TypeOK'
    BY <1>2 DEF Rk!Restart, Rk!TypeOK
  <2> QED BY <1>2, <2>1 DEF Rk!Restart, RkCached, RkUnderway, Rk!BaseIsCurrent
<1> QED BY <1>1, <1>2

(* A trial uses the derivative at its own point, and ends with it.         *)
LEMMA Rk_Stepped == ASSUME RkInv, Rk!Step PROVE RkInv'
<1> USE BdfAssumption DEF RkInv, Rk!args, Rk!cache
<1>1. CASE Rk!Exhausted
  <2>1. Rk!TypeOK'
    BY <1>1 DEF Rk!Exhausted, Rk!TypeOK
  <2> QED BY <1>1, <2>1 DEF Rk!Exhausted, RkCached, RkUnderway, Rk!BaseIsCurrent
<1>2. CASE Rk!Begin
  <2>1. ~have_f
    BY <1>2 DEF Rk!Begin, RkCached
  <2>2. f' = curve /\ f_time' = t /\ have_f' = TRUE
    BY <1>2, <2>1 DEF Rk!Begin
  <2>3. Rk!TypeOK'
    BY <1>2, <2>2 DEF Rk!Begin, Rk!TypeOK
  <2> QED BY <1>2, <2>2, <2>3 DEF Rk!Begin, RkCached, RkUnderway, Rk!BaseIsCurrent
<1>3. CASE Rk!Retry
  <2>1. next_step' \in 0..Rk!Longest
    BY <1>3, RkSizes DEF Rk!Retry
  <2>2. Rk!TypeOK'
    BY <1>3, <2>1 DEF Rk!Retry, Rk!TypeOK
  <2> QED BY <1>3, <2>2 DEF Rk!Retry, RkCached, RkUnderway, Rk!BaseIsCurrent
<1>4. CASE Rk!Accept
  <2>1. next_step' \in 0..Rk!Longest
    BY <1>4, RkSizes DEF Rk!Accept
  <2>2. t \in Int /\ target \in Int /\ t # target /\ y = t /\ status = "OK" /\ accepted \in Nat
        /\ accepted < MaxSteps
    BY <1>4 DEF Rk!Accept, Rk!TypeOK, RkUnderway
  <2>3. t' \in Int /\ y' = t'
    BY <1>4, <2>2, RkSizes, StepToward DEF Rk!Accept
  <2>5. single' \in BOOLEAN /\ have_f' \in BOOLEAN
    <3>1. single \in BOOLEAN /\ single' = single
      BY <1>4 DEF Rk!Accept, Rk!TypeOK
    <3> QED BY <1>4, <3>1, Zenon DEF Rk!Accept, Rk!Drop
  <2>4. Rk!TypeOK'
    BY <1>4, <2>1, <2>2, <2>3, <2>5 DEF Rk!Accept, Rk!Drop, Rk!TypeOK
  <2> QED BY <1>4, <2>2, <2>4 DEF Rk!Accept, Rk!Drop, RkCached, RkUnderway, Rk!BaseIsCurrent
<1> QED BY <1>1, <1>2, <1>3, <1>4 DEF Rk!Step

-----------------------------------------------------------------------------
(* The program that drives one of them.                                    *)

\* each with its own invariant; only the handle is asked for single steps
SystemInv ==
  /\ stepper = "bdf" => IInv /\ RunningIsOK
  /\ stepper = "exprb" => ExprbInv
  /\ stepper = "rk8pd" => RkInv
  /\ stepper = "newton" => NewtonInv /\ t \in Int /\ target \in Int /\ status = "OK"
  /\ stepper # "rk8pd" => single = FALSE

(* Whichever integrator is driven, it starts within its invariant.         *)
LEMMA System_Begins == SystemInit => SystemInv
<1> SUFFICES ASSUME SystemInit PROVE SystemInv
  OBVIOUS
<1>1. ASSUME stepper = "bdf", Init, NoRk PROVE SystemInv
  <2>1. RunningIsOK
    BY <1>1 DEF Init, RunningIsOK
  <2>2. single = FALSE
    BY <1>1 DEF NoRk
  <2> QED BY <1>1, <2>1, <2>2, IInvInit, BdfAssumption DEF SystemInv
<1>2. ASSUME stepper = "exprb", Exprb!Init, NoRk PROVE SystemInv
  BY <1>2, Exprb_Begins DEF SystemInv, NoRk
<1>3. ASSUME stepper = "rk8pd", Rk!Init PROVE SystemInv
  BY <1>3, Rk_Begins DEF SystemInv
<1>4. ASSUME stepper = "newton", Newton!Init, NoRk, t = 0, target = 0, status = "OK" PROVE SystemInv
  BY <1>4, Newton_Begins DEF SystemInv, NoRk
<1> QED BY <1>1, <1>2, <1>3, <1>4 DEF SystemInit

(* The step of one integrator leaves the others alone.                     *)
LEMMA System_Kept == SystemInv /\ [SystemNext]_allVars => SystemInv'
<1> SUFFICES ASSUME SystemInv, [SystemNext]_allVars PROVE SystemInv'
  OBVIOUS
<1>1. CASE UNCHANGED allVars
  <2> USE <1>1 DEF SystemInv, allVars, OfExprb, OfRk, OfNewton, OfBdf, Shared
  <2>1. stepper = "bdf" => IInv' /\ RunningIsOK'
    <3>1. UNCHANGED vars
      BY DEF vars, args, state, report
    <3>2. IInv => IInv'
      BY <3>1, IInvNext, BdfAssumption
    <3> QED BY <3>2 DEF RunningIsOK
  <2>2. stepper = "exprb" => ExprbInv'
    BY DEF ExprbInv, ExprbBase, ExprbUnderway, Exprb!TypeOK, Exprb!AttemptsBounded, Exprb!Attempts
  <2>3. stepper = "rk8pd" => RkInv'
    BY DEF RkInv, RkCached, RkUnderway, Rk!TypeOK, Rk!BaseIsCurrent
  <2>4. stepper = "newton" => NewtonInv'
    BY DEF NewtonInv, NewtonPlaced, NewtonCounted, Newton!TypeOK, Newton!DerivativeOfSolution,
       Newton!SolvedIsHonest, Newton!EvaluationsBounded
  <2> QED BY <2>1, <2>2, <2>3, <2>4
<1>2. ASSUME stepper = "bdf", stepper' = "bdf", single' = single, Next PROVE SystemInv'
  <2>1. IInv /\ RunningIsOK /\ single = FALSE
    BY <1>2 DEF SystemInv
  <2>2. IInv'
    BY <1>2, <2>1, IInvNext, BdfAssumption
  <2>3. RunningIsOK'
    BY <1>2, <2>1, <2>2, RunningInductive, BdfAssumption DEF IInv
  <2> QED BY <1>2, <2>1, <2>2, <2>3 DEF SystemInv
<1>3. ASSUME stepper = "exprb", stepper' = "exprb", single' = single, ExprbInv => ExprbInv'
      PROVE  SystemInv'
  BY <1>3 DEF SystemInv
<1>4. ASSUME stepper = "rk8pd", stepper' = "rk8pd", RkInv => RkInv' PROVE SystemInv'
  BY <1>4 DEF SystemInv
<1>5. ASSUME stepper = "newton", Newton!Next, UNCHANGED <<stepper, OfRk, Shared>> PROVE SystemInv'
  <2>1. NewtonInv'
    BY <1>5, Newton_Kept DEF SystemInv
  <2> QED BY <1>5, <2>1 DEF SystemInv, OfRk, Shared
<1>6. CASE SystemNext
  <2>1. ASSUME stepper = "bdf", BdfStep \/ \E g \in Targets, adapt \in BOOLEAN : Call(g, adapt),
               UNCHANGED <<stepper, OfRk>>
        PROVE  SystemInv'
    BY <1>2, <2>1 DEF BdfStep, Next, OfRk
  <2>2. ASSUME stepper = "exprb", ExprbStep PROVE SystemInv'
    BY <1>3, <2>2, Exprb_Stepped DEF ExprbStep, OfRk
  <2>3. ASSUME stepper = "exprb", UNCHANGED <<stepper, OfRk>>, NEW g \in Targets,
               NEW elsewhere \in Targets, NEW adapt \in BOOLEAN, Exprb!Call(g, adapt, elsewhere)
        PROVE  SystemInv'
    BY <1>3, <2>3, Exprb_Called DEF OfRk
  <2>4. ASSUME stepper = "rk8pd", UNCHANGED BesideRk,
               \/ Rk!Step
               \/ \E g \in Targets, one \in BOOLEAN : Rk!Call(g, one)
               \/ \E from \in Targets, other \in {0, 1} : Rk!Restart(from, other)
        PROVE  SystemInv'
    BY <1>4, <2>4, Rk_Called, Rk_Stepped DEF BesideRk
  <2> QED BY <1>5, <1>6, <2>1, <2>2, <2>3, <2>4 DEF SystemNext, RkStep, BdfStep
<1> QED BY <1>1, <1>6

(* The invariants of the integrators hold in every program.                *)
THEOREM Invariant == SystemSpec => []SystemInv
BY System_Begins, System_Kept, PTL DEF SystemSpec

(* The stages start from the right-hand side and the Jacobian of the       *)
(* endpoint, whatever was reused, retried, or changed by the caller between *)
(* calls; in a solve everything belongs to the iterate, and success is no  *)
(* leftover of a failure.                                                  *)
THEOREM Current == SystemSpec => []BaseIsCurrent
<1>1. SystemInv => BaseIsCurrent
  <2> SUFFICES ASSUME SystemInv PROVE BaseIsCurrent
    OBVIOUS
  <2>1. stepper = "exprb" => Exprb!BaseIsCurrent
    BY DEF SystemInv, ExprbInv, ExprbBase, Exprb!BaseIsCurrent, Exprb!Stages
  <2>2. stepper = "rk8pd" => Rk!BaseIsCurrent
    BY DEF SystemInv, RkInv, RkCached
  <2>3. stepper = "newton" => Newton!EquationConsistent /\ Newton!DerivativeOfSolution /\ Newton!SolvedIsHonest
    BY DEF SystemInv, NewtonInv, NewtonPlaced, Newton!EquationConsistent
  <2> QED BY <2>1, <2>2, <2>3 DEF BaseIsCurrent
<1> QED BY <1>1, Invariant, PTL

(* max_steps bounds the attempts of a call, an evaluation that succeeded is *)
(* not repeated at the same endpoint, and a solve makes at most its         *)
(* iterations times its backtracks.                                         *)
THEOREM Bounded == SystemSpec => []WorkBounded
<1>1. SystemInv => WorkBounded
  <2> SUFFICES ASSUME SystemInv PROVE WorkBounded
    OBVIOUS
  <2>1. TypesOK
    BY DEF SystemInv, IInv, ExprbInv, RkInv, NewtonInv, TypesOK
  <2>2. stepper = "bdf" => AttemptsBounded
    BY DEF SystemInv, IInv
  <2>3. stepper = "exprb" => Exprb!AttemptsBounded /\ Exprb!BaseIsReused
    <3>1. ASSUME ExprbBase, Exprb!TypeOK PROVE Exprb!BaseIsReused
      BY <3>1 DEF ExprbBase, Exprb!TypeOK, Exprb!BaseIsReused
    <3> QED BY <3>1 DEF SystemInv, ExprbInv, ExprbUnderway
  <2>4. stepper = "newton" => Newton!EvaluationsBounded
    BY DEF SystemInv, NewtonInv, NewtonCounted
  <2> QED BY <2>1, <2>2, <2>3, <2>4 DEF WorkBounded
<1> QED BY <1>1, Invariant, PTL

-----------------------------------------------------------------------------
(* All of them implement the contract of a stepper.                        *)

(* What the caller of each of them sees.                                   *)
LEMMA Outcomes ==
  ASSUME SystemInv
  PROVE  /\ stepper = "bdf" => Outcome = IF running THEN "running" ELSE status
         /\ stepper = "exprb" => Outcome = IF pc # "idle" THEN "running" ELSE status
         /\ stepper = "rk8pd" =>
              Outcome = IF pc # "idle" THEN "running"
                        ELSE IF single /\ status = "OK" /\ t # target THEN "paused" ELSE status
         /\ stepper = "newton" => Outcome = "OK"
<1>1. CASE stepper = "bdf"
  <2>1. single = FALSE
    BY <1>1 DEF SystemInv
  <2> QED BY <1>1, <2>1, Zenon DEF Outcome, Busy
<1>2. CASE stepper = "exprb"
  <2>1. single = FALSE
    BY <1>2 DEF SystemInv
  <2> QED BY <1>2, <2>1, Zenon DEF Outcome, Busy
<1>3. CASE stepper = "rk8pd"
  BY <1>3, Zenon DEF Outcome, Busy
<1>4. CASE stepper = "newton"
  <2>1. single = FALSE /\ status = "OK"
    BY <1>4 DEF SystemInv
  <2> QED BY <1>4, <2>1, Zenon DEF Outcome, Busy
<1> QED BY <1>1, <1>2, <1>3, <1>4

(* exprb_integrate_to, step by step.                                       *)
LEMMA Exprb_Refines ==
  ASSUME ExprbInv, NEW before, NEW after,
         before = IF pc # "idle" THEN "running" ELSE status,
         after = IF pc' # "idle" THEN "running" ELSE status',
         Exprb!Step
  PROVE  \/ UNCHANGED <<t, target>> /\ after = before
         \/ before = "running" /\ after = "CONVERGENCE_ERROR" /\ UNCHANGED <<t, target>>
         \/ /\ before = "running" /\ target' = target
            /\ t' = t \/ Contract!Toward(t, t', target)
            /\ after = IF t' = target THEN "OK" ELSE "running"
<1> USE DEF Exprb!args, Exprb!state, Exprb!base
<1>0. pc # "idle" => status = "OK" /\ t # target
  BY DEF ExprbInv, ExprbUnderway
<1>1. CASE Exprb!Exhausted \/ Exprb!Underflow
  BY <1>1 DEF Exprb!Exhausted, Exprb!Underflow, Exprb!Failed
<1>2. CASE Exprb!Begin \/ Exprb!EvaluateBase \/ Exprb!Linearize \/ Exprb!RejectError
  BY <1>2 DEF Exprb!Begin, Exprb!EvaluateBase, Exprb!Linearize, Exprb!RejectError, Exprb!Stages
<1>3. ASSUME NEW failure_, Exprb!Reject(failure_), pc = "step"
      PROVE  UNCHANGED <<t, target>> /\ after = before
  BY <1>3 DEF Exprb!Reject
<1>4. CASE Exprb!BaseFails \/ Exprb!StagesFail \/ \E somewhere \in Targets : Exprb!LinearizeFails(somewhere)
  BY <1>3, <1>4 DEF Exprb!BaseFails, Exprb!StagesFail, Exprb!Stages, Exprb!LinearizeFails
<1>5. CASE Exprb!Accept
  <2>1. t' = t + Exprb!h /\ pc = "step" /\ UNCHANGED <<target, status>>
    BY <1>5 DEF Exprb!Accept, Exprb!Stages
  <2>2. t \in Int /\ target \in Int /\ t # target /\ status = "OK"
    BY <1>0, <2>1 DEF ExprbInv, Exprb!TypeOK
  <2>3. /\ t' = t \/ Contract!Toward(t, t', target)
        /\ Exprb!Reached <=> t' = target
    BY <2>1, <2>2, ExprbSizes, StepToward DEF Exprb!h, Exprb!Reached, ExprbInv
  <2>4. pc' = IF t' = target THEN "idle" ELSE "head"
    BY <1>5, <2>3 DEF Exprb!Accept
  <2> QED BY <2>1, <2>2, <2>3, <2>4
<1> QED BY <1>1, <1>2, <1>4, <1>5 DEF Exprb!Step

(* rk8pd_evolve_apply, step by step.                                       *)
LEMMA Rk_Refines ==
  ASSUME RkInv, NEW before, NEW after,
         before = IF pc # "idle" THEN "running"
                  ELSE IF single /\ status = "OK" /\ t # target THEN "paused" ELSE status,
         after = IF pc' # "idle" THEN "running"
                 ELSE IF single' /\ status' = "OK" /\ t' # target' THEN "paused" ELSE status',
         Rk!Step
  PROVE  \/ UNCHANGED <<t, target>> /\ after = before
         \/ before = "running" /\ after = "CONVERGENCE_ERROR" /\ UNCHANGED <<t, target>>
         \/ /\ before = "running" /\ target' = target
            /\ t' = t \/ Contract!Toward(t, t', target)
            /\ after \in IF t' = target THEN {"OK"} ELSE {"running", "paused"}
<1> USE DEF Rk!args
<1>0. pc # "idle" => status = "OK" /\ t # target
  BY DEF RkInv, RkUnderway
<1>1. CASE Rk!Exhausted
  <2>1. pc = "head" /\ pc' = "idle" /\ status' = "CONVERGENCE_ERROR" /\ UNCHANGED <<t, target>>
    BY <1>1 DEF Rk!Exhausted
  <2> QED BY <2>1
<1>2. CASE Rk!Begin \/ Rk!Retry
  <2>1. pc # "idle" /\ pc' # "idle" /\ UNCHANGED <<t, target>>
    BY <1>2 DEF Rk!Begin, Rk!Retry
  <2> QED BY <2>1
<1>3. CASE Rk!Accept
  <2>1. t' = t + Rk!h /\ pc = "trial" /\ UNCHANGED <<target, status, single>>
    BY <1>3 DEF Rk!Accept
  <2>2. t \in Int /\ target \in Int /\ t # target /\ status = "OK" /\ single \in BOOLEAN
    BY <1>0, <2>1 DEF RkInv, Rk!TypeOK
  <2>3. t' = t \/ Contract!Toward(t, t', target)
    BY <2>1, <2>2, RkSizes, StepToward DEF RkInv
  <2>4. pc' = IF single \/ t' = target THEN "idle" ELSE "head"
    BY <1>3 DEF Rk!Accept
  <2>5. after \in IF t' = target THEN {"OK"} ELSE {"running", "paused"}
    <3>1. CASE single
      BY <2>1, <2>2, <2>4, <3>1
    <3>2. CASE ~single
      BY <2>1, <2>2, <2>4, <3>2
    <3> QED BY <3>1, <3>2
  <2> QED BY <2>1, <2>3, <2>5
<1> QED BY <1>1, <1>2, <1>3 DEF Rk!Step

(* Every step of the program is a step of the contract, or changes nothing *)
(* the contract speaks of.                                                 *)
LEMMA System_Refines ==
  ASSUME SystemInv, SystemInv', [SystemNext]_allVars
  PROVE  [Contract!Next]_<<t, target, Outcome>>
<1> DEFINE Kept == UNCHANGED <<t, target>> /\ Outcome' = Outcome
           Fails == Outcome = "running" /\ Outcome' = "CONVERGENCE_ERROR" /\ UNCHANGED <<t, target>>
           Moves == /\ Outcome = "running" /\ target' = target
                    /\ t' = t \/ Contract!Toward(t, t', target)
                    /\ Outcome' \in IF t' = target THEN {"OK"} ELSE {"running", "paused"}
<1>0. Kept \/ Fails \/ Moves => [Contract!Next]_<<t, target, Outcome>>
  BY DEF Contract!Next, Contract!Advance, Contract!GiveUp
<1>1. CASE UNCHANGED allVars
  <2>1. Outcome' = Outcome
    BY <1>1 DEF Outcome, Busy, allVars, OfBdf, OfRk, Shared
  <2> QED BY <1>0, <1>1, <2>1 DEF allVars, Shared
<1>2. ASSUME stepper = "bdf", stepper' = "bdf", Next PROVE [Contract!Next]_<<t, target, Outcome>>
  <2>1. TypeOK /\ TypeOK' /\ RunningIsOK
    BY <1>2 DEF SystemInv, IInv
  <2>2. [BdfContract!Next]_<<t, target, IF running THEN "running" ELSE status>>
    BY <1>2, <2>1, StepRefines, BdfAssumption
  <2>3. /\ Outcome = IF running THEN "running" ELSE status
        /\ Outcome' = IF running' THEN "running" ELSE status'
    <3>1. single = FALSE /\ single' = FALSE
      BY <1>2 DEF SystemInv
    <3> QED BY <1>2, <3>1, Zenon DEF Outcome, Busy
  <2> QED BY <2>2, <2>3 DEF BdfContract!Next, BdfContract!Call, BdfContract!Restart,
       BdfContract!Advance, BdfContract!GiveUp, BdfContract!Toward, Contract!Next, Contract!Call,
       Contract!Restart, Contract!Advance, Contract!GiveUp, Contract!Toward
<1>3. ASSUME stepper = "exprb", stepper' = "exprb"
      PROVE  /\ ExprbInv /\ Outcome = IF pc # "idle" THEN "running" ELSE status
             /\ Outcome' = IF pc' # "idle" THEN "running" ELSE status'
  <2>1. single = FALSE /\ single' = FALSE /\ ExprbInv
    BY <1>3 DEF SystemInv
  <2> QED BY <1>3, <2>1, Zenon DEF Outcome, Busy
<1>4. ASSUME stepper = "exprb", ExprbStep PROVE Kept \/ Fails \/ Moves
  <2>1. stepper' = "exprb" /\ Exprb!Step
    BY <1>4 DEF ExprbStep
  <2>2. \/ UNCHANGED <<t, target>> /\ Outcome' = Outcome
        \/ Outcome = "running" /\ Outcome' = "CONVERGENCE_ERROR" /\ UNCHANGED <<t, target>>
        \/ /\ Outcome = "running" /\ target' = target
           /\ t' = t \/ Contract!Toward(t, t', target)
           /\ Outcome' = IF t' = target THEN "OK" ELSE "running"
    BY <1>3, <1>4, <2>1, Exprb_Refines
  <2> QED BY <2>2
<1>5. ASSUME stepper = "exprb", stepper' = "exprb", NEW g \in Targets, NEW elsewhere \in Targets,
             NEW adapt \in BOOLEAN, Exprb!Call(g, adapt, elsewhere)
      PROVE  Contract!Call
  <2>1. g \in Int /\ t' = t /\ target' = g /\ status' = "OK" /\ pc = "idle"
        /\ pc' = IF g = t THEN "idle" ELSE "head"
    BY <1>5, BdfAssumption DEF Exprb!Call, Exprb!state
  <2>2. Outcome # "running"
    BY <1>3, <1>5, <2>1 DEF ExprbInv, Exprb!TypeOK
  <2> QED BY <1>3, <1>5, <2>1, <2>2 DEF Contract!Call
<1>6. ASSUME stepper = "rk8pd", stepper' = "rk8pd"
      PROVE  /\ RkInv /\ RkInv'
             /\ Outcome = IF pc # "idle" THEN "running"
                          ELSE IF single /\ status = "OK" /\ t # target THEN "paused" ELSE status
             /\ Outcome' = IF pc' # "idle" THEN "running"
                           ELSE IF single' /\ status' = "OK" /\ t' # target' THEN "paused" ELSE status'
  <2>1. RkInv /\ RkInv'
    BY <1>6 DEF SystemInv
  <2> QED BY <1>6, <2>1, Zenon DEF Outcome, Busy
<1>7. ASSUME stepper = "rk8pd", RkStep PROVE Kept \/ Fails \/ Moves
  <2>1. stepper' = "rk8pd" /\ Rk!Step
    BY <1>7 DEF RkStep, BesideRk
  <2> QED BY <1>6, <1>7, <2>1, Rk_Refines
<1>8. ASSUME stepper = "rk8pd", stepper' = "rk8pd", NEW g \in Targets, NEW one \in BOOLEAN,
             Rk!Call(g, one)
      PROVE  Contract!Call
  <2>1. g \in Int /\ t' = t /\ target' = g /\ status' = "OK" /\ pc = "idle"
        /\ pc' = IF g = t THEN "idle" ELSE "head"
    BY <1>8, BdfAssumption DEF Rk!Call
  <2>2. Outcome # "running"
    BY <1>6, <1>8, <2>1 DEF RkInv, Rk!TypeOK
  <2> QED BY <1>6, <1>8, <2>1, <2>2 DEF Contract!Call
<1>9. ASSUME stepper = "rk8pd", stepper' = "rk8pd", NEW from \in Targets, NEW other \in {0, 1},
             Rk!Restart(from, other)
      PROVE  Contract!Restart
  <2>1. from \in Int /\ t' = from /\ target' = from /\ status' = "OK" /\ pc = "idle" /\ pc' = pc
    BY <1>9, BdfAssumption DEF Rk!Restart
  <2>2. Outcome # "running"
    BY <1>6, <1>9, <2>1 DEF RkInv, Rk!TypeOK
  <2> QED BY <1>6, <1>9, <2>1, <2>2 DEF Contract!Restart
<1>10. ASSUME stepper = "newton", UNCHANGED <<stepper, OfRk, Shared>> PROVE Kept
  <2>1. single = FALSE /\ single' = FALSE
    BY <1>10 DEF SystemInv, OfRk
  <2>2. UNCHANGED <<t, target, status>>
    BY <1>10 DEF Shared
  <2>3. Outcome = status /\ Outcome' = status'
    BY <1>10, <2>1, Zenon DEF Outcome, Busy
  <2> QED BY <2>2, <2>3
<1> HIDE DEF Kept, Fails, Moves
<1>11. CASE SystemNext
  <2>1. ASSUME stepper = "bdf", stepper' = stepper, Next PROVE [Contract!Next]_<<t, target, Outcome>>
    BY <1>2, <2>1
  <2>2. ASSUME stepper = "exprb", UNCHANGED <<stepper, derivative, OfBdf, OfRk, OfNewton>>,
               \E g, elsewhere \in Targets, adapt \in BOOLEAN : Exprb!Call(g, adapt, elsewhere)
        PROVE  Contract!Call
    BY <1>5, <2>2
  <2>3. ASSUME stepper = "rk8pd", UNCHANGED BesideRk,
               \E g \in Targets, one \in BOOLEAN : Rk!Call(g, one)
        PROVE  Contract!Call
    BY <1>8, <2>3 DEF BesideRk
  <2>4. ASSUME stepper = "rk8pd", UNCHANGED BesideRk,
               \E from \in Targets, other \in {0, 1} : Rk!Restart(from, other)
        PROVE  Contract!Restart
    BY <1>9, <2>4 DEF BesideRk
  <2>5. Contract!Call \/ Contract!Restart => [Contract!Next]_<<t, target, Outcome>>
    BY DEF Contract!Next
  <2>6. CASE stepper = "bdf"
    BY <1>11, <2>1, <2>6 DEF SystemNext, BdfStep, Next
  <2>7. CASE stepper = "exprb"
    BY <1>0, <1>4, <1>11, <2>2, <2>5, <2>7 DEF SystemNext
  <2>8. CASE stepper = "rk8pd"
    BY <1>0, <1>7, <1>11, <2>3, <2>4, <2>5, <2>8 DEF SystemNext
  <2>9. CASE stepper = "newton"
    BY <1>0, <1>10, <1>11, <2>9 DEF SystemNext
  <2> QED BY <1>11, <2>6, <2>7, <2>8, <2>9 DEF SystemNext
<1> QED BY <1>1, <1>11

(* What the caller sees of bdf_integrate_to, exprb_integrate_to and        *)
(* rk8pd_evolve_apply: every accepted step moves toward the target and not *)
(* past it, success is reported at the target or after the one step asked  *)
(* for, and the last endpoint is kept on failure.                          *)
THEOREM Contracted == SystemSpec => ContractKept
<1>1. SystemInit => Contract!Init
  <2> SUFFICES ASSUME SystemInit PROVE Contract!Init
    OBVIOUS
  <2>1. SystemInv
    BY System_Begins
  <2>2. t \in Int /\ target = t /\ status = "OK"
    <3>1. (t \in Targets \/ t = 0) /\ target = t /\ status = "OK"
      BY DEF SystemInit, Init, Exprb!Init, Rk!Init
    <3>2. t \in Targets \/ t = 0
      BY <3>1
    <3>3. Targets \subseteq Int
      BY BdfAssumption, Zenon
    <3>4. t \in Int
      <4>1. CASE t \in Targets
        BY <3>3, <4>1, Zenon
      <4>2. CASE t = 0
        BY <4>2
      <4> QED BY <3>2, <4>1, <4>2
    <3> QED BY <3>1, <3>4
  <2>3. Outcome = "OK"
    <3>1. CASE stepper = "bdf"
      BY <2>1, <2>2, <3>1, Outcomes DEF SystemInit, Init
    <3>2. CASE stepper = "exprb"
      BY <2>1, <2>2, <3>2, Outcomes DEF SystemInit, Exprb!Init
    <3>3. CASE stepper = "rk8pd"
      BY <2>1, <2>2, <3>3, Outcomes DEF SystemInit, Rk!Init
    <3>4. CASE stepper = "newton"
      BY <2>1, <3>4, Outcomes
    <3> QED BY <3>1, <3>2, <3>3, <3>4 DEF SystemInit
  <2> QED BY <2>2, <2>3 DEF Contract!Init
<1>2. SystemInv /\ SystemInv' /\ [SystemNext]_allVars => [Contract!Next]_<<t, target, Outcome>>
  BY System_Refines
<1> QED BY <1>1, <1>2, Invariant, PTL DEF SystemSpec, ContractKept, Contract!Safe
=============================================================================
