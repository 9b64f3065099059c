------------------------------- MODULE Ddeabm -------------------------------
(***************************************************************************)
(* ddeabm_integrate_to of src/ode/fortnum_ode_ddeabm.f90: calls with one   *)
(* state that step past the point asked for, interpolate back, and may be  *)
(* forbidden to pass tstop.                                                *)
(*                                                                         *)
(* Times are positive integers; fouru*|x| is Gap.  A trial step is judged  *)
(* as a whole here; its coefficients are the subject of DdeabmStep.        *)
(***************************************************************************)
EXTENDS Integers, FiniteSetsExt

CONSTANTS
  Targets,    \* where the caller starts and wants the solution
  Stops,      \* values of tstop
  Gap,        \* fouru*|x|
  Floor,      \* the least starting step, 100*epsilon*|x|
  Longest,    \* the longest step (model bound)
  MaxSteps,   \* max_steps
  Calls       \* calls of ddeabm_integrate_to (model bound)

VARIABLES
  pc,           \* "idle", at the "head" of the loop, in a "trial"
  call, target, \* tout
  init, start,
  t, x, xold, h, delsgn,
  has_tstop, tstop,
  ksteps, ifail,
  how,          \* where y_out came from
  status

point == <<t, x, xold>>
setup == <<call, target, init, delsgn, has_tstop, tstop>>
vars == <<pc, setup, start, point, h, ksteps, ifail, how, status>>

Abs(i) == IF i < 0 THEN -i ELSE i
Sign(i) == IF i < 0 THEN -1 ELSE 1

TypeOK ==
  /\ pc \in {"idle", "head", "trial"}
  /\ call \in 0..Calls /\ target \in Nat /\ init \in 0..2 /\ start \in BOOLEAN
  /\ {t, x, xold, tstop, h} \subseteq Int /\ Abs(h) <= Max({Longest, Floor, Gap})
  /\ delsgn \in {-1, 0, 1} /\ has_tstop \in BOOLEAN
  /\ ksteps \in Nat /\ ifail \in 0..4
  /\ how \in {"none", "initial", "mesh", "interpolated", "extrapolated"}
  /\ status \in {"OK", "DOMAIN_ERROR", "CONVERGENCE_ERROR"}

\* ddeabm_init.
Init ==
  /\ pc = "idle" /\ call = 0 /\ init = 0 /\ start = TRUE
  /\ t \in Targets /\ x = t /\ xold = t /\ target = t
  /\ h = 0 /\ delsgn = 0 /\ has_tstop = FALSE /\ tstop = 0
  /\ ksteps = 0 /\ ifail = 0 /\ how = "none" /\ status = "OK"

\* tout lies beyond tstop, or on the other side.
Conflict(g) ==
  has_tstop' /\ (Sign(g - t) # Sign(tstop' - t) \/ Abs(g - t) > Abs(tstop' - t))

\* A call that cannot be continued: no way to go, or back.
Refused(g) ==
  \/ Conflict(g)
  \/ init # 0 /\ t = g
  \/ init = 2 /\ delsgn * (g - t) < 0

\* ddeabm_set_tstop.
SetStop(stop) ==
  IF stop = {} THEN UNCHANGED <<has_tstop, tstop>>
  ELSE has_tstop' = TRUE /\ tstop' \in stop

Call(g, stop) ==
  /\ pc = "idle" /\ call < Calls
  /\ call' = call + 1 /\ target' = g
  /\ SetStop(stop)
  /\ \/ /\ Refused(g)
        /\ status' = "DOMAIN_ERROR" /\ how' = "none"
        /\ UNCHANGED <<pc, init, x, h, delsgn>>
     \/ /\ ~Refused(g) /\ init = 0 /\ t = g
        /\ init' = 1 /\ status' = "OK" /\ how' = "initial"
        /\ UNCHANGED <<pc, x, h, delsgn>>
     \/ /\ ~Refused(g) /\ t # g
        /\ pc' = "head" /\ init' = 2 /\ status' = "OK" /\ how' = "none"
        /\ IF init = 2 THEN UNCHANGED <<x, h, delsgn>>
           ELSE /\ x' = t /\ delsgn' = Sign(g - t)
                /\ h' = Sign(g - t) * Min({Longest, Max({Gap, Abs(g - t)})})
  /\ UNCHANGED <<start, t, xold, ksteps, ifail>>

-----------------------------------------------------------------------------

\* The mesh top lies at tout or beyond.
Passed == Abs(x - t) >= Abs(target - t)

Return(code, from) ==
  pc' = "idle" /\ status' = code /\ how' = from

\* The Adams polynomial is evaluated at tout.
Interpolate ==
  /\ pc = "head" /\ Passed
  /\ t' = target
  /\ Return("OK", "interpolated")
  /\ UNCHANGED <<setup, start, x, xold, h, ksteps, ifail>>

AtStop == has_tstop /\ Abs(tstop - x) < Gap

\* Too close to tstop for a step.
Extrapolate ==
  /\ pc = "head" /\ ~Passed /\ AtStop
  /\ t' = target
  /\ Return("OK", "extrapolated")
  /\ UNCHANGED <<setup, start, x, xold, h, ksteps, ifail>>

\* The ways a call ends early: the current point is the mesh top.
GiveUp(code) == Return(code, "mesh") /\ t' = x

Exhausted ==
  /\ pc = "head" /\ ~Passed /\ ~AtStop /\ ksteps > MaxSteps
  /\ GiveUp("CONVERGENCE_ERROR")
  /\ UNCHANGED <<setup, start, x, xold, h, ksteps, ifail>>

Ready == pc = "head" /\ ~Passed /\ ~AtStop /\ ksteps <= MaxSteps

\* Slip: the step is not cut to tstop.
ClippedSlip == h

\* The step, cut to tstop.
Clipped ==
  IF has_tstop THEN Sign(h) * Min({Abs(h), Abs(tstop - x)}) ELSE h

\* A component is zero and its weight relative.
NoWeight ==
  /\ Ready
  /\ h' = Clipped
  /\ GiveUp("DOMAIN_ERROR")
  /\ UNCHANGED <<setup, start, x, xold, ksteps, ifail>>

\* Block 0: the step or the tolerance is below roundoff.
Impossible ==
  /\ Ready
  /\ h' \in {Clipped, Sign(h) * Gap} /\ (Abs(Clipped) < Gap => h' = Sign(h) * Gap)
  /\ (h' # Clipped => Abs(Clipped) < Gap)
  /\ GiveUp("CONVERGENCE_ERROR")
  /\ UNCHANGED <<setup, start, x, xold, ksteps, ifail>>

\* hstart chooses the first step within the interval, but not below its floor.
Begin ==
  /\ Ready /\ Abs(Clipped) >= Gap
  /\ pc' = "trial" /\ ifail' = 0
  /\ start' = FALSE
  /\ h' \in IF start THEN {Sign(h) * Max({Floor, s}) : s \in 1..Abs(Clipped)}
                     ELSE {Clipped}
  /\ UNCHANGED <<setup, point, ksteps, how, status>>

\* err > eps: xold stays behind at x; the step is halved, or made a smaller
\* part after three failures.
Reject ==
  /\ pc = "trial"
  /\ ksteps' = ksteps + 1 /\ ifail' = Min({4, ifail + 1})
  /\ xold' = x
  /\ \E s \in 0..Abs(h) \div 2 :
       /\ ifail' <= 3 => s = Abs(h) \div 2
       /\ h' = Sign(h) * Max({Gap, s})
       /\ IF s >= Gap THEN UNCHANGED <<pc, t, how, status>>
                      ELSE GiveUp("CONVERGENCE_ERROR")
  /\ UNCHANGED <<setup, start, x>>

\* The next step: twice the length, the same, or half to nine tenths of it.
NextSizes(s) ==
  {Min({Longest, 2 * s}), s} \cup {Max({Gap, r}) : r \in (s + 1) \div 2..(9 * s) \div 10}

Accept ==
  /\ pc = "trial"
  /\ ksteps' = ksteps + 1
  /\ xold' = x /\ x' = x + h
  /\ \E s \in NextSizes(Abs(h)) : h' = Sign(h) * s
  /\ pc' = "head" /\ ifail' = 0
  /\ UNCHANGED <<setup, start, t, how, status>>

Step == Interpolate \/ Extrapolate \/ Exhausted \/ NoWeight \/ Impossible
        \/ Begin \/ Reject \/ Accept

Spec == Init /\ [][Step \/ \E g \in Targets, stop \in {{}} \cup {{s} : s \in Stops} : Call(g, stop)]_vars
        /\ WF_vars(Step)

-----------------------------------------------------------------------------
(* Properties. *)

Between(a, b, c) == (a <= b /\ b <= c) \/ (c <= b /\ b <= a)

\* tout is interpolated inside the last completed step.  An extrapolation for
\* tstop goes less than roundoff beyond the mesh; from such a point the way is
\* measured without its sign, and the next may be put twice as far beyond.
InterpolatesInWindow ==
  pc = "head" /\ pc' = "idle" =>
    /\ how' = "interpolated" =>
         \/ Between(xold, t', x)
         \/ (t - x) * delsgn > 0 /\ Abs(t' - x) <= 2 * Abs(t - x)
    /\ how' = "extrapolated" => Abs(t' - x) < Gap

\* No step lands beyond tstop, but for the first one of a state, which hstart
\* makes at least Floor long whatever is left to tstop.
StaysBefore ==
  has_tstop =>
    /\ pc = "head" /\ pc' = "trial" => Between(x, x + h', tstop) \/ (start /\ Abs(h') = Floor)
    /\ pc = "trial" /\ x' # x => Between(x, x', tstop) \/ Abs(x' - x) <= Floor
=============================================================================
