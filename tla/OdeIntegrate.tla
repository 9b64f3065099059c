----------------------------- MODULE OdeIntegrate -----------------------------
(***************************************************************************)
(* ode_integrate of src/ode/fortnum_ode.f90: adaptive Cash-Karp steps, the *)
(* recorded trace and the status, over several calls with one solution     *)
(* object.                                                                 *)
(*                                                                         *)
(* t is an integer, in units of the spacing of the clock; step sizes are   *)
(* in half units, so that t + h is rounded to the nearest clock value,     *)
(* ties to even.  A step of 0 is positive but far below the spacing.       *)
(* States are left out: the trace is its times and signed step sizes.      *)
(***************************************************************************)
EXTENDS Integers, Sequences

CONSTANTS
  Times,      \* start and end times the caller uses
  HMin,       \* problem%hmin in half units, 0 for none
  HMax,       \* problem%hmax in half units
  MaxSteps,   \* problem%max_steps
  Validity,   \* which problems the caller passes: {TRUE} or {TRUE, FALSE}
  Counter,    \* the rejection counter wraps here (2^32 in the code)
  Calls       \* calls with one solution object (model bound)

ASSUME OdeAssumption ==
  /\ Times \subseteq Int
  /\ HMin \in Nat /\ {HMax, MaxSteps, Counter} \subseteq Nat \ {0} /\ Calls \in Nat
  /\ Validity \subseteq BOOLEAN

NaN == -1     \* a step size that is not a number

VARIABLES
  running, call,
  finite,       \* problem%rhs is finite wherever it is evaluated
  t0, t1,       \* problem%t0, problem%t1
  t, h,         \* the loop's time and step size
  restart,      \* first_step or after_reject
  trace,        \* solution%t
  steps,        \* solution%h
  nsteps, nrejected,  \* solution%nsteps, set on return, and solution%nrejected
  status

vars == <<running, call, finite, t0, t1, t, h, restart, trace, steps, nsteps, nrejected, status>>

TypeOK ==
  /\ {running, restart, finite} \subseteq BOOLEAN
  /\ call \in 0..Calls
  /\ {t0, t1, t} \subseteq Int
  /\ h \in {NaN} \cup 0..HMax
  /\ trace \in Seq(Int) /\ steps \in Seq(Int)
  /\ nsteps \in 0..MaxSteps /\ nrejected \in Nat
  /\ status \in {"OK", "DOMAIN_ERROR", "CONVERGENCE_ERROR"}

Abs(x) == IF x < 0 THEN -x ELSE x
Least(a, b) == IF a <= b THEN a ELSE b
Sign(x) == IF x < 0 THEN -1 ELSE 1

\* The clock value nearest to x half units.
Rounded(x) ==
  IF x % 2 = 0 THEN x \div 2
  ELSE CHOOSE c \in {(x - 1) \div 2, (x + 1) \div 2} : c % 2 = 0

\* A fresh solution object.
Init ==
  /\ running = FALSE /\ call = 0 /\ finite = TRUE
  /\ t0 = 0 /\ t1 = 0 /\ t = 0 /\ h = 0 /\ restart = TRUE
  /\ trace = <<>> /\ steps = <<>> /\ nsteps = 0 /\ nrejected = 0
  /\ status = "OK"

-----------------------------------------------------------------------------
(* Entry. *)

\* hmax: the span unless the caller bounds it.
Largest(a, b) == Least(HMax, 2 * Abs(b - a))

\* validate_problem fails: the counters are cleared, the trace is not.
Refused ==
  /\ status' = "DOMAIN_ERROR"
  /\ running' = FALSE
  /\ UNCHANGED <<t, h, restart, trace, steps>>

\* The initial step is the caller's or an estimate, at most hmax.
Started(a, b) ==
  /\ trace' = <<a>> /\ steps' = <<>>
  /\ t' = a /\ restart' = TRUE
  /\ h' \in 0..Largest(a, b)
  /\ running' = (a # b)
  /\ status' = "OK"

Call(a, b, valid) ==
  /\ ~running /\ call < Calls
  /\ call' = call + 1 /\ finite' \in BOOLEAN
  /\ t0' = a /\ t1' = b
  /\ nsteps' = 0 /\ nrejected' = 0
  /\ IF valid THEN Started(a, b) ELSE Refused

-----------------------------------------------------------------------------
(* The loop. *)

accepted == Len(steps)

Gap == 2 * Abs(t1 - t)

\* No comparison with a step that is not a number holds.
Final == h # NaN /\ Gap <= h

Size == IF Final THEN Gap ELSE h

\* t + dir*h
Reach(size) == Rounded(2 * t + Sign(t1 - t0) * size)

Exit(code, n) ==
  /\ running' = FALSE
  /\ status' = code
  /\ nsteps' = n

Stuck == Size = 0 \/ (Size # NaN /\ Reach(Size) = t)

Spent == accepted >= MaxSteps

\* Slip: the budget ends the loop without leaving it.
ExhaustedSlip ==
  /\ running /\ ~Spent /\ Stuck
  /\ Exit("CONVERGENCE_ERROR", accepted)
  /\ UNCHANGED <<call, finite, t0, t1, t, h, restart, trace, steps, nrejected>>

Exhausted ==
  /\ running /\ (Spent \/ Stuck)
  /\ Exit("CONVERGENCE_ERROR", accepted)
  /\ UNCHANGED <<call, finite, t0, t1, t, h, restart, trace, steps, nrejected>>

Trying == running /\ ~Spent /\ ~Stuck

\* Factors of the controller: 0.2 to 5; at least 0.9 for an accepted step
\* without history, at most 0.9 for a rejected one.
Factored(size, pass) ==
  LET lowest == IF pass /\ restart THEN (9 * size) \div 10 ELSE size \div 5
      highest == IF pass THEN 5 * size ELSE (9 * size) \div 10
      hmax == Largest(t0, t1)
  IN  {Least(hmax, s) : s \in lowest..highest}

\* Slip: the end of the last step is the clock's, not t1.
SnapSlip == Reach(h)

\* The last step ends at t1 exactly.
Snap == IF Final THEN t1 ELSE Reach(Size)

Recorded == Size

Accept ==
  /\ Trying /\ Size # NaN
  /\ t' = Snap
  /\ trace' = Append(trace, t')
  /\ steps' = Append(steps, Sign(t1 - t0) * Recorded)
  /\ IF Final
     THEN Exit("OK", accepted + 1) /\ UNCHANGED <<h, restart>>
     ELSE /\ h' \in Factored(Size, TRUE)
          /\ restart' = FALSE
          /\ UNCHANGED <<running, status, nsteps>>
  /\ UNCHANGED <<call, finite, t0, t1, nrejected>>

BelowMinimum(size) == size # NaN /\ size < HMin

\* A rejected attempt, and the step it proposes.  after_reject is set even when
\* the run stops.
Rejected(sizes) ==
  /\ nrejected' = (nrejected + 1) % Counter
  /\ restart' = TRUE
  /\ \E size \in sizes :
       IF BelowMinimum(size)
       THEN Exit("CONVERGENCE_ERROR", accepted) /\ h' = Size
       ELSE h' = size /\ UNCHANGED <<running, status, nsteps>>
  /\ UNCHANGED <<call, finite, t0, t1, t, trace, steps>>

\* The error estimate is above one.
Reject == Trying /\ Size # NaN /\ Rejected(Factored(Size, FALSE))

\* The error estimate is not a number.  MAX and MIN of a NaN may be either
\* argument, so the factor is 5, 0.2 or NaN, whichever the build produces; a
\* step that is not a number stays one.
RejectNaN ==
  /\ Trying
  /\ \/ Size = NaN /\ Rejected({NaN})
     \/ /\ Size # NaN /\ ~finite
        /\ Rejected({Least(Largest(t0, t1), 5 * Size), Size \div 5, NaN})

Step == Exhausted \/ Accept \/ Reject \/ RejectNaN

Next == (\E a, b \in Times, valid \in Validity : Call(a, b, valid)) \/ Step

Spec == Init /\ [][Next]_vars

-----------------------------------------------------------------------------
(* Properties. *)

\* A call that stands at t1, or failed there, did not try to end there: its
\* last step was shorter than the interval that the clock made of it.
OnlyRoundingOverlooks ==
  (running \/ status = "CONVERGENCE_ERROR") /\ steps # <<>> /\ trace[Len(steps) + 1] = t1 =>
    Abs(steps[Len(steps)]) < 2 * Abs(t1 - trace[Len(steps)])

\* The recorded mesh is what a sensitivity replays: it starts at t0, runs
\* strictly toward t1, and every recorded step covers its interval up to the
\* rounding of the clock, which is also the only way to be at t1 without
\* success.
TraceIsMesh ==
  status # "DOMAIN_ERROR" /\ call > 0 =>
    /\ trace[1] = t0
    /\ \A i \in 1..Len(steps) :
         /\ Sign(t1 - t0) * (trace[i + 1] - trace[i]) > 0
         /\ Sign(t1 - t0) * (t1 - trace[i + 1]) >= 0
         /\ Abs(2 * (trace[i + 1] - trace[i]) - steps[i]) <= 1
    /\ OnlyRoundingOverlooks

\* "Clip the final step to land exactly on t1", "A final step to the nearest
\* representable endpoint remains supported in either direction": a call that
\* fails has not recorded t1.
FailureIsIncomplete ==
  status = "CONVERGENCE_ERROR" => trace[Len(trace)] # t1
=============================================================================
