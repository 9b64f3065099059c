-------------------------- MODULE IntegrationTrace --------------------------
(***************************************************************************)
(* What ode_integrate of src/ode/fortnum_ode.f90 promises of the solution  *)
(* object its caller hands in: a mesh that grows from t0 strictly toward   *)
(* t1, with the number of its steps written at the end, and success when a *)
(* step was made to end there.  How step sizes are chosen, and how often   *)
(* one is tried again, is not part of it.                                  *)
(***************************************************************************)
EXTENDS Integers, Sequences, SequencesExt

CONSTANTS
  Times,    \* start and end times the caller uses
  MaxSteps, \* problem%max_steps
  Calls     \* calls with one solution object (model bound)

VARIABLES
  running, call,
  t0, t1,   \* problem%t0, problem%t1
  trace,    \* solution%t, <<>> while it is not allocated
  nsteps,   \* solution%nsteps
  status

vars == <<running, call, t0, t1, trace, nsteps, status>>

Init ==
  /\ running = FALSE /\ call = 0 /\ t0 = 0 /\ t1 = 0
  /\ trace = <<>> /\ nsteps = 0 /\ status = "OK"

Enter(a, b) ==
  /\ ~running /\ call < Calls
  /\ call' = call + 1
  /\ t0' = a /\ t1' = b /\ nsteps' = 0

\* The trace starts again, at the initial point alone.
Begin(a, b) ==
  /\ Enter(a, b)
  /\ trace' = <<a>> /\ running' = (a # b) /\ status' = "OK"

\* A problem that is not valid: the trace of the call before is left.
Refuse(a, b) ==
  /\ Enter(a, b)
  /\ running' = FALSE /\ status' = "DOMAIN_ERROR" /\ UNCHANGED trace

Close(code) ==
  /\ running' = FALSE /\ nsteps' = Len(trace') - 1 /\ status' = code

\* Another step may be accepted.
Unfinished == running /\ Len(trace) <= MaxSteps /\ Last(trace) # t1

\* Clock values after the last mesh point and before t1.
Ahead == LET t == Last(trace) IN IF t0 < t1 THEN t + 1..t1 - 1 ELSE t1 + 1..t - 1

\* An accepted step that ends before t1.
Advance ==
  /\ Unfinished
  /\ \E t \in Ahead : trace' = Append(trace, t)
  /\ UNCHANGED <<running, call, t0, t1, nsteps, status>>

\* The final step, clipped to end at t1: the one success.
Arrive ==
  /\ Unfinished
  /\ trace' = Append(trace, t1)
  /\ Close("OK")
  /\ UNCHANGED <<call, t0, t1>>

\* A step that falls short of t1 and that the clock rounds onto it.  The call
\* does not notice: it goes on at t1, from where no step can be taken, and can
\* only give up although its trace is complete.
Overlook ==
  /\ Unfinished
  /\ trace' = Append(trace, t1)
  /\ UNCHANGED <<running, call, t0, t1, nsteps, status>>

\* The call gives up; what was accepted stays.
GiveUp ==
  /\ running /\ UNCHANGED <<call, t0, t1, trace>> /\ Close("CONVERGENCE_ERROR")

Next ==
  \/ \E a, b \in Times : Begin(a, b) \/ Refuse(a, b)
  \/ Advance \/ Arrive \/ Overlook \/ GiveUp

Spec == Init /\ [][Next]_vars
=============================================================================
