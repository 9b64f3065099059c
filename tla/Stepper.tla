------------------------------- MODULE Stepper -------------------------------
(***************************************************************************)
(* What every integrator of src/ode with a state of its own promises to    *)
(* its caller: a call moves the accepted endpoint toward the target and    *)
(* never past it, reports success exactly at the target, leaves the last   *)
(* accepted endpoint in place when it gives up, and returns.  A caller may *)
(* ask for one step at a time, and may start anew at another point.        *)
(***************************************************************************)
EXTENDS Integers

VARIABLES
  at,       \* the last accepted endpoint
  goal,     \* the target of the current or last call
  outcome   \* "running", or how the last call returned; "paused" after one step

\* b lies on the way from a to c, and is not a.
Toward(a, b, c) == (a < b /\ b <= c) \/ (c <= b /\ b < a)

Init == at \in Int /\ goal = at /\ outcome = "OK"

Call ==
  /\ outcome # "running"
  /\ goal' \in Int
  /\ outcome' = IF goal' = at THEN "OK" ELSE "running"
  /\ UNCHANGED at

Restart ==
  /\ outcome # "running"
  /\ at' \in Int /\ goal' = at' /\ outcome' = "OK"

\* An accepted step; one that cannot move `at` is no progress but no harm.
Advance ==
  /\ outcome = "running"
  /\ at' = at \/ Toward(at, at', goal)
  /\ outcome' \in IF at' = goal THEN {"OK"} ELSE {"running", "paused"}
  /\ UNCHANGED goal

GiveUp ==
  /\ outcome = "running"
  /\ outcome' = "CONVERGENCE_ERROR"
  /\ UNCHANGED <<at, goal>>

Next == Call \/ Restart \/ Advance \/ GiveUp

Safe == Init /\ [][Next]_<<at, goal, outcome>>
=============================================================================
