------------------------------ MODULE OdeEvents ------------------------------
(***************************************************************************)
(* ode_event_scan of src/ode/fortnum_ode_events.f90: the first admissible  *)
(* crossing of an event function on a recorded trace.  The event function  *)
(* g is its sign at the mesh points; the root inside an interval is found  *)
(* by locate_in_step, which RootBrent models on its own.                   *)
(***************************************************************************)
EXTENDS Integers, Sequences, SequencesExt

VARIABLES
  trace,        \* solution%t
  scan,         \* "idle", "loop" or "done"
  wanted,       \* direction
  gs,           \* the signs of g at the mesh points seen so far
  found, bracketStep, direction, tEvent, transversal,   \* the result
  scanStatus

result == <<found, bracketStep, direction, tEvent, transversal>>
vars == <<scan, wanted, gs, result, scanStatus>>

RISING == 1
FALLING == -1
ANY == 0

TypeOK ==
  /\ scan \in {"idle", "loop", "done"}
  /\ wanted \in {RISING, FALLING, ANY} /\ direction \in {RISING, FALLING, ANY}
  /\ gs \in Seq({-1, 0, 1}) /\ Len(gs) <= Len(trace)
  /\ found \in BOOLEAN /\ transversal \in BOOLEAN
  /\ bracketStep \in 0..Len(trace) /\ tEvent \in Int
  /\ scanStatus \in {"OK", "DOMAIN_ERROR"}

Cleared ==
  /\ found' = FALSE /\ bracketStep' = 0 /\ direction' = ANY /\ tEvent' = 0
  /\ transversal' = FALSE

Init ==
  /\ scan = "idle" /\ wanted = ANY /\ gs = <<>> /\ scanStatus = "OK"
  /\ found = FALSE /\ bracketStep = 0 /\ direction = ANY /\ tEvent = 0
  /\ transversal = FALSE

\* Entry: no trace is an error, a single point has no crossing.
Begin(dir) ==
  /\ scan = "idle"
  /\ wanted' = dir
  /\ Cleared
  /\ \/ trace = <<>> /\ scan' = "done" /\ scanStatus' = "DOMAIN_ERROR" /\ gs' = <<>>
     \/ Len(trace) = 1 /\ scan' = "done" /\ scanStatus' = "OK" /\ gs' = <<>>
     \/ /\ Len(trace) >= 2
        /\ scan' = "loop" /\ scanStatus' = "OK"
        /\ \E g \in {-1, 0, 1} : gs' = <<g>>

\* Slip: a zero at the left endpoint counts once more.
CrossingSlip(ga, gb) ==
  CASE ga <= 0 /\ gb > 0 -> RISING
    [] ga >= 0 /\ gb < 0 -> FALLING
    [] OTHER -> 0

\* crossing_direction
Crossing(ga, gb) ==
  CASE ga < 0 /\ gb >= 0 -> RISING
    [] ga > 0 /\ gb <= 0 -> FALLING
    [] OTHER -> 0

Admits(cross) == wanted = ANY \/ wanted = cross

\* The ends of interval i in either order.
Inside(i) ==
  IF trace[i] < trace[i + 1] THEN trace[i]..trace[i + 1] ELSE trace[i + 1]..trace[i]

\* The root of interval i; the status tells whether g crosses transversally.
Located(i, cross) ==
  /\ found' = TRUE /\ bracketStep' = i /\ direction' = cross
  /\ tEvent' \in Inside(i)
  /\ transversal' \in BOOLEAN
  /\ scanStatus' = IF transversal' THEN "OK" ELSE "DOMAIN_ERROR"
  /\ scan' = "done"

\* One interval of the scan.
Interval(gb) ==
  LET i == Len(gs)
      cross == Crossing(Last(gs), gb)
  IN  /\ scan = "loop" /\ i < Len(trace)
      /\ gs' = Append(gs, gb)
      /\ IF cross # 0 /\ Admits(cross)
         THEN Located(i, cross)
         ELSE /\ scan' = IF i + 1 = Len(trace) THEN "done" ELSE "loop"
              /\ UNCHANGED <<result, scanStatus>>
      /\ UNCHANGED wanted

\* The caller has read the result.
Read ==
  /\ scan = "done" /\ scan' = "idle"
  /\ Cleared
  /\ wanted' = ANY /\ gs' = <<>> /\ scanStatus' = "OK"

Next ==
  \/ Read
  \/ \E dir \in {RISING, FALLING, ANY} : Begin(dir)
  \/ \E gb \in {-1, 0, 1} : Interval(gb)

-----------------------------------------------------------------------------
(* Properties. *)

\* g has changed its sign between mesh points i and j > i, with only zeros
\* between them.
Changes(i, j) ==
  /\ gs[i] # 0 /\ gs[j] = -gs[i]
  /\ \A m \in i + 1..j - 1 : gs[m] = 0

\* "A zero exactly at the left endpoint is consumed by the previous interval":
\* a change of sign is reported once, in the interval where g first leaves its
\* old sign, in the direction asked for and inside that interval; where the
\* scan reports nothing, g has not changed sign that way.
FirstEventFound ==
  scan = "done" /\ trace # <<>> =>
    /\ \A i, j \in 1..Len(gs) :
         i < j /\ Changes(i, j) /\ Admits(gs[j]) =>
           found /\ bracketStep <= i
    /\ found =>
         /\ gs[bracketStep] = -direction /\ gs[bracketStep + 1] # gs[bracketStep]
         /\ Admits(direction)
         /\ tEvent \in Inside(bracketStep)
    /\ ~found => Len(gs) \in {0, Len(trace)}
=============================================================================
