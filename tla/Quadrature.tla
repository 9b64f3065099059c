----------------------------- MODULE Quadrature -----------------------------
(***************************************************************************)
(* The adaptive integrators of src/quadrature/ behind one contract: a      *)
(* caller hands over an interval, a tolerance and a subdivision limit and  *)
(* reads back an error estimate, a status and the panels.  "adaptive" is   *)
(* one driver call of fortnum_integrate, "two-sided" is integrate_qagiu    *)
(* over the whole line (inf = 2), which makes two of them.                 *)
(***************************************************************************)
EXTENDS AdaptiveIntegrate

CONSTANTS Modes,    \* of "adaptive", "two-sided", "gk", "cquad"
          LimitsOf  \* the values of limit that occur in each mode

ASSUME ModesAssumption == LimitsOf \in [Modes -> SUBSET Limits]

VARIABLES
  mode,
  floor,   \* of cquad: slots whose error is at the roundoff floor of their samples
  first    \* result of the first of the two driver calls (two-sided)

all == <<mode, floor, first, phase, useEps, limit, stack, iord, nrmax, errsum, ier, noise,
         gate, fresh, table, abserr, extrapolated, status>>

-----------------------------------------------------------------------------
(* integrate_cquad of src/quadrature/fortnum_cquad.f90.  A panel whose     *)
(* error is down at the roundoff of its own samples is left alone; when    *)
(* only such panels remain the routine stops.                              *)

CquadInit ==
  /\ phase = "call" /\ limit \in Limits /\ stack = <<>> /\ errsum = 0
  /\ abserr = 0 /\ status = "OK" /\ floor = {}

\* The first panel.
Start ==
  /\ phase = "call"
  /\ \E err \in Errors[limit], settled \in BOOLEAN :
       /\ stack' = <<Panel(0, Width, err, 0)>> /\ errsum' = err
       /\ floor' = IF settled \/ err = 0 THEN {1} ELSE {}
  /\ phase' = "bisect"
  /\ UNCHANGED <<limit, abserr, status>>

\* Slip: a panel is left alone once it meets the tolerance by itself.
ActiveSlip == {i \in DOMAIN stack \ floor : stack[i].err > Tol}
Active == DOMAIN stack \ floor
Converged == errsum <= Tol

Full == Len(stack) >= limit

Stop ==
  /\ phase = "bisect" /\ (Converged \/ Full \/ Active = {})
  /\ phase' = "done" /\ abserr' = errsum
  /\ status' = IF ~Converged /\ Full THEN "CONVERGENCE_ERROR" ELSE "OK"
  /\ UNCHANGED <<limit, stack, errsum, floor>>

WorstActive == Min({i \in Active : WorstOf(stack, Active, i)})

\* A panel of no width has no error.
Estimated(p) == IF p.lo = p.hi THEN {0} ELSE Errors[limit]

Divide ==
  /\ phase = "bisect" /\ ~Converged /\ ~Full /\ Active # {}
  /\ LET i == WorstActive
         p == stack[i]
         new == Len(stack) + 1
     IN  \E e1 \in Estimated(LeftHalf(p, 0)), e2 \in Estimated(RightHalf(p, 0)),
            settled \in SUBSET {i, new} :
           /\ stack' = Append([stack EXCEPT ![i] = LeftHalf(p, e1)], RightHalf(p, e2))
           /\ errsum' = errsum - p.err + e1 + e2
           /\ floor' = floor \cup settled \cup (IF e1 = 0 THEN {i} ELSE {})
                             \cup (IF e2 = 0 THEN {new} ELSE {})
  /\ UNCHANGED <<phase, limit, abserr, status>>

CquadNext == Start \/ Stop \/ Divide

-----------------------------------------------------------------------------
(* The integrators behind one contract. *)

OfTable == <<useEps, iord, nrmax, gate, fresh, table, extrapolated>>

NoTable ==
  /\ useEps = FALSE /\ iord = Unordered(limit) /\ nrmax = 1 /\ gate = OpenGate(0)
  /\ fresh = NoPass /\ table = ClearTable /\ noise = ClearNoise /\ extrapolated = FALSE

QuadratureInit ==
  /\ mode \in Modes /\ first = <<>>
  /\ \/ mode \in {"adaptive", "two-sided"} /\ Init /\ floor = {}
        /\ (mode = "two-sided" => useEps)
     \/ mode = "gk" /\ GkInit /\ NoTable /\ floor = {}
     \/ mode = "cquad" /\ CquadInit /\ NoTable /\ ier = 0
  /\ limit \in LimitsOf[mode]

\* integrate_qagiu, inf = 2: the second half of the line has a workspace, a
\* table and a result (res2) of its own, but its verdict is written over that
\* of the first half.
OtherHalf ==
  /\ mode = "two-sided" /\ phase = "done" /\ first = <<>>
  /\ first' = <<[status |-> status, abserr |-> abserr]>>
  /\ phase' = "call" /\ stack' = <<>> /\ iord' = Unordered(limit) /\ nrmax' = 1
  /\ errsum' = 0 /\ ier' = 0 /\ noise' = ClearNoise /\ gate' = OpenGate(0)
  /\ fresh' = NoPass /\ table' = ClearTable
  /\ abserr' = 0 /\ extrapolated' = FALSE /\ status' = "OK"
  /\ UNCHANGED <<mode, floor, useEps, limit>>

\* Slip: the second half's estimate replaces the sum.
ReportedErrorSlip == abserr

\* result%abserr as the caller reads it: both halves of the line are summed.
ReportedError == abserr + (IF first = <<>> THEN 0 ELSE first[1].abserr)

QuadratureNext ==
  \/ mode = "adaptive" /\ Next /\ UNCHANGED <<mode, floor, first>>
  \/ mode = "two-sided" /\ (Single \/ AdaptLoop) /\ UNCHANGED <<mode, floor, first>>
  \/ OtherHalf
  \/ mode = "gk" /\ GkNext /\ UNCHANGED <<mode, floor, first, OfTable>>
  \/ mode = "cquad" /\ CquadNext /\ UNCHANGED <<mode, first, ier, noise, OfTable>>

QuadratureSpec == QuadratureInit /\ [][QuadratureNext]_all

----------------------------------------------------------------------------
Quadpack == mode \in {"adaptive", "two-sided"}

\* The list is in order as far as it is maintained.
InOrder ==
  LET bound == Maintained(Len(stack), limit)
  IN  \A j, k \in 1..bound :
        /\ iord[j] \in DOMAIN stack
        /\ j < k => iord[j] # iord[k] /\ stack[iord[j]].err >= stack[iord[k]].err

TypesOK ==
  /\ phase \in {"call", "bisect", "gate", "extrapolate", "done"}
  /\ Len(stack) <= limit /\ nrmax \in 1..limit /\ floor \subseteq DOMAIN stack
  /\ errsum \in Nat /\ abserr \in Nat /\ gate.erlarg \in Nat /\ ier \in {0, 1, 2, 3, 5}
  /\ status \in {"OK", "DOMAIN_ERROR", "CONVERGENCE_ERROR"}

\* The work stack of every integrator tiles the interval and its running error
\* is the sum of its estimates; the pointer list of adapt_loop is in descending
\* order as far as dqpsrt keeps it, although it truncates the list and inserts
\* two panels in one sweep.  So every bisection of adapt_loop takes a panel
\* with the largest error there is or, while the epsilon table waits, the
\* largest among the panels that are not yet at full depth.
WorkspaceConsistent ==
  /\ TypesOK
  /\ phase # "call" =>
       /\ Tiles(stack, 0, Width)
       /\ errsum = TotalError(stack)
       /\ Quadpack /\ phase # "done" => InOrder
  /\ Quadpack /\ phase = "bisect" =>
       WorstOf(stack, IF nrmax = 1 THEN DOMAIN stack ELSE {i \in DOMAIN stack : Shallow(i)},
               maxerr)

\* The error the gate compares with the tolerance (erlarg) is the error over
\* exactly the panels not yet at full depth, however often it was updated.
ShallowErrorTracked ==
  phase = "bisect" /\ useEps /\ ~gate.noext =>
    gate.erlarg = ErrorOver(stack, {i \in DOMAIN stack : Shallow(i)})

\* OK means that the reported error is within the tolerance.  Two halves of a
\* line are judged one by one and their errors added: what is reported lies
\* within the tolerance of the second half above the error of the first, so it
\* may be twice the tolerance when both are OK.  The error of a driver call is
\* the sum over its frozen panels unless the epsilon table supplied it.  cquad
\* may also stop when every panel is down at its roundoff floor.
StatusIsHonest ==
  phase = "done" /\ status = "OK" =>
    /\ first = <<>> =>
         ReportedError <= Tol \/ (mode = "cquad" /\ floor = DOMAIN stack)
    /\ first # <<>> =>
         /\ first[1].abserr <= ReportedError /\ ReportedError <= first[1].abserr + Tol
         /\ first[1].status = "OK" => ReportedError <= 2 * Tol
    /\ ~extrapolated => abserr = TotalError(stack)
    /\ extrapolated => useEps /\ table.abserr # None

\* A doubly infinite integral reports a failure of either half: "Exhausted
\* subdivision or tolerance failure returns a convergence error."
FailureReported ==
  phase = "done" /\ status = "OK" /\ first # <<>> => first[1].status = "OK"

-----------------------------------------------------------------------------
\* the instance that is model-checked: with eight panels the pointer list is
\* truncated before the last bisection; with five, three error levels and
\* seeded panels occur
ErrorsAt == [n \in Limits |-> IF n > 5 THEN {1, 3} ELSE {0, 1, 3}]
SeedsAt == [n \in Limits |-> IF n > 5 THEN {} ELSE {1, 3}]
SomeLimits ==
  [m \in Modes |-> CASE m = "adaptive" -> Limits [] m = "two-sided" -> {2} [] OTHER -> {1, 5}]
=============================================================================
