-------------------------- MODULE AdaptiveIntegrate --------------------------
(***************************************************************************)
(* The globally adaptive drivers of src/quadrature/fortnum_integrate.f90:  *)
(* driver (QAG, QAGS, QAGIU), driver_seeded (QAGP), and adapt_loop, whose  *)
(* passes bisect a panel, put the halves in order, and on the              *)
(* extrapolating paths run the gate of the epsilon table.  A panel rule is *)
(* one choice of an error estimate and of what the roundoff detectors see; *)
(* qelg is one choice of an estimate and of the table's new length.  The   *)
(* small driver of fortnum_integrate_gk.f90 comes last.                    *)
(***************************************************************************)
EXTENDS Integers, Sequences, FiniteSets, FiniteSetsExt

CONSTANTS
  Width,      \* grid steps of the interval
  Errors,     \* error estimates of a panel, for each value of limit
  Tol,        \* errbnd, an absolute tolerance
  Limits,     \* values of limit that occur
  Seeds,      \* numbers of seeded panels (QAGP), for each value of limit
  Estimates,  \* error estimates of the epsilon table
  RoundoffCap, LossCap,   \* roundoff detections that stop the run (10), spoil the table (5)
  StallCap, StallRatio,   \* the stall test of the table (5 and 1000)
  History     \* results the table keeps before it gives an estimate (3)

ASSUME IntegrateAssumption ==
  /\ Width \in Nat \ {0} /\ Tol \in Nat
  /\ Limits \subseteq Nat \ {0} /\ Estimates \subseteq Nat
  /\ Errors \in [Limits -> SUBSET Nat] /\ Seeds \in [Limits -> SUBSET (1..Width)]
  /\ {RoundoffCap, LossCap, StallCap, StallRatio, History} \subseteq Nat

None == -1   \* abserr = huge: the table has no result yet

-----------------------------------------------------------------------------
(* The work stack: a sequence of panels, slot by slot, each with its       *)
(* bounds, its error estimate and its bisection depth.  Bounds lie on a    *)
(* grid whose step is the spacing of floating point numbers near the       *)
(* singularity, so a panel one step wide has collapsed to roundoff.  Error *)
(* estimates are natural numbers and their sums are exact.                 *)

Panel(lo, hi, err, level) == [lo |-> lo, hi |-> hi, err |-> err, level |-> level]

Mid(p) == (p.lo + p.hi) \div 2
LeftHalf(p, err) == Panel(p.lo, Mid(p), err, p.level + 1)
RightHalf(p, err) == Panel(Mid(p), p.hi, err, p.level + 1)

\* The bad-integrand test: both ends of the panel coincide to roundoff.
Collapsed(p) == p.hi - p.lo = 1

ErrorOver(stack, slots) == MapThenSumSet(LAMBDA i : stack[i].err, slots)
TotalError(stack) == ErrorOver(stack, DOMAIN stack)

WorstOf(stack, slots, i) == \A j \in slots : stack[j].err <= stack[i].err

Disjoint(p, q) == p.hi <= q.lo \/ q.hi <= p.lo

\* The panels cover lo..hi without gap or overlap.
Tiles(stack, lo, hi) ==
  /\ \A i \in DOMAIN stack : lo <= stack[i].lo /\ stack[i].hi <= hi
  /\ \A i, j \in DOMAIN stack : i # j => Disjoint(stack[i], stack[j])
  /\ MapThenSumSet(LAMBDA i : stack[i].hi - stack[i].lo, DOMAIN stack) = hi - lo

-----------------------------------------------------------------------------
(* dqpsrt: after a bisection the panel in slot maxerr and the one in the    *)
(* last slot are put back into iord, the pointer list in descending order  *)
(* of error.  Past half the limit only as much of the list is maintained   *)
(* as the remaining bisections can still reach.                            *)

\* Length of the maintained list when the stack holds `last` panels.
Maintained(last, limit) == IF last > limit \div 2 + 2 THEN limit + 3 - last ELSE last

\* Where the panel at position nrmax of the list belongs once the entries
\* before it that its new error exceeds have moved down.
Bubbled(stack, iord, nrmax, err) ==
  Min({n \in 1..nrmax : \A k \in n..(nrmax - 1) : err > stack[iord[k]].err})

MoveDown(iord, from, to) ==
  [k \in DOMAIN iord |-> IF from < k /\ k <= to THEN iord[k - 1] ELSE iord[k]]

Reinserted(stack, iord, limit, maxerr, nrmax) ==
  LET last == Len(stack)
      err(i) == stack[i].err
      n == Bubbled(stack, iord, nrmax, err(maxerr))
      list == MoveDown(iord, n, nrmax)
      bound == Maintained(last, limit) - 1
      smaller == {i \in (n + 1)..bound : err(maxerr) >= err(list[i])}
      at == IF smaller = {} THEN bound + 1 ELSE Min(smaller)   \* maxerr goes to at - 1
      larger == {k \in at..bound : err(last) < err(list[k])}
      after == IF larger = {} THEN at - 1 ELSE Max(larger)     \* last goes to after + 1
  IN  [order |-> [k \in DOMAIN iord |->
                    IF k \in n..(at - 2) THEN list[k + 1]
                    ELSE IF k = at - 1 THEN maxerr
                    ELSE IF k = after + 1 THEN last
                    ELSE IF k \in (after + 2)..(bound + 1) THEN list[k - 1]
                    ELSE list[k]],
       nrmax |-> n]

Dqpsrt(stack, iord, limit, maxerr, nrmax) ==
  IF Len(stack) <= 2 THEN [order |-> [iord EXCEPT ![1] = 1, ![2] = 2], nrmax |-> nrmax]
  ELSE Reinserted(stack, iord, limit, maxerr, nrmax)

\* reorder: the full list of a freshly seeded stack, ties by slot.
Ordered(stack, limit) ==
  LET before(i, j) == stack[i].err > stack[j].err \/ (stack[i].err = stack[j].err /\ i < j)
      rank(i) == 1 + Cardinality({j \in DOMAIN stack : before(j, i)})
  IN  [k \in 1..limit |-> IF k \in DOMAIN stack THEN CHOOSE i \in DOMAIN stack : rank(i) = k
                          ELSE 0]

-----------------------------------------------------------------------------
VARIABLES
  phase,    \* "call", "bisect", "gate", "extrapolate" or "done"
  useEps,   \* the path runs the epsilon table
  limit,
  stack,    \* ws%a, ws%b, ws%e, ws%level
  iord,     \* ws%iord
  nrmax,
  errsum,
  ier,
  noise,    \* the roundoff detectors: iroff1, iroff2 and ierro = 3
  gate,     \* extrap, noext, levmax, erlarg, and ertest
  fresh,    \* erlast, e12 and levcur of the pass in progress
  table,    \* the epsilon table: n, nres, abserr, correc, ktmin
  abserr,   \* result%abserr
  extrapolated,
  status

vars == <<phase, useEps, limit, stack, iord, nrmax, errsum, ier, noise, gate, fresh,
          table, abserr, extrapolated, status>>

ClearTable == [n |-> 1, nres |-> 0, abserr |-> None, correc |-> 0, ktmin |-> 0]
ClearNoise == [iroff1 |-> 0, iroff2 |-> 0, ierro |-> FALSE]
NoPass == [erlast |-> 0, e12 |-> 0, levcur |-> 0]
OpenGate(sum) == [extrap |-> FALSE, noext |-> FALSE, levmax |-> 1, erlarg |-> sum,
                  ertest |-> Tol]
Unordered(n) == [k \in 1..n |-> 0]

\* The state before a call, and what a call does not touch while it is refused.
Init ==
  /\ phase = "call" /\ useEps \in BOOLEAN /\ limit \in Limits
  /\ stack = <<>> /\ iord = Unordered(limit) /\ nrmax = 1 /\ errsum = 0 /\ ier = 0
  /\ noise = ClearNoise /\ gate = OpenGate(0) /\ fresh = NoPass /\ table = ClearTable
  /\ abserr = 0 /\ extrapolated = FALSE /\ status = "OK"

----------------------------------------------------------------------------
\* finalize, with the verdict already taken.
Finalize(verdict, err, better) ==
  /\ phase' = "done" /\ status' = verdict /\ abserr' = err /\ extrapolated' = better

Verdict(code, err) ==
  IF code = 3 THEN "DOMAIN_ERROR"
  ELSE IF code = 0 /\ err <= Tol THEN "OK"
  ELSE "CONVERGENCE_ERROR"

\* The end of adapt_loop: take the extrapolated value unless it is plainly
\* worse than the running sum, and drop a collapse the extrapolation survived.
Conclude(code, sum, lossy, correc, estimate) ==
  LET consulted == useEps /\ estimate # None
      failed == code # 0 \/ lossy
      widened == IF consulted /\ failed /\ lossy THEN estimate + correc ELSE estimate
      raised == IF consulted /\ failed /\ code = 0 THEN 3 ELSE code
  IN  \E zeroArea \in BOOLEAN :
        LET better == consulted /\ (widened <= sum \/ zeroArea)
            err == IF better THEN widened ELSE sum
            final == IF raised \in {3, 4} /\ better /\ err <= Tol THEN 0 ELSE raised
        IN  Finalize(Verdict(final, err), err, better)

EnterLoop(sum) ==
  /\ phase' = "bisect" /\ gate' = OpenGate(sum) /\ table' = ClearTable
  /\ noise' = ClearNoise /\ fresh' = NoPass /\ nrmax' = 1 /\ ier' = 0
  /\ UNCHANGED <<abserr, extrapolated, status>>

NoLoop == UNCHANGED <<gate, table, noise, fresh, nrmax, ier>>

\* driver: one panel over the whole interval.  `roundoff`: the estimate is no
\* more than roundoff; `rough`: it equals resasc.
Single ==
  /\ phase = "call"
  /\ \E err \in Errors[limit], roundoff, rough \in BOOLEAN :
       /\ stack' = <<Panel(0, Width, err, 0)>>
       /\ iord' = [iord EXCEPT ![1] = 1]
       /\ errsum' = err
       /\ \/ roundoff /\ err > Tol /\ Finalize("CONVERGENCE_ERROR", err, FALSE) /\ NoLoop
          \/ ~rough /\ err <= Tol /\ Finalize("OK", err, FALSE) /\ NoLoop
          \/ /\ ~(roundoff /\ err > Tol) /\ (rough \/ err > Tol)
             /\ IF limit = 1 THEN Finalize("CONVERGENCE_ERROR", err, FALSE) /\ NoLoop
                             ELSE EnterLoop(err)
  /\ UNCHANGED <<useEps, limit>>

\* Ends of the seeded panels: break points anywhere inside, in order.
Breaks(n) ==
  {b \in [0..n -> 0..Width] : b[0] = 0 /\ b[n] = Width /\ \A i \in 1..n : b[i - 1] < b[i]}

\* driver_seeded: a panel next to a singular break point counts as the whole
\* error, so that it is bisected before the smooth ones.
Seeded ==
  /\ phase = "call" /\ useEps
  /\ \E n \in Seeds[limit] : n <= limit /\
       \E b \in Breaks(n), e \in [1..n -> Errors[limit]], singular \in SUBSET (1..n) :
         LET raw == MapThenSumSet(LAMBDA i : e[i], 1..n)
             err(i) == IF i \in singular /\ e[i] # 0 THEN raw ELSE e[i]
             seeds == [i \in 1..n |-> Panel(b[i - 1], b[i], err(i), 0)]
             sum == TotalError(seeds)
         IN  /\ stack' = seeds
             /\ iord' = Ordered(seeds, limit)
             /\ errsum' = sum
             /\ \/ sum <= Tol /\ Finalize("OK", sum, FALSE) /\ NoLoop
                \/ /\ sum > Tol
                   /\ IF limit <= n THEN Finalize("CONVERGENCE_ERROR", sum, FALSE) /\ NoLoop
                                    ELSE EnterLoop(sum)
  /\ UNCHANGED <<useEps, limit>>

----------------------------------------------------------------------------
maxerr == iord[nrmax]
Worst == stack[maxerr]

Running == phase = "bisect" /\ Len(stack) < limit

\* The panel to bisect has shrunk to roundoff next to a singularity.
Collapse ==
  /\ Running /\ Collapsed(Worst)
  /\ Conclude(4, errsum, noise.ierro, table.correc, table.abserr)
  /\ UNCHANGED <<useEps, limit, stack, iord, nrmax, errsum, ier, noise, gate, fresh, table>>

\* A half overflows or returns NaN: keep the last finite totals.
NotFinite ==
  /\ Running /\ ~Collapsed(Worst)
  /\ Conclude(3, errsum, noise.ierro, table.correc, table.abserr)
  /\ UNCHANGED <<useEps, limit, stack, iord, nrmax, errsum, ier, noise, gate, fresh, table>>

\* Slip: the left half stays whatever its error.
SplitSlip(e1, e2) ==
  Append([stack EXCEPT ![maxerr] = LeftHalf(Worst, e1)], RightHalf(Worst, e2))

\* The half with the larger error stays in the bisected panel's slot.
Split(e1, e2) ==
  LET left == LeftHalf(Worst, e1)
      right == RightHalf(Worst, e2)
  IN  IF e2 > e1 THEN Append([stack EXCEPT ![maxerr] = right], left)
                 ELSE Append([stack EXCEPT ![maxerr] = left], right)

Detected(stalls) ==
  LET one == noise.iroff1 + (IF stalls /\ ~gate.extrap THEN 1 ELSE 0)
      two == noise.iroff2 + (IF stalls /\ gate.extrap THEN 1 ELSE 0)
  IN  [iroff1 |-> one, iroff2 |-> two, ierro |-> noise.ierro \/ two >= LossCap]

Flag(detected) ==
  IF Len(stack) + 1 = limit THEN 1
  ELSE IF detected.iroff1 + detected.iroff2 >= RoundoffCap THEN 2 ELSE 0

\* One pass up to the convergence test.  `stalls`: the halves add up to the
\* panel and their error is no smaller.
Bisect ==
  /\ Running /\ ~Collapsed(Worst)
  /\ \E e1, e2 \in Errors[limit], stalls \in BOOLEAN :
       LET sum == errsum + e1 + e2 - Worst.err
           seen == Detected(stalls)
           flag == Flag(seen)
           halves == Split(e1, e2)
           order == Dqpsrt(halves, iord, limit, maxerr, nrmax)
       IN  /\ stalls => e1 + e2 >= Worst.err
           /\ stack' = halves /\ errsum' = sum /\ noise' = seen /\ ier' = flag
           /\ iord' = order.order /\ nrmax' = order.nrmax
           /\ fresh' = [erlast |-> Worst.err, e12 |-> e1 + e2, levcur |-> Worst.level + 1]
           /\ IF sum <= Tol \/ flag # 0
              THEN Conclude(flag, sum, seen.ierro, table.correc, table.abserr)
              ELSE /\ phase' = IF useEps /\ ~gate.noext THEN "gate" ELSE "bisect"
                   /\ UNCHANGED <<abserr, extrapolated, status>>
  /\ UNCHANGED <<useEps, limit, gate, table>>

Shallow(i) == stack[i].level + 1 <= gate.levmax

\* Slip: the halves count as shallow one level too long.
ErrorLargeSlip ==
  gate.erlarg - fresh.erlast + (IF fresh.levcur <= gate.levmax THEN fresh.e12 ELSE 0)

\* erlarg follows the error over the panels not yet at full depth.
ErrorLarge ==
  gate.erlarg - fresh.erlast + (IF fresh.levcur + 1 <= gate.levmax THEN fresh.e12 ELSE 0)

\* The gate of the epsilon table: wait while the next panel is shallow, then
\* keep bisecting shallow panels until their error is small or none is left.
Gate ==
  /\ phase = "gate"
  /\ LET waits == ~gate.extrap /\ Shallow(maxerr)
         from == IF gate.extrap THEN nrmax ELSE 2
         ready == noise.ierro \/ ErrorLarge <= gate.ertest
         bound == Maintained(Len(stack), limit)
         shallow == {k \in from..bound : Shallow(iord[k])}
     IN  /\ gate' = [gate EXCEPT !.erlarg = ErrorLarge, !.extrap = ~waits]
         /\ \/ waits /\ phase' = "bisect" /\ UNCHANGED nrmax
            \/ ~waits /\ ~ready /\ shallow # {} /\ phase' = "bisect" /\ nrmax' = Min(shallow)
            \/ ~waits /\ (ready \/ shallow = {}) /\ phase' = "extrapolate" /\ nrmax' = from
  /\ UNCHANGED <<useEps, limit, stack, iord, errsum, ier, noise, fresh, table,
                 abserr, extrapolated, status>>

\* qelg: [n, abseps].  Three equal elements end it at once with an estimate;
\* otherwise it may shorten the table, and gives none until it has a history.
Qelg(n, nres) ==
  {[n |-> n, abseps |-> a] : a \in Estimates}
    \cup {[n |-> m, abseps |-> a] :
            m \in {n} \cup {2 * i - 1 : i \in 1..((n - 1) \div 2)},
            a \in IF nres <= History THEN {None} ELSE Estimates}

Improves(abseps) == abseps # None /\ (table.abserr = None \/ abseps < table.abserr)

\* Prepare the bisection of a panel at full depth.
Deepen(noext) ==
  /\ phase' = "bisect" /\ nrmax' = 1
  /\ gate' = [gate EXCEPT !.extrap = FALSE, !.noext = @ \/ noext, !.levmax = @ + 1,
                          !.erlarg = errsum]
  /\ UNCHANGED <<abserr, extrapolated, status>>

\* Append the area to the table and, from three elements on, extrapolate.
Extrapolate ==
  /\ phase = "extrapolate"
  /\ LET n == table.n + 1
         stalled == table.ktmin + 1 > StallCap /\ table.abserr # None
                    /\ StallRatio * table.abserr < errsum
     IN  \/ n <= 2 /\ table' = [table EXCEPT !.n = n] /\ Deepen(FALSE) /\ UNCHANGED ier
         \/ /\ n > 2
            /\ \E q \in Qelg(n, table.nres + 1) :
                 LET better == Improves(q.abseps)
                     best == IF better THEN q.abseps ELSE table.abserr
                 IN  /\ ier' = IF stalled THEN 5 ELSE ier
                     /\ table' = [n |-> q.n, nres |-> table.nres + 1, abserr |-> best,
                                  correc |-> IF better THEN gate.erlarg ELSE table.correc,
                                  ktmin |-> IF better THEN 0 ELSE table.ktmin + 1]
                     /\ IF (better /\ best <= gate.ertest) \/ stalled
                        THEN /\ Conclude(IF stalled THEN 5 ELSE ier, errsum, noise.ierro,
                                         table'.correc, best)
                             /\ UNCHANGED <<nrmax, gate>>
                        ELSE Deepen(q.n = 1)
  /\ UNCHANGED <<useEps, limit, stack, iord, errsum, noise, fresh>>

AdaptLoop == Collapse \/ NotFinite \/ Bisect \/ Gate \/ Extrapolate

Next == Single \/ Seeded \/ AdaptLoop

Spec == Init /\ [][Next]_vars

-----------------------------------------------------------------------------
(* integrate_gk of src/quadrature/fortnum_integrate_gk.f90: the small       *)
(* adaptive integrator kept beside the panel rules.  It bisects on the same *)
(* stack, searches it for the worst panel instead of keeping a list, and    *)
(* sums it afresh.                                                          *)

GkInit ==
  /\ phase = "call" /\ limit \in Limits /\ stack = <<>> /\ errsum = 0 /\ ier = 0
  /\ abserr = 0 /\ status = "OK"

GkReturn(code, panels) ==
  /\ phase' = "done" /\ ier' = code /\ abserr' = TotalError(panels)
  /\ status' = IF code = 0 THEN "OK" ELSE "CONVERGENCE_ERROR"

\* The first panel, and its acceptance without any workspace.
QagAdapt ==
  /\ phase = "call"
  /\ \E err \in Errors[limit], roundoff, rough \in BOOLEAN :
       LET panel == <<Panel(0, Width, err, 0)>>
           code == IF err > Tol /\ limit = 1 THEN 1 ELSE IF err > Tol /\ roundoff THEN 2 ELSE 0
           returns == code # 0 \/ (err <= Tol /\ ~rough) \/ err = 0 \/ limit = 1
       IN  /\ stack' = panel /\ errsum' = err
           /\ IF returns THEN GkReturn(code, panel)
                         ELSE phase' = "bisect" /\ UNCHANGED <<ier, abserr, status>>
  /\ UNCHANGED <<limit, noise>>

\* maxloc: the first of the panels with the largest error.
MaxLoc == Min({i \in DOMAIN stack : WorstOf(stack, DOMAIN stack, i)})

\* One pass of qag_bisect.
QagBisect ==
  /\ phase = "bisect"
  /\ \E e1, e2 \in Errors[limit], stalls \in BOOLEAN :
       LET p == stack[MaxLoc]
           sum == errsum + e1 + e2 - p.err
           halves == Append([stack EXCEPT ![MaxLoc] = LeftHalf(p, e1)], RightHalf(p, e2))
           stall == noise.iroff1 + (IF stalls THEN 1 ELSE 0)
           code == IF Collapsed(p) THEN 3
                   ELSE IF Len(halves) = limit THEN 1
                   ELSE IF stall >= RoundoffCap THEN 2 ELSE 0
       IN  /\ stalls => e1 + e2 >= p.err
           /\ stack' = halves /\ errsum' = sum /\ noise' = [noise EXCEPT !.iroff1 = stall]
           /\ IF sum <= Tol THEN GkReturn(0, halves)
              ELSE IF code # 0 THEN GkReturn(code, halves)
              ELSE UNCHANGED <<phase, ier, abserr, status>>
  /\ UNCHANGED limit

GkNext == QagAdapt \/ QagBisect
=============================================================================
