----------------------------- MODULE RootBrent -----------------------------
(***************************************************************************)
(* root_brent_object of src/roots/fortnum_roots.f90, and the search for an  *)
(* event that follows it. The grid step is tol1; whether the interpolated   *)
(* step passes the safety test is left open, and a step that passes is any  *)
(* one that the test lets through.                                          *)
(***************************************************************************)
EXTENDS SignChange

CONSTANT MaxIters   \* the values of max_iter that occur

VARIABLES
  pc, maxIt, it,
  xa, xb, xc, fa, fb, fc,   \* previous, best and opposite point
  d, e,                     \* the last step and the one before it
  x, fx,                    \* the point returned and f there
  status

points == <<xa, xb, xc, fa, fb, fc>>
vars == <<pc, maxIt, it, points, d, e, x, fx, status>>

TypeOK ==
  /\ pc \in {"start", "test", "step", "done"}
  /\ maxIt \in MaxIters /\ it \in 0..maxIt
  /\ {xa, xb, xc, x} \subseteq 0..Width
  /\ {fa, fb, fc, fx} \subseteq Values
  /\ d \in -Width..Width /\ e \in -Width..Width
  /\ status \in {"OK", "DOMAIN_ERROR", "CONVERGENCE_ERROR"}

Init ==
  /\ pc = "start" /\ maxIt \in MaxIters /\ it = 0 /\ status = "OK"
  /\ \E b \in Brackets : xa = b[1] /\ xb = b[2]
  /\ fa \in Values /\ fb \in Values
  /\ xc = xa /\ fc = fa
  /\ d = xb - xa /\ e = d
  /\ x = xa /\ fx = fa

Return(p, v, code) == pc' = "done" /\ x' = p /\ fx' = v /\ status' = code

Endpoints ==
  /\ pc = "start"
  /\ \/ fa = 0 /\ Return(xa, fa, "OK")
     \/ fa # 0 /\ fb = 0 /\ Return(xb, fb, "OK")
     \/ /\ fa # 0 /\ fb # 0 /\ ProductSign(fa, fb) > 0
        /\ Return(xa, fa, "DOMAIN_ERROR")
     \/ /\ fa # 0 /\ fb # 0 /\ ProductSign(fa, fb) <= 0
        /\ pc' = "test"
        /\ UNCHANGED <<x, fx, status>>
  /\ UNCHANGED <<it, points, d, e>>

\* Slip: the three points are not rotated.
BestSlip ==
  IF Magnitude(fb) > Magnitude(fc)
  THEN /\ xb' = xc /\ fb' = fc /\ UNCHANGED <<xa, xc, fa, fc>>
  ELSE UNCHANGED points

\* xb becomes the better of xb and xc.
Best ==
  IF Magnitude(fb) > Magnitude(fc)
  THEN /\ xa' = xb /\ fa' = fb
       /\ xb' = xc /\ fb' = fc
       /\ xc' = xb /\ fc' = fb
  ELSE UNCHANGED points

\* Half the distance to xc is at most tol1.
Close == Magnitude(xc' - xb') <= 2

\* do it = 0, max_it: the cap counts updates.
Pass == it < maxIt
Exhausted == it = maxIt

\* The head of the loop: order the points and test for the end.
Test ==
  /\ pc = "test"
  /\ Best
  /\ \/ /\ Close \/ fb' = 0
        /\ Return(xb', fb', "OK")
     \/ /\ ~(Close \/ fb' = 0) /\ Exhausted
        /\ Return(xb', fb', "CONVERGENCE_ERROR")
     \/ /\ ~(Close \/ fb' = 0) /\ Pass
        /\ pc' = "step"
        /\ UNCHANGED <<x, fx, status>>
  /\ UNCHANGED <<it, d, e>>

\* 2p < min(3 s q - |tol1 q|, |e q|) for the step p/q, where s = (xc - xb)/2.
Safe(step) ==
  /\ step * Sign(xc - xb) >= 0
  /\ 4 * Magnitude(step) < 3 * Magnitude(xc - xb) - 2
  /\ 2 * Magnitude(step) < Magnitude(e)

Interpolates == Magnitude(e) >= 1 /\ Magnitude(fa) > Magnitude(fb)

\* Where xb may go, with the new d and e: an interpolation step that is safe,
\* nudged to tol1 where it is shorter, or a bisection.
Moves ==
  {[to |-> xb + (IF Magnitude(step) > 1 THEN step ELSE Sign(xc - xb)),
    d |-> step, e |-> d] :
     step \in {t \in -Width..Width : Interpolates /\ Safe(t)}}
  \union
  {[to |-> mid, d |-> mid - xb, e |-> mid - xb] : mid \in Midpoints(xb, xc)}

\* Slip: the side of the new point is not looked at.
OppositeSlip(v, move) ==
  /\ d' = move.d /\ e' = move.e
  /\ UNCHANGED <<xc, fc>>

\* "Keep xc on the opposite sign from xb"; when xc moves, the step memory
\* starts again with the new bracket.
Opposite(v, move) ==
  IF ProductSign(v, fc) > 0
  THEN /\ xc' = xb /\ fc' = fb
       /\ d' = move.to - xb /\ e' = d'
  ELSE /\ d' = move.d /\ e' = move.e
       /\ UNCHANGED <<xc, fc>>

\* One update: move xb, evaluate there, choose the opposite point.
Update(v, move) ==
  /\ pc = "step"
  /\ xa' = xb /\ fa' = fb
  /\ xb' = move.to /\ fb' = v
  /\ Opposite(v, move)
  /\ it' = it + 1
  /\ pc' = "test"
  /\ UNCHANGED <<x, fx, status>>

Next ==
  /\ \/ Endpoints \/ Test
     \/ \E v \in Values, move \in Moves : Update(v, move)
  /\ UNCHANGED maxIt

Spec == Init /\ [][Next]_vars

-----------------------------------------------------------------------------
(* locate_in_step of src/ode/fortnum_ode_events.f90: Brent's method on g   *)
(* along one step of a trace.  The points, the interpolation and its       *)
(* safety test are those of root_brent; the sides are compared instead of  *)
(* multiplied, they are put right at the head of the loop, and there is no *)
(* status: whatever the loop ends with is the located event.               *)

\* The scan has seen g change its sign between ta and tb, or vanish at tb.
\* The number of passes (BRENT_MAX_ITER) is never zero.
LocateInit ==
  /\ pc = "test" /\ maxIt \in MaxIters \ {0} /\ it = 0 /\ status = "OK"
  /\ \E b \in Brackets : xa = b[1] /\ xb = b[2]
  /\ fa \in Values \ {0} /\ fb \in {v \in Values : v = 0 \/ Changes(fa, v)}
  /\ xc = xb /\ fc = fb
  /\ d = xb - xa /\ e = d
  /\ x = xa /\ fx = fa

SameSide == fb * fc > 0

\* The points after the first test, and the swap of the second.
Sided == IF SameSide THEN [p |-> xa, v |-> fa] ELSE [p |-> xc, v |-> fc]

Order ==
  IF Magnitude(Sided.v) < Magnitude(fb)
  THEN /\ xa' = xb /\ fa' = fb
       /\ xb' = Sided.p /\ fb' = Sided.v
       /\ xc' = xb /\ fc' = fb
  ELSE /\ xc' = Sided.p /\ fc' = Sided.v
       /\ UNCHANGED <<xa, xb, fa, fb>>

\* "Converged on a tight bracket or an exact residual zero."
LocateTest ==
  /\ pc = "test"
  /\ Order
  /\ IF SameSide THEN d' = xb - xa /\ e' = d' ELSE UNCHANGED <<d, e>>
  /\ IF Close \/ fb' = 0
     THEN Return(xb', fb', "OK")
     ELSE pc' = "step" /\ UNCHANGED <<x, fx, status>>
  /\ UNCHANGED it

\* The new b; after the last pass it is returned as it is.
LocateUpdate(v, move) ==
  /\ pc = "step"
  /\ xa' = xb /\ fa' = fb
  /\ xb' = move.to /\ fb' = v
  /\ d' = move.d /\ e' = move.e
  /\ UNCHANGED <<xc, fc>>
  /\ it' = it + 1
  /\ IF it' = maxIt
     THEN Return(xb', fb', "OK")
     ELSE pc' = "test" /\ UNCHANGED <<x, fx, status>>

LocateNext ==
  /\ LocateTest \/ \E v \in Values, move \in Moves : LocateUpdate(v, move)
  /\ UNCHANGED maxIt

-----------------------------------------------------------------------------
(* Properties. *)

\* "... to maintain a valid bracket": between the best point and the opposite
\* one f changes sign, through every rotation of the three points.
BracketKept == pc = "step" => Changes(fb, fc)

\* Success means a root, or a sign change within 2 tol1 of the point returned,
\* which is then the end of that bracket where f is smaller.
BestLocated ==
  pc = "done" /\ status = "OK" =>
    \/ fx = 0
    \/ /\ x = xb /\ Changes(fx, fc)
       /\ Magnitude(xc - x) <= 2 /\ Magnitude(fx) <= Magnitude(fc)

\* What is reported as the event is a zero of g, or the end with the smaller
\* |g| of a sign change within the tolerance, unless the passes ran out.
EventLocated == it < maxIt => BestLocated

Halvings == CHOOSE h \in 0..Width : 2^h >= Width /\ \A k \in 0..h - 1 : 2^k < Width

\* "Convergence is superlinear on smooth functions and guaranteed linear
\* (bisection-like) in the worst case": however badly the interpolation does,
\* there are no more than two passes for each halving that bisection makes.
NoStagnation == it <= 2 * Halvings
=============================================================================
