----------------------------- MODULE RootNewton -----------------------------
(***************************************************************************)
(* root_newton_object of src/roots/fortnum_roots.f90: Newton's method kept *)
(* inside a bracket.  Where the Newton step goes is the function's         *)
(* business: any grid point, taken only if it lies inside the bracket.     *)
(***************************************************************************)
EXTENDS SignChange

CONSTANTS
  MaxIters,   \* the values of max_iter that occur
  Xtol,      \* xtol in grid steps
  Starts     \* the starting points x0, some of them outside the bracket

VARIABLES
  pc, maxIt, it, xa, xb, fa, fb,
  xc,            \* the next point to evaluate
  flat,          \* |f'| < deriv_floor where f was last evaluated
  x, xflat,      \* the point returned, and whether f' is tiny there
  status

vars == <<pc, maxIt, it, xa, xb, fa, fb, xc, flat, x, xflat, status>>

TypeOK ==
  /\ pc \in {"start", "loop", "done"}
  /\ maxIt \in MaxIters /\ it \in 0..maxIt
  /\ {xa, xb, xc} \subseteq 0..Width
  /\ x \in 0..Width \union Starts
  /\ {fa, fb} \subseteq Values
  /\ flat \in BOOLEAN /\ xflat \in BOOLEAN
  /\ status \in {"OK", "DOMAIN_ERROR", "CONVERGENCE_ERROR"}

\* The endpoints have been evaluated, b last.
Init ==
  /\ pc = "start" /\ maxIt \in MaxIters /\ it = 0 /\ status = "OK"
  /\ \E b \in Brackets : xa = b[1] /\ xb = b[2]
  /\ fa \in Values /\ fb \in Values
  /\ xc = xa
  /\ flat \in BOOLEAN /\ xflat = FALSE
  /\ x \in Starts

Return(p, isFlat, code) ==
  /\ pc' = "done" /\ x' = p /\ xflat' = isFlat /\ status' = code

\* The tests at the endpoints, with the derivative there unseen; x0 outside
\* the bracket is replaced by the midpoint.
Endpoints ==
  /\ pc = "start"
  /\ \/ /\ fa = 0
        /\ \E isFlat \in BOOLEAN : Return(xa, isFlat, "OK")
        /\ UNCHANGED xc
     \/ /\ fa # 0 /\ fb = 0
        /\ Return(xb, flat, "OK")
        /\ UNCHANGED xc
     \/ /\ fa # 0 /\ fb # 0 /\ ProductSign(fa, fb) > 0
        /\ Return(x, xflat, "DOMAIN_ERROR")
        /\ UNCHANGED xc
     \/ /\ fa # 0 /\ fb # 0 /\ ProductSign(fa, fb) <= 0
        /\ xc' \in (IF x \in 0..Width THEN {x} ELSE Midpoints(xa, xb))
        /\ pc' = "loop"
        /\ UNCHANGED <<x, xflat, status>>
  /\ UNCHANGED <<it, xa, xb, fa, fb, flat>>

\* f is a function: at an end of the bracket its value is known.
ValueAt(p, fc) ==
  /\ p = xa => fc = fa
  /\ p = xb => fc = fb

RootCode(isFlat) == IF isFlat THEN "DOMAIN_ERROR" ELSE "OK"

\* Update the bracket from the sign at xc.
Bracket(fc) ==
  IF ProductSign(fc, fa) < 0
  THEN xb' = xc /\ fb' = fc /\ UNCHANGED <<xa, fa>>
  ELSE xa' = xc /\ fa' = fc /\ UNCHANGED <<xb, fb>>

Narrow == Upper(xa', xb') - Lower(xa', xb') <= Xtol

Inside(p) == Lower(xa', xb') < p /\ p < Upper(xa', xb')

\* xc - fc/dfc where it lies strictly inside, else the midpoint.
NextPoint(isFlat, newton) ==
  IF ~isFlat /\ Inside(newton) THEN xc' = newton
  ELSE xc' \in Midpoints(xa', xb')

\* do it = 1, max_it
Pass == pc = "loop" /\ it < maxIt
Exhausted == pc = "loop" /\ it = maxIt

Iterate(fc, isFlat, newton) ==
  /\ Pass
  /\ ValueAt(xc, fc)
  /\ it' = it + 1
  /\ flat' = isFlat
  /\ \/ /\ fc = 0
        /\ Return(xc, isFlat, RootCode(isFlat))
        /\ UNCHANGED <<xa, xb, fa, fb, xc>>
     \/ /\ fc # 0
        /\ Bracket(fc)
        /\ \/ /\ Narrow
              /\ \E mid \in Lower(xa', xb')..Upper(xa', xb') :
                   Return(mid, isFlat, RootCode(isFlat))
              /\ UNCHANGED xc
           \/ /\ ~Narrow
              /\ NextPoint(isFlat, newton)
              /\ UNCHANGED <<pc, x, xflat, status>>

GiveUp ==
  /\ Exhausted
  /\ \E mid \in Midpoints(xa, xb) : Return(mid, flat, "CONVERGENCE_ERROR")
  /\ UNCHANGED <<it, xa, xb, fa, fb, xc, flat>>

Next ==
  /\ \/ Endpoints
     \/ GiveUp
     \/ \E fc \in Values, isFlat \in BOOLEAN, newton \in 0..Width :
          Iterate(fc, isFlat, newton)
  /\ UNCHANGED maxIt

Spec == Init /\ [][Next]_vars

-----------------------------------------------------------------------------
(* Properties. *)

\* The guard around Newton's method: the bracket that the next point is kept
\* inside always holds a sign change.
BracketKept == pc = "loop" => Changes(fa, fb)

\* No evaluation is wasted: from the second pass on f is evaluated strictly
\* inside the bracket, so every pass shrinks it.
EvaluatesInside == pc = "loop" /\ it > 0 => xc \in Between(xa, xb)
=============================================================================
