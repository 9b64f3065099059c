----------------------------- MODULE RootBisect -----------------------------
(* root_bisect_object of src/roots/fortnum_roots.f90.                      *)
EXTENDS SignChange

CONSTANTS
  MaxIters,   \* the values of max_iter that occur
  Xtol       \* xtol in grid steps

VARIABLES
  pc, maxIt, it, xa, xb,
  fa, fb,        \* the values the solver works with, halved at times
  ta, tb,        \* f(xa) and f(xb)
  lastSide,      \* 1 after xa was kept, -1 after xb was kept
  x, fx,         \* the point returned and f there
  status

vars == <<pc, maxIt, it, xa, xb, fa, fb, ta, tb, lastSide, x, fx, status>>

TypeOK ==
  /\ pc \in {"start", "loop", "done"}
  /\ maxIt \in MaxIters /\ it \in 0..maxIt
  /\ {xa, xb, x} \subseteq 0..Width
  /\ {fa, fb} \subseteq Values \union {0}
  /\ {ta, tb} \subseteq Values
  /\ fx \in Values
  /\ lastSide \in {-1, 0, 1}
  /\ status \in {"OK", "DOMAIN_ERROR", "CONVERGENCE_ERROR"}

Init ==
  /\ pc = "start" /\ maxIt \in MaxIters /\ it = 0 /\ lastSide = 0 /\ status = "OK"
  /\ \E b \in Brackets : xa = b[1] /\ xb = b[2]
  /\ ta \in Values /\ tb \in Values
  /\ fa = ta /\ fb = tb
  /\ x = xa /\ fx = ta

Return(p, v, code) == pc' = "done" /\ x' = p /\ fx' = v /\ status' = code

\* A tiny value may be halved away.
Halved(v) == IF Magnitude(v) = 1 THEN {v, 0} ELSE {v}

\* The tests at the endpoints.
Endpoints ==
  /\ pc = "start"
  /\ \/ fa = 0 /\ Return(xa, ta, "OK")
     \/ fa # 0 /\ fb = 0 /\ Return(xb, tb, "OK")
     \/ /\ fa # 0 /\ fb # 0 /\ ProductSign(fa, fb) > 0
        /\ Return(xa, ta, "DOMAIN_ERROR")
     \/ /\ fa # 0 /\ fb # 0 /\ ProductSign(fa, fb) <= 0
        /\ pc' = "loop"
        /\ UNCHANGED <<x, fx, status>>
  /\ UNCHANGED <<it, xa, xb, fa, fb, ta, tb, lastSide>>

\* half_width <= xt
Narrow == Upper(xa, xb) - Lower(xa, xb) <= 2 * Xtol

\* fc = f(xc) at the midpoint, which ends the search.
Found(fc) ==
  /\ fc = 0 \/ Narrow
  /\ \E xc \in Midpoints(xa, xb) : Return(xc, fc, "OK")
  /\ UNCHANGED <<xa, xb, fa, fb, ta, tb, lastSide>>

\* Replace one end; one that is kept twice in a row has its value halved.
Shrink(fc) ==
  \E xc \in Midpoints(xa, xb) :
    IF ProductSign(fc, fa) < 0
    THEN /\ xb' = xc /\ fb' = fc /\ tb' = fc
         /\ fa' \in (IF lastSide = 1 THEN Halved(fa) ELSE {fa})
         /\ lastSide' = 1
         /\ UNCHANGED <<xa, ta>>
    ELSE /\ xa' = xc /\ fa' = fc /\ ta' = fc
         /\ fb' \in (IF lastSide = -1 THEN Halved(fb) ELSE {fb})
         /\ lastSide' = -1
         /\ UNCHANGED <<xb, tb>>

\* do it = 1, max_it
Pass == pc = "loop" /\ it < maxIt
Exhausted == pc = "loop" /\ it = maxIt

Iterate(fc) ==
  /\ Pass
  /\ it' = it + 1
  /\ \/ Found(fc)
     \/ /\ fc # 0 /\ ~Narrow
        /\ Shrink(fc)
        /\ UNCHANGED <<pc, x, fx, status>>

\* The middle of the last bracket is returned without a look at f there.
GiveUp ==
  /\ Exhausted
  /\ \E xc \in Midpoints(xa, xb), v \in Values : Return(xc, v, "CONVERGENCE_ERROR")
  /\ UNCHANGED <<it, xa, xb, fa, fb, ta, tb, lastSide>>

Next ==
  /\ Endpoints \/ GiveUp \/ \E fc \in Values : Iterate(fc)
  /\ UNCHANGED maxIt

Spec == Init /\ [][Next]_vars

-----------------------------------------------------------------------------
(* Properties. *)

\* "Root in [xa, xc]", "Root in [xc, xb]": the bracket that the search works
\* with always has a sign change of f itself, not only of the halved values.
BracketKept == pc = "loop" => Changes(ta, tb)

\* Success means a root, or a sign change within xtol of the point returned.
RootLocated ==
  pc = "done" /\ status = "OK" =>
    \/ fx = 0
    \/ /\ Changes(ta, tb)
       /\ x - Lower(xa, xb) <= Xtol /\ Upper(xa, xb) - x <= Xtol
=============================================================================
