-------------------------- MODULE ScalarRootsProofs --------------------------
(***************************************************************************)
(* The scalar root finders, for a bracket of any width, any tolerance, any *)
(* number of passes and any function: what they work with holds a sign     *)
(* change, and success means a root or a sign change within the tolerance. *)
(* For the three that test the sign of a product this rests on one         *)
(* hypothesis, which is where a badly scaled function breaks the code: no  *)
(* product of two values underflows.  The event finder compares signs.     *)
(***************************************************************************)
EXTENDS ScalarRoots, TLAPS

\* Three of the finders test for a sign change with a product; no value of f is so
\* small that its product with another is lost.
NoUnderflow == Values \cap {-1, 1} = {}

-----------------------------------------------------------------------------
(* Bisection.                                                              *)

BisectInv ==
  /\ Bisection!TypeOK /\ Bisection!BracketKept /\ Bisection!RootLocated
  /\ fa = ta /\ fb = tb

\* Away from underflow the sign of the product tells which way f changes.
LEMMA BisectSigns ==
  ASSUME NEW u \in Int, NEW v \in Int, u \notin {-1, 1}, v \notin {-1, 1}
  PROVE  /\ Bisection!Changes(u, v) <=> (u < 0 /\ v > 0) \/ (u > 0 /\ v < 0)
         /\ Bisection!ProductSign(u, v) < 0 <=> (u < 0 /\ v > 0) \/ (u > 0 /\ v < 0)
         /\ Bisection!ProductSign(u, v) > 0 <=> (u < 0 /\ v < 0) \/ (u > 0 /\ v > 0)
         /\ Bisection!ProductSign(u, v) \in Int
BY DEF Bisection!Changes, Bisection!ProductSign, Bisection!Sign, Bisection!Magnitude

\* A midpoint is inside the bracket and in its middle.
LEMMA BisectMiddle ==
  ASSUME RootsAssumption, NEW p \in 0..BisectWidth, NEW q \in 0..BisectWidth,
         NEW m \in Bisection!Midpoints(p, q)
  PROVE  /\ m \in 0..BisectWidth
         /\ Bisection!Upper(p, q) - Bisection!Lower(p, q) <= 2 * BisectXtol =>
              /\ m - Bisection!Lower(p, q) <= BisectXtol
              /\ Bisection!Upper(p, q) - m <= BisectXtol
BY DEF RootsAssumption, Bisection!Midpoints, Bisection!Between, Bisection!Upper, Bisection!Lower

\* A call starts with a bracket and the values of f at its ends.
LEMMA BisectStart ==
  ASSUME RootsAssumption, Bisection!Init
  PROVE  BisectInv
<1>1. xa \in 0..BisectWidth /\ xb \in 0..BisectWidth
  BY DEF Bisection!Init, Bisection!Brackets, RootsAssumption
<1>. QED
  BY <1>1 DEF BisectInv, Bisection!Init, Bisection!TypeOK, Bisection!BracketKept,
              Bisection!RootLocated, RootsAssumption

\* Every pass keeps the sign change, and what is returned as a root is one or
\* has a sign change around it.
LEMMA BisectStep ==
  ASSUME RootsAssumption, NoUnderflow, BisectInv, Bisection!Next
  PROVE  BisectInv'
<1>. USE DEF BisectInv, Bisection!TypeOK, Bisection!BracketKept, Bisection!RootLocated, Bisection!Return
<1>1. /\ Values \subseteq Int /\ \A v \in Values : v \notin {-1, 1}
      /\ maxIt' = maxIt /\ maxIt \in Nat
  BY DEF NoUnderflow, RootsAssumption, Bisection!Next
<1>2. /\ ta \in Values /\ tb \in Values /\ ta \in Int /\ tb \in Int
      /\ xa \in 0..BisectWidth /\ xb \in 0..BisectWidth
  BY <1>1
<1>3. CASE Bisection!Endpoints
  <2>1. pc' = "loop" => Bisection!Changes(ta, tb)
    BY <1>1, <1>2, <1>3, BisectSigns DEF Bisection!Endpoints
  <2>. QED BY <2>1, <1>1, <1>2, <1>3 DEF Bisection!Endpoints, Bisection!Changes
<1>4. CASE Bisection!GiveUp
  <2>1. PICK mid \in Bisection!Midpoints(xa, xb), v \in Values :
          Bisection!Return(mid, v, "CONVERGENCE_ERROR")
    BY <1>4 DEF Bisection!GiveUp
  <2>2. mid \in 0..BisectWidth
    BY <1>2, BisectMiddle
  <2>. QED BY <2>1, <2>2, <1>1, <1>2, <1>4 DEF Bisection!GiveUp
<1>5. CASE \E fc_1 \in Values : Bisection!Iterate(fc_1)
  <2>1. PICK v \in Values : Bisection!Iterate(v)
    BY <1>5
  <2>2. /\ pc = "loop" /\ it' \in 0..maxIt /\ v \in Int /\ v \notin {-1, 1}
        /\ Bisection!Changes(ta, tb)
    BY <2>1, <1>1 DEF Bisection!Iterate, Bisection!Pass
  <2>3. CASE Bisection!Found(v)
    <3>1. PICK mid \in Bisection!Midpoints(xa, xb) : Bisection!Return(mid, v, "OK")
      BY <2>3 DEF Bisection!Found
    <3>2. mid \in 0..BisectWidth
      BY <1>2, BisectMiddle
    <3>3. v = 0 \/ /\ mid - Bisection!Lower(xa, xb) <= BisectXtol
                   /\ Bisection!Upper(xa, xb) - mid <= BisectXtol
      BY <2>3, <1>2, BisectMiddle DEF Bisection!Found, Bisection!Narrow
    <3>4. UNCHANGED <<xa, xb, fa, fb, ta, tb, lastSide>>
      BY <2>3 DEF Bisection!Found
    <3>5. Bisection!TypeOK' /\ Bisection!BracketKept' /\ (fa = ta /\ fb = tb)'
      BY <3>1, <3>2, <3>4, <2>2, <1>1, <1>2
    <3>6. Bisection!RootLocated'
      BY <3>1, <3>3, <3>4, <2>2 DEF Bisection!Lower, Bisection!Upper, Bisection!Changes
    <3>. QED BY <3>5, <3>6
  <2>4. CASE /\ v # 0 /\ Bisection!Shrink(v)
             /\ UNCHANGED <<pc, x, fx, code>>
    <3>1. PICK mid \in Bisection!Midpoints(xa, xb) :
            IF Bisection!ProductSign(v, fa) < 0
            THEN /\ xb' = mid /\ fb' = v /\ tb' = v
                 /\ fa' \in (IF lastSide = 1 THEN Bisection!Halved(fa) ELSE {fa})
                 /\ lastSide' = 1
                 /\ UNCHANGED <<xa, ta>>
            ELSE /\ xa' = mid /\ fa' = v /\ ta' = v
                 /\ fb' \in (IF lastSide = -1 THEN Bisection!Halved(fb) ELSE {fb})
                 /\ lastSide' = -1
                 /\ UNCHANGED <<xb, tb>>
      BY <2>4 DEF Bisection!Shrink
    <3>2. mid \in 0..BisectWidth
      BY <1>2, BisectMiddle
    <3>3. Bisection!Halved(fa) = {fa} /\ Bisection!Halved(fb) = {fb}
      BY <1>1, <1>2 DEF Bisection!Halved, Bisection!Magnitude
    <3>4. CASE Bisection!ProductSign(v, fa) < 0
      <4>1. Bisection!Changes(ta, v)
        BY <3>4, <2>2, <1>1, <1>2, BisectSigns
      <4>. QED BY <4>1, <3>1, <3>2, <3>3, <3>4, <2>2, <2>4, <1>1, <1>2 DEF Bisection!Changes
    <3>5. CASE ~(Bisection!ProductSign(v, fa) < 0)
      <4>1. Bisection!Changes(v, tb)
        <5>1. (ta < 0 /\ tb > 0) \/ (ta > 0 /\ tb < 0)
          BY <2>2, <1>1, <1>2, BisectSigns
        <5>2. ~((v < 0 /\ ta > 0) \/ (v > 0 /\ ta < 0))
          BY <3>5, <2>2, <1>1, <1>2, BisectSigns
        <5>3. (v < 0 /\ tb > 0) \/ (v > 0 /\ tb < 0)
          BY <5>1, <5>2, <2>2, <2>4, <1>2
        <5>. QED BY <5>3, <2>2, <1>1, <1>2, BisectSigns
      <4>. QED BY <4>1, <3>1, <3>2, <3>3, <3>5, <2>2, <2>4, <1>1, <1>2 DEF Bisection!Changes
    <3>. QED BY <3>4, <3>5
  <2>. QED BY <2>1, <2>3, <2>4 DEF Bisection!Iterate
<1>. QED BY <1>3, <1>4, <1>5 DEF Bisection!Next

-----------------------------------------------------------------------------
(* Newton's method inside a bracket.                                       *)

NewtonInv ==
  /\ Newton!TypeOK /\ Newton!BracketKept /\ Newton!EvaluatesInside
  /\ pc = "start" => it = 0

\* Away from underflow the sign of the product tells which way f changes.
LEMMA NewtonSigns ==
  ASSUME NEW u \in Int, NEW v \in Int, u \notin {-1, 1}, v \notin {-1, 1}
  PROVE  /\ Newton!Changes(u, v) <=> (u < 0 /\ v > 0) \/ (u > 0 /\ v < 0)
         /\ Newton!ProductSign(u, v) < 0 <=> (u < 0 /\ v > 0) \/ (u > 0 /\ v < 0)
         /\ Newton!ProductSign(u, v) > 0 <=> (u < 0 /\ v < 0) \/ (u > 0 /\ v > 0)
         /\ Newton!ProductSign(u, v) \in Int
BY DEF Newton!Changes, Newton!ProductSign, Newton!Sign, Newton!Magnitude

\* A call starts with a bracket and the values of f at its ends.
LEMMA NewtonStart ==
  ASSUME RootsAssumption, Newton!Init
  PROVE  NewtonInv
<1>1. xa \in 0..NewtonWidth /\ xb \in 0..NewtonWidth
  BY DEF Newton!Init, Newton!Brackets, RootsAssumption
<1>2. /\ pc = "start" /\ maxIt \in NewtonIters /\ maxIt \in Nat /\ it = 0
      /\ xc = xa /\ code = "OK"
  BY DEF Newton!Init, RootsAssumption
<1>3. /\ fa \in Values /\ fb \in Values /\ x \in Starts
      /\ flat \in BOOLEAN /\ xflat \in BOOLEAN
  BY DEF Newton!Init
<1>4. it \in 0..maxIt
  BY <1>2
<1>. QED
  BY <1>1, <1>2, <1>3, <1>4
  DEF NewtonInv, Newton!TypeOK, Newton!BracketKept, Newton!EvaluatesInside

\* Replacing the end on whose side f has the same sign keeps the sign change.
LEMMA NewtonBracket ==
  ASSUME RootsAssumption, NoUnderflow, NewtonInv, pc = "loop",
         NEW v \in Values, v # 0, Newton!Bracket(v)
  PROVE  /\ xa' \in 0..NewtonWidth /\ xb' \in 0..NewtonWidth
         /\ fa' \in Values /\ fb' \in Values
         /\ Newton!Changes(fa', fb')
<1>. USE DEF NewtonInv, Newton!TypeOK, Newton!BracketKept
<1>1. /\ Values \subseteq Int /\ \A u \in Values : u \notin {-1, 1}
      /\ fa \in Values /\ fb \in Values /\ v \in Int
      /\ fa \in Int /\ fb \in Int /\ Newton!Changes(fa, fb)
  BY DEF NoUnderflow, RootsAssumption
<1>2. (fa < 0 /\ fb > 0) \/ (fa > 0 /\ fb < 0)
  BY <1>1, NewtonSigns
<1>3. CASE Newton!ProductSign(v, fa) < 0
  <2>1. Newton!Changes(fa, v)
    BY <1>1, <1>3, NewtonSigns
  <2>. QED BY <2>1, <1>1, <1>3 DEF Newton!Bracket
<1>4. CASE ~(Newton!ProductSign(v, fa) < 0)
  <2>1. (v < 0 /\ fb > 0) \/ (v > 0 /\ fb < 0)
    <3>1. ~((v < 0 /\ fa > 0) \/ (v > 0 /\ fa < 0))
      BY <1>1, <1>4, NewtonSigns
    <3>. QED BY <3>1, <1>1, <1>2
  <2>2. Newton!Changes(v, fb)
    BY <2>1, <1>1, NewtonSigns
  <2>. QED BY <2>2, <1>1, <1>4 DEF Newton!Bracket
<1>. QED BY <1>3, <1>4

\* Every pass keeps the sign change and moves strictly inside the bracket.
LEMMA NewtonStep ==
  ASSUME RootsAssumption, NoUnderflow, NewtonInv, Newton!Next
  PROVE  NewtonInv'
<1>. USE DEF NewtonInv, Newton!TypeOK, Newton!BracketKept, Newton!EvaluatesInside,
             Newton!Return
<1>1. /\ Values \subseteq Int /\ \A v \in Values : v \notin {-1, 1}
      /\ maxIt' = maxIt /\ maxIt \in Nat
  BY DEF NoUnderflow, RootsAssumption, Newton!Next
<1>2. /\ fa \in Values /\ fb \in Values /\ fa \in Int /\ fb \in Int
      /\ xa \in 0..NewtonWidth /\ xb \in 0..NewtonWidth /\ NewtonWidth \in Nat
  BY <1>1 DEF RootsAssumption
<1>3. CASE Newton!Endpoints
  <2>1. pc' = "loop" => Newton!Changes(fa, fb)
    BY <1>1, <1>2, <1>3, NewtonSigns DEF Newton!Endpoints
  <2>2. it = 0 /\ it' = 0 /\ xc' \in 0..NewtonWidth
    BY <1>2, <1>3 DEF Newton!Endpoints, Newton!Midpoints, Newton!Between
  <2>. QED BY <2>1, <2>2, <1>1, <1>2, <1>3 DEF Newton!Endpoints, Newton!Changes
<1>4. CASE Newton!GiveUp
  BY <1>1, <1>2, <1>4 DEF Newton!GiveUp, Newton!Midpoints, Newton!Between
<1>5. ASSUME NEW v \in Values, NEW isFlat \in BOOLEAN, NEW newton \in 0..NewtonWidth,
             Newton!Iterate(v, isFlat, newton)
      PROVE  NewtonInv'
  <2>1. pc = "loop" /\ it' \in 0..maxIt /\ flat' \in BOOLEAN
    BY <1>5, <1>1 DEF Newton!Iterate, Newton!Pass
  <2>2. Newton!RootCode(isFlat) \in {"OK", "DOMAIN_ERROR"}
    BY DEF Newton!RootCode
  <2>3. CASE v = 0
    BY <2>1, <2>2, <2>3, <1>1, <1>2, <1>5 DEF Newton!Iterate
  <2>4. CASE v # 0
    <3>1. /\ xa' \in 0..NewtonWidth /\ xb' \in 0..NewtonWidth
          /\ fa' \in Values /\ fb' \in Values /\ Newton!Changes(fa', fb')
      BY <2>1, <2>4, <1>5, NewtonBracket DEF Newton!Iterate
    <3>2. CASE Newton!Narrow
      <4>1. PICK mid \in Newton!Lower(xa', xb')..Newton!Upper(xa', xb') :
              Newton!Return(mid, isFlat, Newton!RootCode(isFlat))
        BY <3>2, <2>4, <1>5 DEF Newton!Iterate
      <4>2. mid \in 0..NewtonWidth
        BY <3>1, <1>2 DEF Newton!Lower, Newton!Upper
      <4>. QED BY <4>1, <4>2, <3>1, <3>2, <2>1, <2>2, <2>4, <1>1, <1>5
               DEF Newton!Iterate
    <3>3. CASE ~Newton!Narrow
      <4>1. Newton!NextPoint(isFlat, newton) /\ UNCHANGED <<pc, x, xflat, code>>
        BY <3>3, <2>4, <1>5 DEF Newton!Iterate
      <4>2. xc' \in Newton!Between(xa', xb')
        BY <4>1, <1>5 DEF Newton!NextPoint, Newton!Inside, Newton!Midpoints, Newton!Between
      <4>3. Newton!EvaluatesInside'
        BY <4>2 DEF Newton!Between, Newton!Lower, Newton!Upper
      <4>4. xc' \in 0..NewtonWidth
        BY <4>2 DEF Newton!Between
      <4>. QED BY <4>1, <4>3, <4>4, <3>1, <2>1, <1>1 DEF Newton!Changes
    <3>. QED BY <3>2, <3>3
  <2>. QED BY <2>3, <2>4
<1>. QED BY <1>3, <1>4, <1>5 DEF Newton!Next

-----------------------------------------------------------------------------
(* Brent's method, and the search for an event that follows it.            *)

BrentInv ==
  /\ Brent!TypeOK /\ Brent!BracketKept /\ Brent!BestLocated
  /\ pc = "start" => fc = fa
  /\ pc = "step" => it < maxIt
  /\ pc = "test" => fb = 0 \/ Brent!Changes(fb, fc)

\* An update of the event finder leaves the sides alone; the sign change is
\* then between the last two points until the next test.
EventInv ==
  /\ Brent!TypeOK /\ Brent!BracketKept /\ Brent!EventLocated
  /\ pc \in {"test", "step"} => it < maxIt
  /\ pc = "test" =>
       fb = 0 \/ Brent!Changes(fb, fc) \/ (Brent!SameSide /\ Brent!Changes(fa, fb))

\* Away from underflow the sign of the product tells which way f changes.
LEMMA BrentSigns ==
  ASSUME NEW u \in Int, NEW v \in Int, u \notin {-1, 1}, v \notin {-1, 1}
  PROVE  /\ Brent!Changes(u, v) <=> (u < 0 /\ v > 0) \/ (u > 0 /\ v < 0)
         /\ Brent!ProductSign(u, v) < 0 <=> (u < 0 /\ v > 0) \/ (u > 0 /\ v < 0)
         /\ Brent!ProductSign(u, v) > 0 <=> (u < 0 /\ v < 0) \/ (u > 0 /\ v > 0)
         /\ Brent!ProductSign(u, v) \in Int
BY DEF Brent!Changes, Brent!ProductSign, Brent!Sign, Brent!Magnitude

\* A sign change, on whatever scale.
LEMMA EventSides ==
  ASSUME NEW u \in Int, NEW v \in Int
  PROVE  Brent!Changes(u, v) <=> (u < 0 /\ v > 0) \/ (u > 0 /\ v < 0)
BY DEF Brent!Changes, Brent!Sign

\* The exact product, which the model of the event finder compares with zero.
LEMMA SameSides ==
  ASSUME NEW u \in Int, NEW v \in Int
  PROVE  u * v > 0 <=> (u < 0 /\ v < 0) \/ (u > 0 /\ v > 0)
OBVIOUS

\* Wherever xb may go is inside the first bracket, and the step memory stays
\* within its width.
LEMMA BrentMoves ==
  ASSUME RootsAssumption, Brent!TypeOK, NEW move \in Brent!Moves
  PROVE  /\ move.to \in 0..BrentWidth /\ move.to - xb \in -BrentWidth..BrentWidth
         /\ move.d \in -BrentWidth..BrentWidth /\ move.e \in -BrentWidth..BrentWidth
<1>1. /\ BrentWidth \in Nat /\ xb \in 0..BrentWidth /\ xc \in 0..BrentWidth
      /\ d \in -BrentWidth..BrentWidth
  BY DEF RootsAssumption, Brent!TypeOK
<1>2. ASSUME NEW step \in -BrentWidth..BrentWidth, Brent!Safe(step),
             move = [to |-> xb + (IF Brent!Magnitude(step) > 1 THEN step
                                  ELSE Brent!Sign(xc - xb)),
                     d |-> step, e |-> d]
      PROVE  move.to \in 0..BrentWidth
  <2>1. CASE xc > xb
    <3>1. step >= 0 /\ 4 * step < 3 * (xc - xb) - 2
      BY <1>1, <1>2, <2>1 DEF Brent!Safe, Brent!Sign, Brent!Magnitude
    <3>. QED BY <3>1, <1>1, <1>2, <2>1 DEF Brent!Sign, Brent!Magnitude
  <2>2. CASE xc < xb
    <3>1. step <= 0 /\ -4 * step < 3 * (xb - xc) - 2
      BY <1>1, <1>2, <2>2 DEF Brent!Safe, Brent!Sign, Brent!Magnitude
    <3>. QED BY <3>1, <1>1, <1>2, <2>2 DEF Brent!Sign, Brent!Magnitude
  <2>3. CASE xc = xb
    BY <1>1, <1>2, <2>3 DEF Brent!Safe, Brent!Magnitude
  <2>. QED BY <1>1, <2>1, <2>2, <2>3
<1>3. ASSUME NEW mid \in Brent!Midpoints(xb, xc),
             move = [to |-> mid, d |-> mid - xb, e |-> mid - xb]
      PROVE  /\ move.to \in 0..BrentWidth
             /\ move.d \in -BrentWidth..BrentWidth /\ move.e = move.d
  BY <1>1, <1>3 DEF Brent!Midpoints, Brent!Between
<1>4. \/ \E step \in -BrentWidth..BrentWidth :
           /\ Brent!Safe(step)
           /\ move = [to |-> xb + (IF Brent!Magnitude(step) > 1 THEN step
                                   ELSE Brent!Sign(xc - xb)),
                      d |-> step, e |-> d]
      \/ \E mid \in Brent!Midpoints(xb, xc) :
           move = [to |-> mid, d |-> mid - xb, e |-> mid - xb]
  BY DEF Brent!Moves
<1>5. move.to \in 0..BrentWidth
  BY <1>2, <1>3, <1>4
<1>6. move.d \in -BrentWidth..BrentWidth /\ move.e \in -BrentWidth..BrentWidth
  BY <1>1, <1>3, <1>4
<1>. QED BY <1>1, <1>5, <1>6

\* A call starts with a bracket and the values of f at its ends.
LEMMA BrentStart ==
  ASSUME RootsAssumption, Brent!Init
  PROVE  BrentInv
<1>1. /\ xa \in 0..BrentWidth /\ xb \in 0..BrentWidth
      /\ xb - xa \in -BrentWidth..BrentWidth
  BY DEF Brent!Init, Brent!Brackets, RootsAssumption
<1>2. maxIt \in BrentIters /\ maxIt \in Nat /\ it = 0 /\ it \in 0..maxIt
  BY DEF Brent!Init, RootsAssumption
<1>. QED
  BY <1>1, <1>2 DEF BrentInv, Brent!Init, Brent!TypeOK, Brent!BracketKept, Brent!BestLocated

\* The scan hands over a step on which g changes its sign or ends in a zero.
LEMMA EventStart ==
  ASSUME RootsAssumption, Brent!LocateInit
  PROVE  EventInv
<1>1. /\ xa \in 0..BrentWidth /\ xb \in 0..BrentWidth
      /\ xb - xa \in -BrentWidth..BrentWidth
  BY DEF Brent!LocateInit, Brent!Brackets, RootsAssumption
<1>2. maxIt \in BrentIters /\ it = 0 /\ it \in 0..maxIt /\ it < maxIt
  BY DEF Brent!LocateInit, RootsAssumption
<1>3. fb = 0 \/ (Brent!SameSide /\ Brent!Changes(fa, fb))
  BY SameSides DEF Brent!LocateInit, Brent!SameSide, RootsAssumption
<1>. QED
  BY <1>1, <1>2, <1>3
  DEF EventInv, Brent!LocateInit, Brent!TypeOK, Brent!BracketKept,
      Brent!EventLocated, Brent!BestLocated

\* Ordering the points keeps the sign change and leaves the smaller value in fb.
LEMMA BrentBest ==
  ASSUME RootsAssumption, BrentInv, pc = "test", Brent!Best
  PROVE  /\ {xa', xb', xc'} \subseteq 0..BrentWidth /\ {fa', fb', fc'} \subseteq Values
         /\ fb' = 0 \/ Brent!Changes(fb', fc')
         /\ Brent!Magnitude(fb') <= Brent!Magnitude(fc')
<1>1. /\ {xa, xb, xc} \subseteq 0..BrentWidth /\ {fa, fb, fc} \subseteq Values
      /\ fb \in Int /\ fc \in Int
      /\ fb = 0 \/ Brent!Changes(fb, fc)
  BY DEF BrentInv, Brent!TypeOK, RootsAssumption
<1>2. CASE Brent!Magnitude(fb) > Brent!Magnitude(fc)
  <2>1. Brent!Changes(fb, fc)
    BY <1>1, <1>2 DEF Brent!Magnitude
  <2>2. Brent!Changes(fc, fb)
    BY <2>1, <1>1 DEF Brent!Changes, Brent!Sign
  <2>. QED BY <2>2, <1>1, <1>2 DEF Brent!Best, Brent!Magnitude
<1>3. CASE ~(Brent!Magnitude(fb) > Brent!Magnitude(fc))
  BY <1>1, <1>3 DEF Brent!Best, Brent!points, Brent!Magnitude
<1>. QED BY <1>2, <1>3

\* After an update the best and the opposite point are on different sides.
LEMMA BrentOpposite ==
  ASSUME RootsAssumption, NoUnderflow, BrentInv, pc = "step",
         NEW v \in Values, NEW move \in Brent!Moves, Brent!Opposite(v, move)
  PROVE  /\ xc' \in 0..BrentWidth /\ fc' \in Values
         /\ d' \in -BrentWidth..BrentWidth /\ e' \in -BrentWidth..BrentWidth
         /\ v = 0 \/ Brent!Changes(v, fc')
<1>1. /\ xb \in 0..BrentWidth /\ xc \in 0..BrentWidth
      /\ fb \in Values /\ fc \in Values /\ Brent!TypeOK
      /\ Brent!Changes(fb, fc)
  BY DEF BrentInv, Brent!TypeOK, Brent!BracketKept
<1>2. /\ fb \in Int /\ fc \in Int /\ v \in Int
      /\ fb \notin {-1, 1} /\ fc \notin {-1, 1} /\ v \notin {-1, 1}
  BY <1>1 DEF RootsAssumption, NoUnderflow
<1>3. (fb < 0 /\ fc > 0) \/ (fb > 0 /\ fc < 0)
  BY <1>1, <1>2, BrentSigns
<1>4. /\ move.to - xb \in -BrentWidth..BrentWidth
      /\ move.d \in -BrentWidth..BrentWidth /\ move.e \in -BrentWidth..BrentWidth
  BY <1>1, BrentMoves
<1>5. CASE Brent!ProductSign(v, fc) > 0
  <2>1. (v < 0 /\ fb > 0) \/ (v > 0 /\ fb < 0)
    BY <1>2, <1>3, <1>5, BrentSigns
  <2>2. Brent!Changes(v, fb)
    BY <2>1, <1>2, BrentSigns
  <2>. QED BY <2>2, <1>1, <1>4, <1>5 DEF Brent!Opposite
<1>6. CASE ~(Brent!ProductSign(v, fc) > 0)
  <2>1. v = 0 \/ (v < 0 /\ fc > 0) \/ (v > 0 /\ fc < 0)
    BY <1>2, <1>3, <1>6, BrentSigns
  <2>2. v = 0 \/ Brent!Changes(v, fc)
    BY <2>1, <1>2, BrentSigns
  <2>. QED BY <2>2, <1>1, <1>4, <1>6 DEF Brent!Opposite
<1>. QED BY <1>5, <1>6

\* Through every rotation of the three points the sign change is kept, and the
\* point returned is the better end of a short one.
LEMMA BrentStep ==
  ASSUME RootsAssumption, NoUnderflow, BrentInv, Brent!Next
  PROVE  BrentInv'
<1>. USE DEF BrentInv, Brent!TypeOK, Brent!BracketKept, Brent!BestLocated, Brent!Return
<1>1. /\ Values \subseteq Int /\ \A u \in Values : u \notin {-1, 1}
      /\ maxIt' = maxIt /\ maxIt \in Nat
  BY DEF NoUnderflow, RootsAssumption, Brent!Next
<1>2. CASE Brent!Endpoints
  <2>1. /\ pc = "start" /\ UNCHANGED <<it, xa, xb, xc, fa, fb, fc, d, e>>
        /\ fa \in Values /\ fb \in Values /\ fa \in Int /\ fb \in Int
    BY <1>1, <1>2 DEF Brent!Endpoints, Brent!points
  <2>2. pc' = "test" => Brent!Changes(fb, fc)
    <3>1. ASSUME pc' = "test" PROVE (fb < 0 /\ fa > 0) \/ (fb > 0 /\ fa < 0)
      BY <3>1, <2>1, <1>1, <1>2, BrentSigns DEF Brent!Endpoints
    <3>. QED BY <3>1, <2>1, <1>1, BrentSigns
  <2>3. pc' \in {"test", "done"}
    BY <1>2 DEF Brent!Endpoints
  <2>4. Brent!TypeOK'
    BY <2>1, <1>1, <1>2 DEF Brent!Endpoints
  <2>5. Brent!BestLocated'
    BY <2>1, <1>2 DEF Brent!Endpoints
  <2>. QED BY <2>1, <2>2, <2>3, <2>4, <2>5 DEF Brent!Changes
<1>3. CASE Brent!Test
  <2>1. pc = "test" /\ UNCHANGED <<it, d, e>>
    BY <1>3 DEF Brent!Test
  <2>2. /\ {xa', xb', xc'} \subseteq 0..BrentWidth /\ {fa', fb', fc'} \subseteq Values
        /\ fb' = 0 \/ Brent!Changes(fb', fc')
        /\ Brent!Magnitude(fb') <= Brent!Magnitude(fc')
    BY <1>3, BrentBest DEF Brent!Test
  <2>3. CASE Brent!Return(xb', fb', "OK") /\ (Brent!Close \/ fb' = 0)
    <3>1. Brent!TypeOK'
      BY <2>1, <2>2, <2>3, <1>1
    <3>2. Brent!BestLocated'
      BY <2>2, <2>3 DEF Brent!Close, Brent!Magnitude, Brent!Changes
    <3>. QED BY <3>1, <3>2, <2>3
  <2>4. CASE Brent!Return(xb', fb', "CONVERGENCE_ERROR")
    BY <2>1, <2>2, <2>4, <1>1
  <2>5. CASE fb' # 0 /\ it < maxIt /\ pc' = "step" /\ UNCHANGED <<x, fx, code>>
    BY <2>1, <2>2, <2>5, <1>1 DEF Brent!Changes
  <2>6. Brent!Exhausted \/ Brent!Pass
    BY <1>3, <1>1 DEF Brent!Exhausted, Brent!Pass
  <2>. QED BY <1>3, <2>3, <2>4, <2>5, <2>6 DEF Brent!Test, Brent!Pass
<1>4. ASSUME NEW v \in Values, NEW move \in Brent!Moves, Brent!Update(v, move)
      PROVE  BrentInv'
  <2>1. /\ pc = "step" /\ pc' = "test" /\ it' = it + 1 /\ UNCHANGED <<x, fx, code>>
        /\ xa' = xb /\ fa' = fb /\ xb' = move.to /\ fb' = v /\ Brent!Opposite(v, move)
    BY <1>4 DEF Brent!Update
  <2>2. it < maxIt
    BY <2>1
  <2>3. /\ xc' \in 0..BrentWidth /\ fc' \in Values
        /\ d' \in -BrentWidth..BrentWidth /\ e' \in -BrentWidth..BrentWidth
        /\ v = 0 \/ Brent!Changes(v, fc')
    BY <2>1, <1>4, BrentOpposite
  <2>4. move.to \in 0..BrentWidth
    BY BrentMoves
  <2>. QED BY <2>1, <2>2, <2>3, <2>4, <1>1 DEF Brent!Changes
<1>. QED BY <1>2, <1>3, <1>4 DEF Brent!Next

\* Putting the sides right and the smaller value first restores the bracket.
LEMMA EventOrder ==
  ASSUME RootsAssumption, EventInv, pc = "test", Brent!Order
  PROVE  /\ {xa', xb', xc'} \subseteq 0..BrentWidth /\ {fa', fb', fc'} \subseteq Values
         /\ fb' = 0 \/ Brent!Changes(fb', fc')
         /\ Brent!Magnitude(fb') <= Brent!Magnitude(fc')
<1>. DEFINE p == Brent!Sided.p
            v == Brent!Sided.v
<1>1. /\ {xa, xb, xc} \subseteq 0..BrentWidth /\ {fa, fb, fc} \subseteq Values
      /\ fa \in Int /\ fb \in Int /\ fc \in Int
      /\ fb = 0 \/ Brent!Changes(fb, fc) \/ (Brent!SameSide /\ Brent!Changes(fa, fb))
  BY DEF EventInv, Brent!TypeOK, RootsAssumption
<1>2. p \in 0..BrentWidth /\ v \in Values /\ v \in Int
  BY <1>1 DEF Brent!Sided
<1>3. fb = 0 \/ Brent!Changes(fb, v)
  <2>1. CASE Brent!SameSide
    <3>1. (fb < 0 /\ fc < 0) \/ (fb > 0 /\ fc > 0)
      BY <2>1, <1>1, SameSides DEF Brent!SameSide
    <3>2. v = fa
      BY <2>1 DEF Brent!Sided
    <3>3. Brent!Changes(fa, fb)
      BY <3>1, <1>1 DEF Brent!Changes, Brent!Sign
    <3>4. Brent!Changes(fb, fa)
      BY <3>3, <1>1 DEF Brent!Changes, Brent!Sign
    <3>. QED BY <3>2, <3>4
  <2>2. CASE ~Brent!SameSide
    BY <2>2, <1>1 DEF Brent!Sided
  <2>. QED BY <2>1, <2>2
<1>4. CASE Brent!Magnitude(v) < Brent!Magnitude(fb)
  <2>1. Brent!Changes(fb, v)
    BY <1>1, <1>2, <1>3, <1>4 DEF Brent!Magnitude
  <2>2. Brent!Changes(v, fb)
    BY <2>1, <1>1, <1>2 DEF Brent!Changes, Brent!Sign
  <2>3. /\ xa' = xb /\ fa' = fb /\ xb' = p /\ fb' = v /\ xc' = xb /\ fc' = fb
    BY <1>4 DEF Brent!Order
  <2>. QED BY <2>2, <2>3, <1>1, <1>2, <1>4 DEF Brent!Magnitude
<1>5. CASE ~(Brent!Magnitude(v) < Brent!Magnitude(fb))
  <2>1. xc' = p /\ fc' = v /\ UNCHANGED <<xa, xb, fa, fb>>
    BY <1>5 DEF Brent!Order
  <2>. QED BY <2>1, <1>1, <1>2, <1>3, <1>5 DEF Brent!Magnitude
<1>. QED BY <1>4, <1>5

\* The event finder keeps its bracket, and the event is located unless the
\* passes run out.
LEMMA EventStep ==
  ASSUME RootsAssumption, EventInv, Brent!LocateNext
  PROVE  EventInv'
<1>. USE DEF EventInv, Brent!TypeOK, Brent!BracketKept, Brent!EventLocated,
             Brent!BestLocated, Brent!Return
<1>1. Values \subseteq Int /\ maxIt' = maxIt /\ maxIt \in Nat
  BY DEF RootsAssumption, Brent!LocateNext
<1>2. CASE Brent!LocateTest
  <2>1. pc = "test" /\ it' = it /\ it < maxIt
    BY <1>2 DEF Brent!LocateTest
  <2>2. /\ {xa', xb', xc'} \subseteq 0..BrentWidth /\ {fa', fb', fc'} \subseteq Values
        /\ fb' = 0 \/ Brent!Changes(fb', fc')
        /\ Brent!Magnitude(fb') <= Brent!Magnitude(fc')
    BY <1>2, <2>1, EventOrder DEF Brent!LocateTest
  <2>3. d' \in -BrentWidth..BrentWidth /\ e' \in -BrentWidth..BrentWidth
    <3>1. xb - xa \in -BrentWidth..BrentWidth
      BY DEF RootsAssumption
    <3>2. d \in -BrentWidth..BrentWidth /\ e \in -BrentWidth..BrentWidth
      OBVIOUS
    <3>. QED BY <3>1, <3>2, <1>2 DEF Brent!LocateTest
  <2>4. CASE Brent!Close \/ fb' = 0
    <3>1. Brent!Return(xb', fb', "OK")
      BY <2>4, <1>2 DEF Brent!LocateTest
    <3>2. Brent!TypeOK'
      BY <3>1, <2>1, <2>2, <2>3, <1>1
    <3>3. Brent!BestLocated'
      BY <3>1, <2>2, <2>4 DEF Brent!Close, Brent!Magnitude, Brent!Changes
    <3>. QED BY <3>1, <3>2, <3>3
  <2>5. CASE ~(Brent!Close \/ fb' = 0)
    <3>1. pc' = "step" /\ UNCHANGED <<x, fx, code>>
      BY <2>5, <1>2 DEF Brent!LocateTest
    <3>. QED BY <3>1, <2>1, <2>2, <2>3, <2>5, <1>1 DEF Brent!Changes
  <2>. QED BY <2>4, <2>5
<1>3. ASSUME NEW v \in Values, NEW move \in Brent!Moves, Brent!LocateUpdate(v, move)
      PROVE  EventInv'
  <2>1. /\ pc = "step" /\ it' = it + 1 /\ it < maxIt
        /\ xa' = xb /\ fa' = fb /\ xb' = move.to /\ fb' = v
        /\ d' = move.d /\ e' = move.e /\ xc' = xc /\ fc' = fc
    BY <1>3 DEF Brent!LocateUpdate
  <2>2. /\ move.to \in 0..BrentWidth
        /\ move.d \in -BrentWidth..BrentWidth /\ move.e \in -BrentWidth..BrentWidth
    BY BrentMoves
  <2>3. /\ fb \in Int /\ fc \in Int /\ v \in Int /\ fb \in Values /\ fc \in Values
        /\ Brent!Changes(fb, fc)
    BY <2>1, <1>1
  <2>4. v = 0 \/ Brent!Changes(v, fc) \/ (v * fc > 0 /\ Brent!Changes(fb, v))
    <3>1. (fb < 0 /\ fc > 0) \/ (fb > 0 /\ fc < 0)
      BY <2>3, <1>1, EventSides
    <3>2. CASE (v < 0 /\ fc < 0) \/ (v > 0 /\ fc > 0)
      <4>1. v * fc > 0
        BY <3>2, <2>3, SameSides
      <4>2. Brent!Changes(fb, v)
        BY <3>1, <3>2, <2>3, <1>1, EventSides
      <4>. QED BY <4>1, <4>2
    <3>3. CASE (v < 0 /\ fc > 0) \/ (v > 0 /\ fc < 0)
      BY <3>3, <2>3, <1>1, EventSides
    <3>. QED BY <3>1, <3>2, <3>3, <2>3
  <2>5. it' \in 0..maxIt /\ (it' # maxIt => it' < maxIt)
    BY <2>1, <1>1
  <2>6. CASE it' = maxIt
    <3>1. Brent!Return(xb', fb', "OK")
      BY <2>6, <1>3 DEF Brent!LocateUpdate
    <3>. QED BY <3>1, <2>1, <2>2, <2>5, <2>6, <1>1
  <2>7. CASE it' # maxIt
    <3>1. pc' = "test" /\ UNCHANGED <<x, fx, code>>
      BY <2>7, <1>3 DEF Brent!LocateUpdate
    <3>2. Brent!SameSide' <=> v * fc > 0
      BY <2>1 DEF Brent!SameSide
    <3>. QED BY <3>1, <3>2, <2>1, <2>2, <2>4, <2>5, <2>7, <1>1 DEF Brent!Changes
  <2>. QED BY <2>6, <2>7
<1>. QED BY <1>2, <1>3 DEF Brent!LocateNext

-----------------------------------------------------------------------------
(* The finders behind their contract.                                      *)

IInv ==
  /\ finder \in {"bisect", "newton", "brent", "event"}
  /\ finder = "bisect" => BisectInv
  /\ finder = "newton" => NewtonInv
  /\ finder = "brent" => BrentInv
  /\ finder = "event" => EventInv

\* Whichever finder is called works with a bracket from the start to the end.
LEMMA Inductive ==
  ASSUME RootsAssumption, NoUnderflow
  PROVE  /\ RootsInit => IInv
         /\ IInv /\ [RootsNext]_rootsVars => IInv'
<1>1. RootsInit => IInv
  BY BisectStart, NewtonStart, BrentStart, EventStart DEF RootsInit, IInv
<1>2. ASSUME IInv, [RootsNext]_rootsVars PROVE IInv'
  <2>1. CASE finder = "bisect" /\ Bisection!Next /\ finder' = finder
    BY <2>1, <1>2, BisectStep DEF IInv
  <2>2. CASE finder = "newton" /\ Newton!Next /\ finder' = finder
    BY <2>2, <1>2, NewtonStep DEF IInv
  <2>3. CASE finder = "brent" /\ Brent!Next /\ finder' = finder
    BY <2>3, <1>2, BrentStep DEF IInv
  <2>4. CASE finder = "event" /\ Brent!LocateNext /\ finder' = finder
    BY <2>4, <1>2, EventStep DEF IInv
  <2>5. CASE UNCHANGED rootsVars
    BY <2>5, <1>2
    DEF IInv, rootsVars, BisectInv, NewtonInv, BrentInv, EventInv,
        Bisection!TypeOK, Bisection!BracketKept, Bisection!RootLocated, Bisection!Changes,
        Bisection!Lower, Bisection!Upper, Bisection!Sign,
        Newton!TypeOK, Newton!BracketKept, Newton!EvaluatesInside, Newton!Changes,
        Newton!Between, Newton!Lower, Newton!Upper,
        Brent!TypeOK, Brent!BracketKept, Brent!BestLocated, Brent!EventLocated,
        Brent!SameSide, Brent!Changes, Brent!Magnitude
  <2>. QED BY <1>2, <2>1, <2>2, <2>3, <2>4, <2>5 DEF RootsNext
<1>. QED BY <1>1, <1>2

\* In every call, of every finder and on every function whose products do not
\* underflow, what the finder works with holds a sign change of f itself, and
\* Newton's method evaluates strictly inside its bracket from the second pass
\* on.
THEOREM Bracketed == ASSUME NoUnderflow PROVE RootsSpec => []BracketKept
<1>1. RootsAssumption
  BY RootsAssumption
<1>2. IInv => BracketKept
  BY DEF IInv, BracketKept, RootsTypeOK, BisectInv, NewtonInv, BrentInv, EventInv
<1>. QED BY <1>1, <1>2, Inductive, PTL DEF RootsSpec

\* A finder that reports success returns a root of f or a point with a sign
\* change within the tolerance around it, for Brent's method the better end of
\* it; so does the event finder, unless its passes run out.
THEOREM Located == ASSUME NoUnderflow PROVE RootsSpec => []RootLocated
<1>1. RootsAssumption
  BY RootsAssumption
<1>2. IInv => RootLocated
  BY DEF IInv, RootLocated, BisectInv, BrentInv, EventInv
<1>. QED BY <1>1, <1>2, Inductive, PTL DEF RootsSpec

\* The event finder needs no such hypothesis, because it compares signs: on
\* every function it works with a sign change of g, and what it reports is a
\* zero or the better end of a sign change within the tolerance.
THEOREM EventFound ==
  RootsSpec => [](finder = "event" => Brent!BracketKept /\ Brent!EventLocated)
<1>. DEFINE Inv == finder = "event" => EventInv
<1>1. RootsAssumption
  BY RootsAssumption
<1>2. RootsInit => Inv
  BY <1>1, EventStart DEF RootsInit
<1>3. Inv /\ [RootsNext]_rootsVars => Inv'
  <2>1. ASSUME Inv, RootsNext PROVE Inv'
    <3>1. CASE finder' = "event"
      <4>1. finder = "event" /\ Brent!LocateNext
        BY <2>1, <3>1 DEF RootsNext
      <4>. QED BY <4>1, <2>1, <1>1, EventStep
    <3>. QED BY <3>1
  <2>2. ASSUME Inv, UNCHANGED rootsVars PROVE Inv'
    BY <2>2 DEF rootsVars, EventInv, Brent!TypeOK, Brent!BracketKept, Brent!BestLocated,
                Brent!EventLocated, Brent!SameSide, Brent!Changes, Brent!Magnitude
  <2>. QED BY <2>1, <2>2
<1>4. Inv => (finder = "event" => Brent!BracketKept /\ Brent!EventLocated)
  BY DEF EventInv
<1>. QED BY <1>2, <1>3, <1>4, PTL DEF RootsSpec
=============================================================================
