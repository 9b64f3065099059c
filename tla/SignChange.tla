----------------------------- MODULE SignChange -----------------------------
(***************************************************************************)
(* What the scalar root finders of src/roots/fortnum_roots.f90 see of f:   *)
(* the sign of a value and its magnitude on a small scale.  Magnitude 1 is *)
(* so small that the product of two such values underflows to zero, which  *)
(* matters because the solvers test for a sign change with a product.      *)
(* Abscissae are grid points 0..Width; one grid step is the tolerance.     *)
(***************************************************************************)
EXTENDS Integers

CONSTANTS
  Width,    \* the initial bracket spans 0..Width
  Values    \* the values f takes; 0 is an exact root

Magnitude(v) == IF v < 0 THEN -v ELSE v
Sign(v) == IF v > 0 THEN 1 ELSE IF v < 0 THEN -1 ELSE 0

\* The sign of a floating-point product.
ProductSign(u, v) ==
  IF Magnitude(u) <= 1 /\ Magnitude(v) <= 1 THEN 0 ELSE Sign(u) * Sign(v)

\* f changes sign between two points.
Changes(u, v) == Sign(u) * Sign(v) = -1

Lower(p, q) == IF p < q THEN p ELSE q
Upper(p, q) == IF p < q THEN q ELSE p

\* Grid points strictly between two points.
Between(p, q) == {x \in 0..Width : Lower(p, q) < x /\ x < Upper(p, q)}

\* The midpoint of a bracket of more than one grid step, rounded either way.
Midpoints(p, q) == {x \in Between(p, q) : 2 * x - p - q \in {-1, 0, 1}}

\* The two ways round of calling a solver.
Brackets == {<<0, Width>>, <<Width, 0>>}
=============================================================================
