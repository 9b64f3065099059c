----------------------------- MODULE ScalarRoots -----------------------------
(***************************************************************************)
(* The scalar root finders of src/roots/fortnum_roots.f90, and the one     *)
(* inside src/ode/fortnum_ode_events.f90, behind their common contract: a  *)
(* caller hands one of them a bracket and reads back a point and a status. *)
(***************************************************************************)
EXTENDS Integers

CONSTANTS
  Finders,      \* the finders that are called, of "bisect", "newton", "brent", "event"
  Values,       \* the values f takes, by sign and magnitude (see SignChange)
  BisectWidth, NewtonWidth, BrentWidth,   \* grid steps of the bracket
  BisectIters, NewtonIters, BrentIters,   \* the values of max_iter that occur
  BisectXtol, NewtonXtol,                 \* xtol in grid steps
  Starts        \* starting points of Newton's method, some outside the bracket

ASSUME RootsAssumption ==
  /\ Values \subseteq Int /\ Starts \subseteq Int
  /\ {BisectWidth, NewtonWidth, BrentWidth, BisectXtol, NewtonXtol} \subseteq Nat \ {0}
  /\ BisectIters \cup NewtonIters \cup BrentIters \subseteq Nat

VARIABLES
  finder,
  pc, maxIt, it, xa, xb, fa, fb, x, code,   \* of every finder; code is the status
  fx,                    \* f at the point returned, of bisection and Brent
  ta, tb, lastSide,      \* of bisection
  xc,                    \* of Newton and Brent
  flat, xflat,           \* of Newton
  fc, d, e               \* of Brent

Bisection == INSTANCE RootBisect
  WITH status <- code, Width <- BisectWidth, MaxIters <- BisectIters, Xtol <- BisectXtol
Newton == INSTANCE RootNewton
  WITH status <- code, Width <- NewtonWidth, MaxIters <- NewtonIters, Xtol <- NewtonXtol
Brent == INSTANCE RootBrent
  WITH status <- code, Width <- BrentWidth, MaxIters <- BrentIters

rootsVars == <<finder, pc, maxIt, it, xa, xb, fa, fb, x, code,
          fx, ta, tb, lastSide, xc, flat, xflat, fc, d, e>>

OfBisect == <<ta, tb, lastSide>>
OfNewton == <<flat, xflat>>
OfBrent == <<fc, d, e>>

NoBisect == ta = 0 /\ tb = 0 /\ lastSide = 0
NoNewton == flat = FALSE /\ xflat = FALSE
NoBrent == fc = 0 /\ d = 0 /\ e = 0

RootsInit ==
  /\ finder \in Finders
  /\ \/ finder = "bisect" /\ Bisection!Init /\ xc = 0 /\ NoNewton /\ NoBrent
     \/ finder = "newton" /\ Newton!Init /\ fx = 0 /\ NoBisect /\ NoBrent
     \/ finder = "brent" /\ Brent!Init /\ NoBisect /\ NoNewton
     \/ finder = "event" /\ Brent!LocateInit /\ NoBisect /\ NoNewton

RootsNext ==
  \/ finder = "bisect" /\ Bisection!Next /\ UNCHANGED <<finder, xc, OfNewton, OfBrent>>
  \/ finder = "newton" /\ Newton!Next /\ UNCHANGED <<finder, fx, OfBisect, OfBrent>>
  \/ finder = "brent" /\ Brent!Next /\ UNCHANGED <<finder, OfBisect, OfNewton>>
  \/ finder = "event" /\ Brent!LocateNext /\ UNCHANGED <<finder, OfBisect, OfNewton>>

RootsSpec == RootsInit /\ [][RootsNext]_rootsVars

-----------------------------------------------------------------------------
(* Properties. *)

RootsTypeOK ==
  /\ finder = "bisect" => Bisection!TypeOK
  /\ finder = "newton" => Newton!TypeOK
  /\ finder \in {"brent", "event"} => Brent!TypeOK

\* "Root in [xa, xc]", "Root in [xc, xb]", "Keep xc on the opposite sign": what
\* a finder works with always holds a sign change of f itself, although
\* bisection halves values and Brent's method rotates three points.  Newton's
\* guard: from the second pass on f is evaluated strictly inside the bracket,
\* whatever f' says, so no evaluation repeats.
BracketKept ==
  /\ RootsTypeOK
  /\ finder = "bisect" => Bisection!BracketKept
  /\ finder = "newton" => Newton!BracketKept /\ Newton!EvaluatesInside
  /\ finder \in {"brent", "event"} => Brent!BracketKept

\* Success means a root, or a sign change within the tolerance of the point
\* returned; Brent's point is then the end of the bracket where f is smaller.
RootLocated ==
  /\ finder = "bisect" => Bisection!RootLocated
  /\ finder = "brent" => Brent!BestLocated
  /\ finder = "event" => Brent!EventLocated

\* "Convergence is ... guaranteed linear (bisection-like) in the worst case":
\* Brent's method makes at most twice the passes that bisection would.
NoStagnation == finder = "brent" => Brent!NoStagnation

-----------------------------------------------------------------------------
\* the instances that are model-checked: no product of NormalValues underflows;
\* DecreasingValues lets |f| decrease four times in a row on one side of the root
NormalValues == {-3, -2, 0, 2, 3}
DecreasingValues == {-6} \union 2..5
AllStarts == {-1, 0, 4, 9}
=============================================================================
