-------------------------- MODULE MultirootNewton --------------------------
(***************************************************************************)
(* The solvers for systems of equations: multiroot_step called by a device *)
(* loop, multiroot_hybrid called on its own, both started on the same      *)
(* system, and multiroot_hybrids called again and again with one cache.    *)
(* `mode' says which of the four the behaviour is; what the others would   *)
(* use stays as it began.                                                  *)
(***************************************************************************)
EXTENDS MultirootRC

CONSTANTS
  Trials,       \* trial points of one line search of multiroot_hybrid (30)
  PairMaxIter,  \* max_iter of the two solvers run side by side
  PairSteps,    \* the step lengths that occur then
  HybridIter, SlowIters, SlowJacs, Radius, XtolLevel, Sizes, Calls
                \* of multiroot_hybrids

ASSUME TrialsAssumption == Trials \in Nat \ {0}
ASSUME PairAssumption == PairMaxIter \in Nat /\ PairSteps \subseteq StepKinds
ASSUME HybridsAssumption ==
  /\ HybridIter \in Nat /\ Calls \in Nat /\ Radius \in Nat
  /\ SlowIters \in Nat \ {0} /\ SlowJacs \in Nat \ {0}
  /\ XtolLevel \in 0..Radius + 1

VARIABLES
  mode,                        \* "device", "host", "both" or "hybrids"
  pc, it, status,              \* multiroot_hybrid, multiroot_hybrids
  k, hx, hf,                   \* multiroot_hybrid
  memo, plain,                 \* the common system
  call, n, cached, moved, ncsuc, ncfail, nslow1, nslow2, jeval, reuse, clean,
  sing, delta, est, best, made, jacs, xok, warm    \* multiroot_hybrids

hostVars == <<pc, it, k, hx, hf, status>>
hybridsOwn == <<call, n, cached, moved, ncsuc, ncfail, nslow1, nslow2, jeval, reuse,
                clean, sing, delta, est, best, made, jacs, xok, warm>>
newtonVars == <<mode, vars, hostVars, memo, plain, hybridsOwn>>

Host == INSTANCE MultirootHybrid WITH x <- hx, f <- hf

Pair == INSTANCE MultirootPair WITH MaxIter <- PairMaxIter

Hybrids == INSTANCE MultirootHybrids WITH MaxIter <- HybridIter

\* Nothing of a solver has happened.
NoDevice ==
  /\ phase = "START" /\ iter = 0 /\ ls = 0 /\ fail = "OK" /\ x = <<>> /\ xBase = <<>>
  /\ base = f /\ action = "NEED_FJ" /\ ready = FALSE
NoHybrids ==
  /\ call = 0 /\ n \in Sizes /\ \A m \in Sizes : n <= m
  /\ cached = FALSE /\ moved = FALSE /\ jeval = FALSE /\ reuse = FALSE
  /\ clean = FALSE /\ sing = FALSE /\ xok = TRUE
  /\ ncsuc = 0 /\ ncfail = 0 /\ nslow1 = 0 /\ nslow2 = 0
  /\ delta = 0 /\ made = 0 /\ jacs = 0
  /\ est = [id |-> 0, noisy |-> FALSE, sing |-> FALSE, finite |-> TRUE] /\ best = est
  /\ warm = [valid |-> FALSE, n |-> n, est |-> est]

NewtonInit ==
  \/ mode = "device" /\ Init /\ hf = f
     /\ pc = "entry" /\ it = 0 /\ k = 0 /\ hx = <<>> /\ status = "OK"
     /\ memo = <<>> /\ plain = FALSE /\ NoHybrids
  \/ mode = "host" /\ Host!Init /\ f = hf
     /\ NoDevice /\ memo = <<>> /\ plain = FALSE /\ NoHybrids
  \/ mode = "both" /\ Pair!Init /\ NoHybrids
  \/ mode = "hybrids" /\ Hybrids!Init
     /\ f = (CHOOSE r \in Residual : TRUE) /\ hf = f /\ NoDevice
     /\ k = 0 /\ hx = <<>> /\ memo = <<>> /\ plain = FALSE

NewtonNext ==
  /\ UNCHANGED mode
  /\ \/ mode = "device" /\ Next /\ UNCHANGED <<hostVars, memo, plain, hybridsOwn>>
     \/ mode = "host" /\ Host!Next /\ UNCHANGED <<vars, memo, plain, hybridsOwn>>
     \/ mode = "both" /\ Pair!Next /\ UNCHANGED hybridsOwn
     \/ mode = "hybrids" /\ Hybrids!Next /\ UNCHANGED <<vars, k, hx, hf, memo, plain>>

\* Each call is one sequential computation: it goes on until it returns.
NewtonSpec == NewtonInit /\ [][NewtonNext]_newtonVars /\ WF_newtonVars(NewtonNext)

-----------------------------------------------------------------------------
(* Properties. *)

TypesOK ==
  /\ TypeOK
  /\ mode = "host" => Host!TypeOK
  /\ mode = "hybrids" => Hybrids!TypeOK

\* Where nothing unusual happens ("The math reproduces multiroot_hybrid
\* exactly") the two solvers report the same outcome at the same point.
AgreesOnPlainRuns == mode = "both" => Pair!AgreesOnPlainRuns

\* multiroot_step and multiroot_hybrid report success only at a root,
\* multiroot_hybrids only at a point that passed a convergence test, and
\* DOMAIN_ERROR exactly for a failure with a singular current factor.
StatusIsHonest ==
  /\ mode = "device" => DoneIsConverged
  /\ mode = "host" => Host!OkIsRoot
  /\ mode = "hybrids" => Hybrids!StatusIsHonest

\* The cost of a call: no counter passes its cap, although halvings, fallbacks
\* and iterations are counted in different places; multiroot_hybrid counts
\* every step of the point it returns, and multiroot_hybrids rebuilds a
\* Jacobian only after two poor ratios in a row.
WorkBounded ==
  /\ TypesOK
  /\ mode = "host" => Host!WorkBounded
  /\ mode = "hybrids" => Hybrids!JacobiansBounded

\* The warm cache, after any sequence of calls that succeed and fail, holds
\* the latest estimate without noise-level updates, and what the next call
\* takes from it is finite.
WarmIsSound == mode = "hybrids" => Hybrids!WarmIsLatestClean /\ Hybrids!WarmIsUsable

\* A solver is in the middle of a call.
Busy ==
  \/ mode \in {"device", "both"} /\ phase # "DONE"
  \/ mode \in {"host", "both"} /\ pc # "done"
  \/ mode = "hybrids" /\ pc # "exit"

\* Every call of multiroot_hybrid and multiroot_hybrids returns, the loop
\* around multiroot_step ends, and so do the two on one system for as long as
\* they are followed.
Returns == Busy ~> ~Busy \/ (mode = "both" /\ ~plain)
=============================================================================
