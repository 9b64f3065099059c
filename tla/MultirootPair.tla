--------------------------- MODULE MultirootPair ---------------------------
(***************************************************************************)
(* The two Newton solvers on the same system, started from the same x0.    *)
(* F is a function, so a point that both solvers reach has one residual.   *)
(* The host goes first and `memo' keeps what it has seen of F until the    *)
(* caller of multiroot_step has asked for the same point; it goes on when  *)
(* that caller needs a value that is not there.                            *)
(***************************************************************************)
EXTENDS Residuals, Sequences

CONSTANTS
  MaxIter,
  MaxHalvings,   \* of multiroot_step
  Trials,        \* of line_search_fdf
  PairSteps      \* the step lengths that occur on the common system

VARIABLES pc, it, k, hx, hf, status,                            \* the host
          phase, iter, ls, fail, x, xBase, base, action, f, ready, \* the stepper
          memo,   \* F where the host has been and the stepper has not
          plain   \* nothing unusual has happened so far

Host == INSTANCE MultirootHybrid WITH x <- hx, f <- hf
RC == INSTANCE MultirootRC

vars == <<pc, it, k, hx, hf, status,
          phase, iter, ls, fail, x, xBase, base, action, f, ready, memo, plain>>

Init ==
  /\ Host!Init /\ RC!Init /\ hf = f
  /\ memo = [p \in {<<>>} |-> f]
  /\ plain = (MaxIter > 0)

PairResidual == {r \in Residual : r.step \in PairSteps}

\* The host calls its callback at p.
HostValue(p, r) ==
  /\ memo' = [q \in DOMAIN memo \union {p} |-> IF q = p THEN r ELSE memo[q]]
  /\ plain' = (plain /\ r.nan = "none" /\ r.step = "long"
                     /\ (k + 1 < Trials \/ pc = "entry"))

HostStep ==
  /\ ~ready /\ x \notin DOMAIN memo
  /\ \/ Host!Newton /\ UNCHANGED <<memo, plain>>
     \/ \E r \in PairResidual : Host!Trial(r) /\ HostValue(Append(hx, k), r)
  /\ UNCHANGED <<phase, iter, ls, fail, x, xBase, base, action, f, ready>>

HostEntry ==
  /\ pc = "entry"
  /\ Host!Entry(memo[<<>>])
  /\ UNCHANGED <<phase, iter, ls, fail, x, xBase, base, action, f, ready,
                 memo, plain>>

\* The stepper's caller evaluates F at x: what the host saw there, or, once
\* the host has returned, anything F may be at a new point.
ValueAt(p, r) ==
  IF p \in DOMAIN memo
  THEN /\ r = memo[p]
       /\ memo' = [q \in DOMAIN memo \ {p} |-> memo[q]]
  ELSE pc = "done" /\ UNCHANGED memo

RCStep ==
  /\ pc # "entry"
  /\ \/ \E r \in PairResidual : RC!Evaluate(r) /\ ValueAt(x, r)
     \/ RC!Step /\ UNCHANGED memo
  /\ UNCHANGED <<pc, it, k, hx, hf, status, plain>>

\* A pair that has left the plain runs is not followed any further.
Next == plain /\ (HostEntry \/ HostStep \/ RCStep)

Spec == Init /\ [][Next]_vars

-----------------------------------------------------------------------------
(* Properties. *)

BothDone == pc = "done" /\ phase = "DONE"

SameAnswer ==
  /\ x = hx
  /\ (action = "DONE") <=> (status = "OK")
  /\ (fail = "SINGULAR") <=> (status = "DOMAIN_ERROR")

\* A plain run: no step of it was below xtol, no residual had a NaN, and
\* every line search found a decrease before its last trial.
\* On such runs the two do agree: same Newton points, same trials, same end.
AgreesOnPlainRuns == BothDone /\ plain => SameAnswer
=============================================================================
