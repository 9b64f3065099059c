----------------------------- MODULE DdeabmStep -----------------------------
(***************************************************************************)
(* The variable-order Adams step of src/ode/fortnum_ode_ddeabm.f90         *)
(* (subroutine step) and the coefficients its interpolant takes over: what *)
(* each array holds after any sequence of accepted steps, failures, order  *)
(* and step changes.                                                       *)
(*                                                                         *)
(* Steps are lengths along the direction of integration.  Of a coefficient *)
(* only its index of recursion is kept: v(q) starts as 1/(q(q+1)), index   *)
(* 1, and the update with alpha(j+1) takes two neighbours of index j to    *)
(* index j+1; any other combination gives 0, a wrong number.  alpha(i) is  *)
(* 1/i for i <= ns and depends on the mesh beyond, so an index above ns is *)
(* negative: it is good for this step only.  Of phi(:,1..) the number of   *)
(* leading columns is kept that hold differences at x.                     *)
(***************************************************************************)
EXTENDS Integers, Sequences, FiniteSetsExt

CONSTANTS
  MaxOrder,   \* DDEABM_MAX_ORDER (12)
  Sizes       \* the lengths of a step, each twice the one before

VARIABLES
  pc,                     \* "idle", "judge" a trial, or "retry"
  kord, kold, kprev, ns, start, phase1, h, hold,
  psi, v, w, g, gi, kgi,
  iv,                     \* iv(1..ivc)
  depth,                  \* columns of phi that are differences at x
  last,                   \* the accepted steps, the latest first
  ifail,
  crashed                 \* the last call of step left xold at x

coefficients == <<kprev, psi, v, w, g, gi, kgi, iv>>
vars == <<pc, kord, kold, ns, start, phase1, h, hold, coefficients, depth, last,
          ifail, crashed>>

Smallest == Min(Sizes)
Largest == Max(Sizes)
Abs(i) == IF i < 0 THEN -i ELSE i

Indices == -MaxOrder..MaxOrder

TypeOK ==
  /\ pc \in {"idle", "judge", "retry"}
  /\ kord \in 1..MaxOrder /\ kold \in 0..MaxOrder /\ kprev \in 0..MaxOrder
  /\ ns \in 0..MaxOrder + 1 /\ {start, phase1, crashed} \subseteq BOOLEAN
  /\ h \in Sizes /\ hold \in Sizes \cup {0}
  /\ psi \in [1..MaxOrder -> Int]
  /\ v \in [1..MaxOrder + 1 -> Indices] /\ w \in [1..MaxOrder + 1 -> Indices]
  /\ g \in [1..MaxOrder + 1 -> Indices]
  /\ gi \in [1..MaxOrder -> Indices] /\ kgi \in 0..MaxOrder
  /\ Len(iv) <= MaxOrder - 2 /\ \A i \in DOMAIN iv : iv[i] \in 1..MaxOrder + 1
  /\ depth \in 1..MaxOrder + 2 /\ ifail \in 0..4

\* ddeabm_init; the interval gives the nominal step.
Init ==
  /\ pc = "idle" /\ kord = 1 /\ kold = 0 /\ kprev = 0 /\ ns = 0
  /\ start = TRUE /\ phase1 = TRUE /\ crashed = FALSE
  /\ h = Largest /\ hold = 0
  /\ psi = [i \in 1..MaxOrder |-> 0]
  /\ v = [i \in 1..MaxOrder + 1 |-> 0] /\ w = v /\ g = v
  /\ gi = psi /\ kgi = 0 /\ iv = <<>>
  /\ depth = 1 /\ last = <<>> /\ ifail = 0

\* The driver cuts the step to tstop.
Clip ==
  /\ pc = "idle" /\ ~start
  /\ h' \in {s \in Sizes : s < h}
  /\ UNCHANGED <<pc, kord, kold, ns, start, phase1, hold, coefficients, depth, last,
                 ifail, crashed>>

-----------------------------------------------------------------------------
(* Block 1. *)

\* ns: the steps taken with this length, one more than the last order at most.
Counted(n, len) ==
  LET base == IF len # hold THEN 0 ELSE n
  IN IF base <= kold THEN base + 1 ELSE base

\* Two neighbours of index j give one of index j + 1 when combined with
\* alpha(j + 1); n is ns.
Mix(a, b, j, n) ==
  IF Abs(a) # j \/ Abs(b) # j THEN 0 ELSE IF j + 1 <= n THEN j + 1 ELSE -(j + 1)

\* psi(i) becomes the distance from the new point to the i-th before it.
NewPsi(n, len) ==
  [i \in 1..MaxOrder |->
     IF i = n THEN n * len ELSE IF i \in n + 1..kord THEN psi[i - 1] + len ELSE psi[i]]

\* Slip: after an order increase the diagonal is rebuilt from the start.
RaisedFromSlip == 1

\* The first update of the diagonal that is missing after an order increase.
RaisedFrom == IF iv = <<>> THEN 1 ELSE kord + 1 - iv[Len(iv)]

\* v and w where the order was raised: the diagonal through v(k) is brought to
\* the index its neighbours have.
Diagonal(n) ==
  LET k == kord
      new == IF iv = <<>> THEN [v EXCEPT ![k] = 1] ELSE v
      up[j \in RaisedFrom - 1..n - 2] ==
        IF j < RaisedFrom THEN new[k + 1 - RaisedFrom]
        ELSE Mix(new[k - j], up[j - 1], j, n)
  IN [i \in 1..MaxOrder + 1 |->
        IF k - i \in RaisedFrom..n - 2 THEN up[k - i] ELSE new[i]]

\* What the loop over the g(*) makes of w, row i of it.
Rows(first, n) ==
  LET k == kord
      row[i \in n + 1..k + 1] ==
        IF i = n + 1 THEN first
        ELSE [q \in 1..MaxOrder + 1 |->
                IF q <= k + 2 - i THEN Mix(row[i - 1][q], row[i - 1][q + 1], i - 2, n)
                ELSE row[i - 1][q]]
  IN row

\* A number made for another mesh.
Stale(array) == [q \in DOMAIN array |-> IF array[q] < 0 THEN 0 ELSE array[q]]

\* Coefficients are kept while the order is below ns.
Keep ==
  /\ w' = Stale(w) /\ g' = Stale(g)
  /\ UNCHANGED <<kprev, psi, v, gi, kgi, iv>>

\* The first step of a new length.
Restarted(len) ==
  LET k == kord
      ones == [q \in 1..MaxOrder + 1 |-> IF q <= k THEN 1 ELSE Stale(v)[q]]
      first == [q \in 1..MaxOrder + 1 |-> IF q <= k THEN 1 ELSE Stale(w)[q]]
      row == Rows(first, 1)
  IN /\ psi' = NewPsi(1, len)
     /\ v' = ones /\ iv' = <<>>
     /\ kgi' = IF k = 1 THEN 0 ELSE 1
     /\ gi' = IF k = 1 THEN gi ELSE [gi EXCEPT ![1] = first[2]]
     /\ w' = row[k + 1]
     /\ g' = [i \in 1..MaxOrder + 1 |->
                IF i \in 3..k + 1 THEN row[i][1] ELSE Stale(g)[i]]
     /\ kprev' = k

\* One more step of the same length.
Extended(n, len) ==
  LET k == kord
      raised == k > kprev
      diag == IF raised THEN Diagonal(n) ELSE v
      limit1 == k + 1 - n
      next == [q \in 1..MaxOrder + 1 |->
                 IF q <= limit1 THEN Mix(diag[q], diag[q + 1], n - 1, n) ELSE diag[q]]
      first == [q \in 1..MaxOrder + 1 |->
                  IF q <= limit1 + 1 THEN next[q]
                  ELSE IF raised /\ ((q = k /\ iv = <<>>) \/ k - q \in RaisedFrom..n - 2) THEN diag[q]
                  ELSE Stale(w)[q]]
      row == Rows(first, n)
      popped == IF raised /\ iv # <<>> THEN SubSeq(iv, 1, Len(iv) - 1) ELSE iv
      diagonalGi == raised /\ n - 2 >= RaisedFrom /\ k - (n - 2) = 2
      giRaised == IF diagonalGi THEN [gi EXCEPT ![n - 1] = diag[2]]
                  ELSE IF raised /\ iv = <<>> /\ k = 2 THEN [gi EXCEPT ![1] = diag[2]]
                  ELSE gi
      kgiRaised == IF diagonalGi THEN n - 1
                   ELSE IF raised /\ iv = <<>> /\ k = 2 THEN 1 ELSE kgi
  IN /\ psi' = NewPsi(n, len)
     /\ v' = next
     /\ w' = row[k + 1]
     /\ g' = [i \in 1..MaxOrder + 1 |->
                IF i \in n + 1..k + 1 THEN row[i][1] ELSE Stale(g)[i]]
     /\ kgi' = IF limit1 = 1 THEN kgiRaised ELSE n
     /\ gi' = IF limit1 = 1 THEN giRaised ELSE [giRaised EXCEPT ![n] = first[2]]
     /\ iv' = IF k < kold THEN Append(popped, limit1 + 2) ELSE popped
     /\ kprev' = k

\* Coefficients, prediction and the evaluation at the predicted point.
Predict ==
  /\ pc \in {"idle", "retry"}
  /\ pc' = "judge"
  /\ ifail' = IF pc = "idle" THEN 0 ELSE ifail
  /\ start' = FALSE
  /\ h' \in IF start THEN Sizes ELSE {h}
  /\ ns' = Counted(ns, h')
  /\ IF kord < ns' THEN Keep
     ELSE IF ns' <= 1 THEN Restarted(h') ELSE Extended(ns', h')
  /\ UNCHANGED <<kord, kold, phase1, hold, depth, last, crashed>>

-----------------------------------------------------------------------------
(* Blocks 2 to 4. *)

\* psi(i-1) = psi(i) - h.
Restored == [i \in 1..MaxOrder |-> IF i < kord THEN psi[i + 1] - h ELSE psi[i]]

\* Orders the error estimates may ask for before the step is judged.
Kept == IF kord > 1 THEN {kord - 1, kord} ELSE {kord}

\* err > eps: x, phi and psi go back; the step is halved, after the third
\* failure by more; too short a step ends the call.
Reject ==
  /\ pc = "judge"
  /\ phase1' = FALSE
  /\ psi' = Restored
  /\ depth' = kord
  /\ ifail' = Min({4, ifail + 1})
  /\ kord' \in IF ifail' >= 3 THEN {1} ELSE Kept
  /\ ns' = 0
  /\ \/ /\ h' \in {s \in Sizes : IF ifail' > 3 THEN 2 * s <= h ELSE 2 * s = h}
        /\ pc' = "retry" /\ UNCHANGED crashed
     \/ /\ h = Smallest \/ ifail' > 3
        /\ h' = Smallest
        /\ pc' = "idle" /\ crashed' = TRUE
  /\ UNCHANGED <<kold, start, hold, kprev, v, w, g, gi, kgi, iv, last>>

\* The orders open after an accepted step: raised throughout phase 1, lowered
\* when the estimates said so, else by the estimate of order k + 1 where the
\* steps before were equal.
NextOrder(lower, inPhase1) ==
  IF inPhase1 THEN {kord + 1}
  ELSE IF lower THEN {kord - 1}
  ELSE IF kord + 1 <= ns
       THEN {k \in 1..MaxOrder : k - kord \in {-1, 0, 1}}
       ELSE {kord}

NextSize(inPhase1) ==
  LET doubled == Min({Largest, 2 * h})
  IN IF inPhase1 THEN {doubled} ELSE {doubled, h} \cup {s \in Sizes : 2 * s = h \/ s = h}

Accept(lower) ==
  /\ pc = "judge"
  /\ lower => kord > 1
  /\ phase1' = (phase1 /\ ~lower /\ kord # MaxOrder)
  /\ kord' \in NextOrder(lower, phase1')
  /\ h' \in NextSize(phase1')
  /\ kold' = kord /\ hold' = h
  /\ depth' = IF ns > kord /\ depth > kord THEN kord + 2 ELSE kord + 1
  /\ last' = SubSeq(<<h>> \o last, 1, Min({MaxOrder, Len(last) + 1}))
  /\ pc' = "idle" /\ crashed' = FALSE
  /\ ifail' = 0
  /\ UNCHANGED <<ns, start, coefficients>>

Next == Clip \/ Predict \/ Reject \/ \E lower \in BOOLEAN : Accept(lower)

Spec == Init /\ [][Next]_vars

-----------------------------------------------------------------------------
(* Properties. *)

Way(n) == LET s[i \in 0..n] == IF i = 0 THEN 0 ELSE s[i - 1] + last[i] IN s[n]

\* What a step is built on belongs to the mesh it extends: psi holds the
\* distances to the points before, ns equal steps really precede, the g(*)
\* are those of this mesh, and phi has as many columns as the order needs.
CoefficientsOfMesh ==
  pc = "judge" =>
    /\ kord <= Len(last) + 1 /\ kord <= depth
    /\ \A i \in 1..kord : psi[i] = h + Way(i - 1)
    /\ \A i \in 1..ns - 1 : i <= Len(last) => last[i] = h
    /\ \A i \in 3..kord + 1 : g[i] = IF i <= ns + 1 THEN i - 1 ELSE -(i - 1)

\* The estimate at order k + 1 differences two columns of equal steps.
EstimateInformed == pc = "judge" /\ kord + 1 <= ns => depth > kord

\* gdi of interp.
Gdi ==
  LET k == kold
      iw == iv[Len(iv)]
      m == IF iv = <<>> THEN 2 ELSE k - iw + 3
      base == IF iv = <<>> THEN 1 ELSE w[iw]
      chain[i \in m - 1..k] ==
        IF i = m - 1 THEN base ELSE Mix(w[k + 2 - i], chain[i - 1], i - 1, MaxOrder)
  IN IF k <= kgi THEN gi[k] ELSE chain[k]

\* After an accepted step the interpolant finds the double integral of the
\* order that step had, whichever of the three ways it is recovered.
InterpolantOfStep == pc = "idle" /\ kold > 0 /\ ~crashed => Abs(Gdi) = kold
=============================================================================
