-------------------------- MODULE MultirootHybrids --------------------------
(***************************************************************************)
(* multiroot_hybrids of src/roots/fortnum_multiroot.f90, Powell's hybrid   *)
(* method, called again and again on related systems with one warm cache.  *)
(*                                                                         *)
(* The factored Jacobian estimate is abstracted to its history: `made'     *)
(* numbers the estimates of a call in the order they are formed (0 is the  *)
(* one taken over from the cache); `noisy' says that it contains a secant  *)
(* update of a step that cut |F|_2 by less than 10%.  The trust radius and *)
(* the step length live on a scale of powers of two, 0 being the rounding  *)
(* level of x; the change of |x| along the way is left out.                *)
(***************************************************************************)
EXTENDS Integers, FiniteSetsExt

CONSTANTS
  MaxIter,      \* max_iter
  SlowIters,    \* iterations without a cut of 0.1% (10)
  SlowJacs,     \* Jacobian evaluations without a cut of 10% (5)
  Radius,       \* FACTOR*|x0|_2 on the scale
  XtolLevel,    \* levels at or below xtol*(|x|_2 + xtol)
  Sizes,        \* the sizes n the caller solves for
  Calls         \* calls made with one cache (model bound)

VARIABLES
  pc,       \* at the head of a loop, or returned
  call,     \* calls made
  n, cached,              \* size(x0) and present(warm) of this call
  it, moved, ncsuc, ncfail, nslow1, nslow2,
            \* the counters; moved is nsucc > 0, ncsuc counts up to 2
  jeval, reuse, clean, sing,
  delta,    \* the trust radius
  est,      \* the estimate q r
  best,     \* the latest estimate that is not noisy
  made,     \* estimates formed in this call
  jacs,     \* of those, the forward-difference ones
  xok,      \* x passes one of the two convergence tests
  status,
  warm      \* the cache

counters == <<it, moved, ncsuc, ncfail, nslow1, nslow2>>
matrices == <<est, best, made, jacs>>
vars == <<pc, call, n, cached, counters, jeval, reuse, clean, sing, delta,
          matrices, xok, status, warm>>

Estimate == [id : Nat, noisy : BOOLEAN, sing : BOOLEAN, finite : BOOLEAN]

TypeOK ==
  /\ pc \in {"region", "trial", "exit"}
  /\ call \in 0..Calls /\ n \in Sizes /\ cached \in BOOLEAN
  /\ it \in 0..MaxIter + 1
  /\ ncsuc \in 0..2 /\ ncfail \in Nat
  /\ nslow1 \in 0..SlowIters /\ nslow2 \in 0..SlowJacs
  /\ {moved, jeval, reuse, clean, sing, xok} \subseteq BOOLEAN
  /\ delta \in 0..Radius
  /\ {est, best, warm.est} \subseteq Estimate
  /\ made \in Nat /\ jacs \in 0..made
  /\ status \in {"OK", "DOMAIN_ERROR", "CONVERGENCE_ERROR"}
  /\ warm.valid \in BOOLEAN /\ warm.n \in Sizes

\* What one trial shows.  ratio is actred/prered in the intervals the code
\* tells apart ("exact" is within 10% of 1); actred is below 0.1%, below 10%
\* or above, and below 10% for a weak ratio; end says that the trial passes a
\* convergence test: the Gauss-Newton step is within step_tol, or |F| <= ftol
\* at an accepted point.
Outcome ==
  {o \in [ratio : {"poor", "weak", "fair", "good", "exact"},
          actred : {"none", "slight", "cut"},
          end : {"no", "step", "root"}] :
     /\ o.ratio = "weak" => o.actred # "cut"
     /\ o.ratio = "poor" => o.end # "root"}

\* With factors that are not finite no comparison holds, except that a single
\* infinite factor (n = 1) divides to a Gauss-Newton step of length zero, which
\* step_tol accepts.
Possible(o, length) ==
  \/ est.finite
  \/ /\ o.ratio = "poor" /\ o.actred = "none"
     /\ \/ o.end = "no" /\ length = delta
        \/ n = 1 /\ o.end # "root" /\ length = 0

Init ==
  /\ pc = "exit" /\ call = 0 /\ n \in Sizes /\ cached = FALSE
  /\ it = 0 /\ moved = FALSE /\ ncsuc = 0 /\ ncfail = 0 /\ nslow1 = 0 /\ nslow2 = 0
  /\ jeval = FALSE /\ reuse = FALSE /\ clean = FALSE /\ sing = FALSE
  /\ delta = Radius
  /\ est = [id |-> 0, noisy |-> FALSE, sing |-> FALSE, finite |-> TRUE]
  /\ best = est /\ made = 0 /\ jacs = 0
  /\ xok = TRUE /\ status = "OK"
  /\ warm = [valid |-> FALSE, n |-> n, est |-> est]

-----------------------------------------------------------------------------
(* The caller. *)

\* A call; F(x0) may already be small.  The caller may have set
\* warm%valid = .false. first.
Enter(size, keep, hasCache) ==
  /\ pc = "exit" /\ call < Calls
  /\ call' = call + 1 /\ n' = size /\ cached' = hasCache
  /\ warm' = [warm EXCEPT !.valid = @ /\ keep, !.est.id = 0]
  /\ status' = "OK"
  /\ it' = 0 /\ moved' = FALSE
  /\ ncsuc' = 0 /\ ncfail' = 0 /\ nslow1' = 0 /\ nslow2' = 0
  /\ reuse' = (hasCache /\ warm'.valid /\ warm.n = size)
  /\ made' = 0 /\ jacs' = 0
  /\ best' = warm'.est
  /\ \/ pc' = "exit" /\ xok' = TRUE
     \/ pc' = "region" /\ xok' = FALSE
  /\ UNCHANGED <<jeval, clean, sing, delta, est>>

-----------------------------------------------------------------------------
(* The solver. *)

Kinds == {"regular", "singular", "overflown"}

Formed(noisy, kind) ==
  [id |-> made + 1, noisy |-> noisy,
   sing |-> kind = "singular", finite |-> kind # "overflown"]

\* The q r that broyden_update makes of the current one.
Secant(o, kind) ==
  Formed(est.noisy \/ o.actred # "cut", IF est.finite THEN kind ELSE "overflown")

\* save_warm: factors that are not finite leave the old ones, marked invalid.
Saved(e) == IF e.finite THEN [valid |-> TRUE, n |-> n, est |-> e]
            ELSE [warm EXCEPT !.valid = FALSE]

\* The head of the outer loop: the bound restarts until a step has been
\* accepted; the estimate comes from the cache once, else from differences.
Region ==
  /\ pc = "region"
  /\ pc' = "trial"
  /\ delta' = IF moved THEN delta ELSE Radius
  /\ IF reuse
     THEN /\ est' = warm.est /\ best' = warm.est
          /\ jeval' = FALSE
          /\ UNCHANGED <<made, jacs>>
     ELSE /\ \E kind \in Kinds : est' = Formed(FALSE, kind)
          /\ best' = est'
          /\ made' = made + 1 /\ jacs' = jacs + 1
          /\ jeval' = TRUE
  /\ reuse' = FALSE
  /\ clean' = TRUE
  /\ sing' = est'.sing
  /\ UNCHANGED <<call, n, cached, counters, xok, status, warm>>

\* Slip: the cache is only filled by a call that succeeds.
FailSlip ==
  /\ pc' = "exit"
  /\ status' = IF sing THEN "DOMAIN_ERROR" ELSE "CONVERGENCE_ERROR"
  /\ UNCHANGED warm

\* The internal subroutine fail.
Fail ==
  /\ pc' = "exit"
  /\ status' = IF sing THEN "DOMAIN_ERROR" ELSE "CONVERGENCE_ERROR"
  /\ warm' = IF cached /\ clean THEN Saved(est) ELSE warm

\* it > max_it.
OutOfIterations ==
  /\ pc = "trial" /\ it = MaxIter
  /\ it' = it + 1
  /\ Fail
  /\ UNCHANGED <<call, n, cached, moved, ncsuc, ncfail, nslow1, nslow2, jeval,
                 reuse, clean, sing, delta, matrices, xok>>

\* A converged trial: the cache takes the estimate, with the secant update of
\* the last step where that step carries slope.
Converge(o) ==
  /\ pc' = "exit" /\ xok' = TRUE /\ status' = "OK"
  /\ IF cached /\ clean /\ o.actred = "cut"
     THEN /\ \E kind \in Kinds : est' = Secant(o, kind)
          /\ made' = made + 1
          /\ best' = IF est'.noisy THEN best ELSE est'
          /\ warm' = Saved(est')
     ELSE /\ warm' = IF cached /\ clean THEN Saved(est) ELSE warm
          /\ UNCHANGED <<est, best, made>>
  /\ UNCHANGED <<call, n, cached, reuse, clean, sing, jeval, jacs>>

Bound(length) == IF moved THEN delta ELSE Min({delta, length})

\* step_tol: the trial is returned whatever it did to |F|.
StepTest(o, length) ==
  /\ o.end = "step"
  /\ delta' = Bound(length)
  /\ Converge(o)
  /\ UNCHANGED <<moved, ncsuc, ncfail, nslow1, nslow2>>

Poor(o) == o.ratio \in {"poor", "weak"}
Accepted(o) == o.ratio # "poor"

\* The trust region and the ratio counters after a trial.
Adapt(o, length) ==
  LET b == Bound(length)
      grown == Min({Radius, length + 1})
      successes == Min({2, ncsuc + 1})
  IN IF Poor(o)
     THEN /\ ncsuc' = 0 /\ ncfail' = ncfail + 1
          /\ delta' = Max({0, b - 1})
     ELSE /\ ncsuc' = successes /\ ncfail' = 0
          /\ delta' = IF o.ratio = "exact" THEN grown
                      ELSE IF o.ratio = "good" \/ successes > 1 THEN Max({b, grown})
                      ELSE b

\* The residual at the accepted trial is small.
AcceptRoot(o, length) ==
  /\ o.end = "root"
  /\ moved' = TRUE
  /\ Adapt(o, length)
  /\ Converge(o)
  /\ UNCHANGED <<nslow1, nslow2>>

Slow(o) ==
  /\ nslow1' = IF o.actred # "none" THEN 0 ELSE nslow1 + 1
  /\ nslow2' = IF o.actred = "cut" THEN 0
               ELSE IF jeval THEN nslow2 + 1 ELSE nslow2

\* The four failure tests after a trial.
Stagnates(o, length) ==
  \/ delta' < XtolLevel /\ o.actred # "cut"
  \/ delta' = 0 /\ length = 0
  \/ nslow2' = SlowJacs
  \/ nslow1' = SlowIters

FirstNoise(o) == cached /\ clean /\ o.actred # "cut"

\* Slips: the diagonal of R is not looked at again; noise goes unnoticed.
UpdateStaleSing(o) ==
  /\ warm' = IF FirstNoise(o) THEN Saved(est) ELSE warm
  /\ clean' = (clean /\ ~FirstNoise(o))
  /\ \E kind \in Kinds : est' = Secant(o, kind)
  /\ made' = made + 1
  /\ best' = IF est'.noisy THEN best ELSE est'
  /\ UNCHANGED sing
\* The estimate from before the first noise-level update is kept, then the
\* secant update is made.
Update(o) ==
  /\ warm' = IF FirstNoise(o) THEN Saved(est) ELSE warm
  /\ clean' = (clean /\ ~FirstNoise(o))
  /\ \E kind \in Kinds : est' = Secant(o, kind)
  /\ made' = made + 1
  /\ best' = IF est'.noisy THEN best ELSE est'
  /\ sing' = est'.sing

\* Slip: one poor ratio is enough.
RefreshSlip == ncfail' >= 1

Refresh == ncfail' = 2

\* A trial that does not converge.
Continue(o, length) ==
  /\ o.end = "no"
  /\ moved' = (moved \/ Accepted(o))
  /\ Adapt(o, length)
  /\ Slow(o)
  /\ \/ /\ Stagnates(o, length)
        /\ Fail
        /\ UNCHANGED <<jeval, clean, sing, est, best, made>>
     \/ /\ ~Stagnates(o, length) /\ Refresh
        /\ pc' = "region"
        /\ UNCHANGED <<jeval, clean, sing, est, best, made, status, warm>>
     \/ /\ ~Stagnates(o, length) /\ ~Refresh
        /\ Update(o)
        /\ jeval' = FALSE
        /\ UNCHANGED <<pc, status>>
  /\ UNCHANGED <<call, n, cached, reuse, jacs, xok>>

\* One pass of the inner loop.
Trial(o, length) ==
  /\ pc = "trial" /\ it < MaxIter
  /\ it' = it + 1
  /\ Possible(o, length)
  /\ \/ StepTest(o, length)
     \/ AcceptRoot(o, length)
     \/ Continue(o, length)

Next ==
  \/ \E size \in Sizes, keep, hasCache \in BOOLEAN : Enter(size, keep, hasCache)
  \/ OutOfIterations
  \/ Region
  \/ \E o \in Outcome, length \in 0..delta : Trial(o, length)

-----------------------------------------------------------------------------
(* Properties. *)

\* "On return, also after a failure, it holds the latest estimate without the
\* secant updates of steps that cut |F|_2 by less than 10%.  Non-finite
\* factors invalidate it."
WarmIsLatestClean ==
  pc = "exit" /\ cached /\ (jacs > 0 \/ made > 0) =>
    /\ warm.valid = best.finite
    /\ warm.valid => warm.est = best /\ warm.n = n

\* What the next call may reuse is finite and carries no noise, whatever the
\* calls before it did, refreshes and failures included.
WarmIsUsable == warm.valid => warm.est.finite /\ ~warm.est.noisy

\* Success is only reported at a point that passed a convergence test, and
\* DOMAIN_ERROR exactly for a failure with a singular current factor.
StatusIsHonest ==
  pc = "exit" =>
    /\ (status = "OK") <=> xok
    /\ status # "OK" => ((status = "DOMAIN_ERROR") <=> est.sing)

\* The cost of a call: a Jacobian is rebuilt after two poor ratios in a row,
\* and a good one in between starts the count again, so n*(2 + it)/3 of the
\* evaluations at most go into Jacobians.
JacobiansBounded == jacs <= 1 + (it + 1) \div 3
=============================================================================
