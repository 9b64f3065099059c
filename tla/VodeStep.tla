------------------------------ MODULE VodeStep ------------------------------
(***************************************************************************)
(* take_step of src/ode/fortnum_ode_vode.f90: the step and order control   *)
(* of the variable-coefficient Adams method and what it remembers of the   *)
(* steps before: tau, the scale of the Nordsieck array, the correction put *)
(* aside for the estimate at the next order.                               *)
(*                                                                         *)
(* Steps are lengths along the direction of integration between hmin, the  *)
(* shortest of Sizes, and hmax, the longest.                               *)
(***************************************************************************)
EXTENDS Integers, Sequences, FiniteSetsExt

CONSTANTS
  MaxOrder,      \* maxord
  Sizes,         \* lengths of a step
  RestartWait,   \* nqwait after a restart at order 1 (10)
  ConvFailures,  \* MXNCF (10)
  ErrFailures    \* -KFH (15)

VARIABLES
  pc,                    \* "idle", "judge" a trial, "failed"
  nq, nqwait, h,
  next,                  \* h*eta, the step to take next
  held,                  \* etamax = 1
  scale,                 \* the step the columns of yh are scaled with
  tau,
  stash,                 \* the order whose acor is in the last column, its age
  formed,                \* tq(1) and tq(3) belong to this trial
  last,                  \* the accepted steps, the latest first
  kflag, ncf

vars == <<pc, nq, nqwait, h, next, held, scale, tau, stash, formed, last, kflag, ncf>>

hmin == Min(Sizes)
hmax == Max(Sizes)
KFC == 3

TypeOK ==
  /\ pc \in {"idle", "judge", "failed"}
  /\ nq \in 1..MaxOrder /\ nqwait \in 1..Max({RestartWait, MaxOrder + 1})
  /\ {h, next, scale} \subseteq Sizes /\ {held, formed} \subseteq BOOLEAN
  /\ tau \in [1..MaxOrder + 1 -> Sizes \cup {0}]
  /\ stash.order \in 0..MaxOrder - 1 /\ stash.age \in 0..2
  /\ kflag \in 0..ErrFailures /\ ncf \in 0..ConvFailures

\* vode_init and the first entry of vode_integrate_to.
Init ==
  /\ pc = "idle" /\ nq = 1 /\ nqwait = 2
  /\ h \in Sizes /\ next = h /\ scale = h
  /\ held = FALSE
  /\ tau = [i \in 1..MaxOrder + 1 |-> IF i = 1 THEN h ELSE 0]
  /\ stash = [order |-> 0, age |-> 0] /\ formed = FALSE /\ last = <<>>
  /\ kflag = 0 /\ ncf = 0

\* rescale.
Rescale(s) == h' = s /\ next' = s /\ scale' = s

\* dvset: tq(1) and tq(3) are formed when an order change is pending, at order
\* 1 always.
Formed(order, wait) == order = 1 \/ wait = 1

\* apply_pending_change and the first trial.
Begin ==
  /\ pc = "idle"
  /\ pc' = "judge" /\ kflag' = 0 /\ ncf' = 0
  /\ Rescale(next)
  /\ formed' = Formed(nq, nqwait)
  /\ UNCHANGED <<nq, nqwait, held, tau, stash, last>>

Fail ==
  /\ pc' = "failed"
  /\ UNCHANGED <<nq, nqwait, h, next, scale, tau, formed>>

\* The corrector does not converge: a quarter of the step, or
\* the length below it in Sizes.
NotConverged ==
  /\ pc = "judge"
  /\ ncf' = ncf + 1 /\ held' = TRUE
  /\ \/ (h = hmin \/ ncf' = ConvFailures) /\ Fail
     \/ /\ h > hmin /\ ncf' < ConvFailures
        /\ \E s \in Sizes : (4 * s <= h \/ s = hmin) /\ Rescale(s)
        /\ formed' = Formed(nq, nqwait)
        /\ UNCHANGED <<pc, nq, nqwait, tau>>
  /\ UNCHANGED <<stash, last, kflag>>

\* The lengths after an error test that failed n times in this step.
Reduced(n) ==
  {s \in Sizes : s < h /\ ((10 * s >= h /\ (n >= 2 => 5 * s <= h)) \/ s = hmin)}

\* eta = ETAMIN, but no shorter than hmin.
Tenth ==
  LET tenth == {s \in Sizes : 10 * s = h} IN IF tenth = {} THEN {hmin} ELSE tenth

\* Three failures at order 1: the derivative is evaluated anew.
Restarted ==
  /\ \E s \in Tenth : Rescale(s) /\ tau' = [tau EXCEPT ![1] = s]
  /\ nqwait' = RestartWait
  /\ UNCHANGED nq

\* Three failures at a higher order: dvjust_down.
Lowered ==
  /\ nq' = nq - 1 /\ nqwait' = nq
  /\ \E s \in Tenth : Rescale(s)
  /\ UNCHANGED tau

\* The error test fails.
TooLarge ==
  /\ pc = "judge"
  /\ kflag' = kflag + 1 /\ held' = TRUE
  /\ \/ (h = hmin \/ kflag' = ErrFailures) /\ Fail
     \/ /\ h > hmin /\ kflag' < ErrFailures
        /\ \/ /\ kflag' < KFC
              /\ \E s \in Reduced(kflag') : Rescale(s)
              /\ UNCHANGED <<nq, nqwait, tau>>
           \/ kflag' >= KFC /\ nq = 1 /\ Restarted
           \/ kflag' >= KFC /\ nq > 1 /\ Lowered
        /\ formed' = Formed(nq', nqwait')
        /\ UNCHANGED pc
  /\ UNCHANGED <<stash, last, ncf>>

\* After a failure nothing grows, and an order change waits for two steps.
PutOff(wait) == nqwait' = Max({2, wait})

\* The lengths open to a step that grows, 1.5 times at least up to hmax, and
\* etamax times at most: ten after the first step.
Grown ==
  {s \in Sizes : (2 * s >= 3 * h \/ s = hmax) /\ (last # <<>> => s <= 10 * h)}

\* select_order and commit_order.
Select(wait) ==
  \/ /\ nqwait' = (IF wait = 0 THEN 2 ELSE wait)
     /\ next' \in Grown \cup {h}
     /\ UNCHANGED nq
  \/ /\ wait = 0
     /\ nq' \in {nq - 1, nq + 1} \cap 1..MaxOrder
     /\ nqwait' = nq' + 1
     /\ next' \in Grown

\* acor goes to the last column one step before an order change is considered.
Aside(wait) ==
  stash' = IF nq < MaxOrder /\ wait = 1 THEN [order |-> nq, age |-> 0]
           ELSE [stash EXCEPT !.age = Min({2, @ + 1})]

Accept ==
  /\ pc = "judge"
  /\ pc' = "idle"
  /\ tau' = [i \in 1..MaxOrder + 1 |->
               IF i = 1 THEN h ELSE IF i <= nq + 1 THEN tau[i - 1] ELSE tau[i]]
  /\ Aside(nqwait - 1)
  /\ IF held THEN PutOff(nqwait - 1) /\ next' = h /\ UNCHANGED nq
             ELSE Select(nqwait - 1)
  /\ held' = FALSE
  /\ last' = SubSeq(<<h>> \o last, 1, Min({MaxOrder, Len(last) + 1}))
  /\ UNCHANGED <<h, scale, formed, kflag, ncf>>

Next == Begin \/ NotConverged \/ TooLarge \/ Accept

Spec == Init /\ [][Next]_vars

-----------------------------------------------------------------------------
(* Properties. *)

\* The coefficients of a trial are built from the steps really taken before
\* it, on columns scaled with its own length.
CoefficientsOfMesh ==
  /\ scale = h
  /\ pc = "judge" => nq <= Len(last) + 1 /\ \A j \in 1..nq - 1 : tau[j] = last[j]

\* When an order is chosen, tq(1) and tq(3) are of this step, the correction
\* compared with is that of the step before at the same order, and tau(2) is
\* the length of that step.
OrderInformed ==
  pc = "judge" /\ nqwait = 1 /\ ~held =>
    /\ formed
    /\ nq < MaxOrder => stash = [order |-> nq, age |-> 0] /\ tau[1] = last[1]
=============================================================================
