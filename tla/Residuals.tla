----------------------------- MODULE Residuals -----------------------------
(***************************************************************************)
(* What the n-dimensional root finders can tell about one evaluation of    *)
(* F and its Jacobian.  Vectors are abstracted to the comparisons made     *)
(* with them:                                                              *)
(*   merit     1/2 |F|^2 on an ordered scale; two residuals on the same    *)
(*             level do not satisfy the Armijo inequality either way;      *)
(*   nan       which components of F are NaN: none, some, or all;          *)
(*   conv      |F_i| <= ftol for every component that is a number;         *)
(*   singular  the elimination of J meets a pivot it rejects;              *)
(*   step      the length of the step that led to the point: beyond xtol,  *)
(*             below it only after the line search scaled it, or below it  *)
(*             already as the full Newton step.                            *)
(***************************************************************************)
EXTENDS Integers

CONSTANTS
  Merits,     \* levels of 1/2 |F|^2 that the modelled systems take
  NanKinds,   \* the NaN patterns the callback may return
  StepKinds   \* the step lengths that occur

ASSUME MeritsAssumption == Merits # {} /\ Merits \subseteq Nat
ASSUME NanAssumption == NanKinds # {} /\ NanKinds \subseteq {"none", "some", "all"}
ASSUME StepAssumption == StepKinds # {} /\ StepKinds \subseteq {"long", "scaled", "full"}

\* Nobody looks at J any more where |F| is small.
Residual ==
  {r \in [merit : Merits, nan : NanKinds, conv : BOOLEAN,
          singular : BOOLEAN, step : StepKinds] : r.conv => ~r.singular}

\* gtrial < (1 - 1e-4*lambda)*g0: false as soon as one side is NaN.
Decreases(trial, base) ==
  /\ trial.nan = "none"
  /\ base.nan = "none"
  /\ trial.merit < base.merit

\* inf_norm skips every NaN, so it is 0 for a residual that is all NaN.
InfNormSmall(f) == f.nan = "all" \/ f.conv

\* maxval(abs(f)) skips NaN unless every component is one, when it is NaN.
MaxvalSmall(f) == f.nan # "all" /\ f.conv

\* The residual is a root to within ftol.
IsRoot(f) == f.nan = "none" /\ f.conv
=============================================================================
