-------------------------- MODULE MultirootHybrid --------------------------
(***************************************************************************)
(* multiroot_hybrid of src/roots/fortnum_multiroot.f90: Newton's method    *)
(* with a backtracking line search, in one call that evaluates F and J     *)
(* through a callback.  Points are named as in MultirootRC.                *)
(***************************************************************************)
EXTENDS Residuals, Sequences

CONSTANTS
  MaxIter,   \* max_iter
  Trials     \* trial points of one line search (30)

VARIABLES
  pc,       \* where the call is
  it,       \* the do-loop counter
  k,        \* trials made by the current line search
  x,        \* the accepted point
  f,        \* the residual and Jacobian at x
  status    \* the status code of the call

vars == <<pc, it, k, x, f, status>>

TypeOK ==
  /\ pc \in {"entry", "newton", "search", "done"}
  /\ it \in Nat
  /\ k \in 0..Trials - 1
  /\ x \in Seq(Nat)
  /\ f \in Residual
  /\ status \in {"OK", "DOMAIN_ERROR", "CONVERGENCE_ERROR"}

Init ==
  /\ pc = "entry" /\ it = 0 /\ k = 0
  /\ x = <<>>
  /\ f \in {r \in Residual : r.step = "long"}
  /\ status = "OK"

Return(code) == pc' = "done" /\ status' = code

\* The head of `do it = 1, max_it`: one more iteration or the end of the loop.
NextIteration ==
  IF it < MaxIter
  THEN it' = it + 1 /\ pc' = "newton" /\ UNCHANGED status
  ELSE Return("CONVERGENCE_ERROR") /\ UNCHANGED it

\* The evaluation at x0.
Entry(r) ==
  /\ pc = "entry"
  /\ r.step = "long"
  /\ f' = r
  /\ \/ MaxvalSmall(r) /\ Return("OK") /\ UNCHANGED it
     \/ ~MaxvalSmall(r) /\ NextIteration
  /\ UNCHANGED <<k, x>>

\* solve_linear for the Newton direction.
Newton ==
  /\ pc = "newton"
  /\ \/ f.singular /\ Return("DOMAIN_ERROR")
     \/ ~f.singular /\ pc' = "search" /\ UNCHANGED status
  /\ k' = 0
  /\ UNCHANGED <<it, x, f>>

\* line_search_fdf moves to the trial point, and the tests after it.
Take(r) ==
  /\ x' = Append(x, k)
  /\ f' = r
  /\ \/ MaxvalSmall(r) /\ Return("OK") /\ UNCHANGED it
     \/ ~MaxvalSmall(r) /\ r.step = "full" /\ Return("CONVERGENCE_ERROR") /\ UNCHANGED it
     \/ ~MaxvalSmall(r) /\ r.step # "full" /\ NextIteration
  /\ UNCHANGED k

LastTrial == k + 1 = Trials

\* One pass of the loop in line_search_fdf; the last trial is taken as it is.
Trial(r) ==
  /\ pc = "search"
  /\ k = 0 => r.step # "scaled"
  /\ \/ /\ Decreases(r, f) \/ LastTrial
        /\ Take(r)
     \/ /\ ~Decreases(r, f) /\ ~LastTrial
        /\ k' = k + 1
        /\ UNCHANGED <<pc, it, x, f, status>>

Next == Newton \/ \E r \in Residual : Entry(r) \/ Trial(r)

Spec == Init /\ [][Next]_vars

-----------------------------------------------------------------------------
(* Properties. *)

\* Success is reported only when |F|_inf <= ftol at the point returned.
OkIsRoot == pc = "done" /\ status = "OK" => IsRoot(f)

\* The work is bounded by max_iter: the loop counter never passes the cap and
\* the point returned is that many Newton steps away from x0 (one less when
\* the last direction could not be solved for).
WorkBounded ==
  /\ it <= MaxIter
  /\ Len(x) \in {it, it - 1}
  /\ status = "DOMAIN_ERROR" => Len(x) < MaxIter
=============================================================================
