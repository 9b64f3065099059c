-------------------------------- MODULE Vode --------------------------------
(***************************************************************************)
(* vode_integrate_to of src/ode/fortnum_ode_vode.f90: calls with one state *)
(* that step past tout and interpolate back, and the search for the roots  *)
(* of one or two event functions, which may end a call in the middle of a  *)
(* step that is then scanned further by the next one.                      *)
(*                                                                         *)
(* Times are integers, the mesh and tout even, the roots odd.  A step is   *)
(* one outcome here; its order and length are the subject of VodeStep.     *)
(* Each function starts out negative, and its roots lie further apart than *)
(* a step.                                                                 *)
(***************************************************************************)
EXTENDS Integers, Sequences, FiniteSetsExt

CONSTANTS
  Touts,      \* what the caller asks for
  Roots,      \* the roots an event function may have
  Longest,    \* the longest step, in units of two (model bound)
  MaxSteps,   \* max_steps
  Calls       \* calls of vode_integrate_to (model bound)

VARIABLES
  pc,                   \* "idle", in the loop ("step")
  call, target,         \* tout
  roots, wanted,        \* the roots of the functions monitored; event_dir
  started, dir,
  t, hu,                \* tn: the top of the mesh, and the last step
  ksteps,               \* nsteps
  at_event, t_event,
  reported,             \* the roots handed to the caller
  how,                  \* where y_out came from
  status

setup == <<call, target, roots, wanted>>
mesh == <<t, hu, ksteps>>
events == <<at_event, t_event, reported>>
vars == <<pc, setup, started, dir, mesh, events, how, status>>

TypeOK ==
  /\ pc \in {"idle", "step"}
  /\ call \in 0..Calls /\ target \in Int
  /\ roots \in Seq(SUBSET Roots) /\ wanted \in [DOMAIN roots -> -1..1]
  /\ started \in BOOLEAN /\ dir \in {-1, 0, 1}
  /\ t \in Int /\ hu \in -2 * Longest..2 * Longest /\ ksteps \in 0..MaxSteps
  /\ at_event \in BOOLEAN /\ t_event \in Roots \cup {0}
  /\ reported \in Seq(Roots \X {1, 2})
  /\ how \in {"none", "top", "interpolated", "root"}
  /\ status \in {"OK", "CONVERGENCE_ERROR"}

Apart(rs) == \A r, s \in rs : r # s => (r - s > 2 * Longest \/ s - r > 2 * Longest)

\* vode_init, and the functions the program will monitor: none, one, or two.
Init ==
  /\ pc = "idle" /\ call = 0 /\ target = 0
  /\ \E n \in 0..2, rs \in [1..2 -> {rs \in SUBSET Roots : Apart(rs)}], ds \in [1..2 -> -1..1] :
       /\ rs[1] \cap rs[2] = {}
       /\ \A k \in n + 1..2 : rs[k] = {} /\ ds[k] = 0
       /\ roots = SubSeq(rs, 1, n) /\ wanted = SubSeq(ds, 1, n)
  /\ started = FALSE /\ dir = 0 /\ t = 0 /\ hu = 0 /\ ksteps = 0
  /\ at_event = FALSE /\ t_event = 0 /\ reported = <<>>
  /\ how = "none" /\ status = "OK"

Sign(i) == IF i < 0 THEN -1 ELSE 1
has_event == roots # <<>>

\* The mesh top lies at tout or beyond.
Reached(top, way) == (top - target') * way >= 0

\* Roots of function k in the scanned interval, from its left end on.
Between(k, left, top, way) ==
  {r \in roots[k] : (r - left) * way > 0 /\ (top - r) * way > 0}

\* The sign change at the root: +1 rising, for the first, third, ...
Change(k, r, way) ==
  LET before == {s \in roots[k] : s * way > 0 /\ (r - s) * way > 0}
  IN IF Cardinality(before) % 2 = 0 THEN 1 ELSE -1

\* scan_step_for_root: the roots that event_dir admits.
Candidates(left, top, way) ==
  {c \in Roots \X DOMAIN roots :
     /\ c[1] \in Between(c[2], left, top, way)
     /\ wanted[c[2]] \in {0, Change(c[2], c[1], way)}}

\* No other candidate comes before it.
Earliest(c, way, cs) == \A d \in cs : (d[1] - c[1]) * way >= 0

\* report_root: the mesh top stays where it is.
Report(c) ==
  /\ at_event' = TRUE /\ t_event' = c[1] /\ reported' = Append(reported, c)
  /\ pc' = "idle" /\ how' = "root" /\ status' = "OK"

\* Slip: the loop is not left.
FinishSlip(code, from) == pc' = pc /\ status' = code /\ how' = from

Finish(code, from) == pc' = "idle" /\ status' = code /\ how' = from

-----------------------------------------------------------------------------

\* The caller goes on in one direction.
Onward(g) == started => (g - target) * dir >= 0

\* Slip: the rest of the step is not scanned.
RestSlip == {}

\* The roots between the one reported last and the mesh top.
Rest == IF at_event THEN Candidates(t_event, t, dir) ELSE {}

Call(g) ==
  /\ pc = "idle" /\ call < Calls /\ Onward(g)
  /\ call' = call + 1 /\ target' = g
  /\ \/ /\ g = t
        /\ Finish("OK", "top")
        /\ UNCHANGED <<started, dir, events>>
     \/ /\ g # t /\ started /\ ~has_event /\ hu # 0
        /\ Reached(t, dir) /\ (g - (t - hu)) * dir >= 0
        /\ Finish("OK", "interpolated")
        /\ UNCHANGED <<started, dir, events>>
     \/ /\ g # t
        /\ ~(started /\ ~has_event /\ hu # 0
             /\ Reached(t, dir) /\ (g - (t - hu)) * dir >= 0)
        /\ started' = TRUE
        /\ dir' = IF started THEN dir ELSE Sign(g - t)
        /\ \/ \E c \in Rest : Earliest(c, dir, Rest) /\ Report(c)
           \/ /\ Rest = {} /\ at_event /\ Reached(t, dir)
              /\ at_event' = FALSE /\ Finish("OK", "interpolated")
              /\ UNCHANGED <<t_event, reported>>
           \/ /\ Rest = {} /\ ~(at_event /\ Reached(t, dir))
              /\ at_event' = FALSE
              /\ pc' = "step" /\ how' = "none" /\ status' = "OK"
              /\ UNCHANGED <<t_event, reported>>
  /\ UNCHANGED <<roots, wanted, mesh>>

Exhausted ==
  /\ pc = "step" /\ ksteps >= MaxSteps
  /\ Finish("CONVERGENCE_ERROR", "none")
  /\ UNCHANGED <<setup, started, dir, mesh, events>>

\* take_step gives up; the mesh is as before.
StepFails ==
  /\ pc = "step" /\ ksteps < MaxSteps
  /\ Finish("CONVERGENCE_ERROR", "none")
  /\ UNCHANGED <<setup, started, dir, mesh, events>>

Advance ==
  /\ pc = "step" /\ ksteps < MaxSteps
  /\ ksteps' = ksteps + 1
  /\ \E s \in 1..Longest : hu' = 2 * s * dir
  /\ t' = t + hu'
  /\ LET found == Candidates(t, t', dir)
     IN \/ \E c \in found : Earliest(c, dir, found) /\ Report(c)
        \/ /\ found = {}
           /\ IF (t' - target) * dir >= 0 THEN Finish("OK", "interpolated")
                                         ELSE UNCHANGED <<pc, how, status>>
           /\ UNCHANGED events
  /\ UNCHANGED <<setup, started, dir>>

Step == Exhausted \/ StepFails \/ Advance

Spec == Init /\ [][Step \/ \E g \in Touts : Call(g)]_vars

-----------------------------------------------------------------------------
(* Properties. *)

\* What is handed out as the solution at tout lies in the last step.
InterpolatesInWindow ==
  pc = "idle" /\ how = "interpolated" =>
    (target - (t - hu)) * dir >= 0 /\ (t - target) * dir >= 0

\* A program that monitors events has asked for a time the mesh had passed,
\* and a further step is taken all the same; or, when the rest of a step
\* answers, for a time before that step.
AskedBehind ==
  has_event /\ \/ pc = "step" /\ (t - target) * dir >= 0
               \/ pc = "idle" /\ (t - hu - target') * dir > 0

Seen == IF at_event THEN t_event ELSE t

\* Every root of the wanted kind that the program has been taken past has been
\* reported, once and in order, whichever function and call it fell to, and
\* none that lies ahead.
RootsReported ==
  LET passed == {c \in Roots \X DOMAIN roots :
                   /\ c[1] \in roots[c[2]] /\ c[1] * dir > 0 /\ (Seen - c[1]) * dir >= 0
                   /\ wanted[c[2]] \in {0, Change(c[2], c[1], dir)}}
  IN /\ {reported[i] : i \in DOMAIN reported} = passed
     /\ \A i, j \in DOMAIN reported : i < j => (reported[j][1] - reported[i][1]) * dir > 0
=============================================================================
