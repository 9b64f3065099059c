------------------------------ MODULE OdeReplay ------------------------------
(***************************************************************************)
(* The sensitivities of src/ode/fortnum_ode.f90, which replay a recorded   *)
(* trace: the tangent forward, the adjoint backward, the adjoint from      *)
(* checkpoints and the one that recomputes everything.  The state at mesh  *)
(* point j is named j, counted from 0; a Cash-Karp step i, with the time   *)
(* and size recorded for it, leads from state i - 1 to state i, and from   *)
(* any other state to Lost.  A replay keeps the list of the steps it has   *)
(* linearised and of the states it did so at.                              *)
(***************************************************************************)
EXTENDS Integers, Sequences, SequencesExt

CONSTANT Strides   \* checkpoint strides the caller asks for

Lost == -1

VARIABLES
  trace, nsteps,   \* the solution
  kept,            \* the checkpoints last built from a solution
  kind,            \* the replay: "none", "jvp", "vjp", "segment", "recompute"
  segment,         \* the checkpoint segment, counted down
  states,          \* the states recomputed so far
  step,            \* the step linearised next
  seen             \* <<step, state>> for every step linearised

vars == <<kept, kind, segment, states, step, seen>>

\* No checkpoints yet: nothing is allocated.
Nothing == [nsteps |-> 0, stride |-> 1, step |-> <<>>]

Init ==
  /\ kept = Nothing
  /\ kind = "none" /\ segment = 0 /\ states = <<>> /\ step = 0 /\ seen = <<>>

\* checkpoint_count
Count(stride) == 1 + (nsteps + stride - 1) \div stride

\* checkpoints%step(c)
Checkpoint(c, stride) ==
  IF (c - 1) * stride < nsteps THEN (c - 1) * stride ELSE nsteps

\* ode_build_checkpoints, and the replay from them as a call of its own, later.
Build(stride) ==
  /\ kind = "none" /\ trace # <<>> /\ stride >= 1
  /\ kept' = [nsteps |-> nsteps, stride |-> stride,
              step |-> [c \in 1..Count(stride) |-> Checkpoint(c, stride)]]
  /\ UNCHANGED <<kind, segment, states, step, seen>>

\* A stride below one is refused, and the old checkpoints are gone.
RefuseStride(stride) ==
  /\ kind = "none" /\ stride < 1
  /\ kept' = Nothing
  /\ UNCHANGED <<kind, segment, states, step, seen>>

Start(what, first) ==
  /\ kind = "none"
  /\ kind' = what /\ step' = first /\ seen' = <<>>
  /\ UNCHANGED kept

\* ode_integrate_jvp and its multi-column form; ode_integrate_vjp and its form
\* with parameters.  The states are the recorded ones.
BeginJvp == trace # <<>> /\ Start("jvp", 1) /\ UNCHANGED <<segment, states>>
BeginVjp == trace # <<>> /\ Start("vjp", nsteps) /\ UNCHANGED <<segment, states>>

\* ode_build_recompute_trace and ode_integrate_vjp_recomputed.
BeginRecompute ==
  trace # <<>> /\ Start("recompute", nsteps) /\ states' = <<0>> /\ UNCHANGED segment

\* ode_integrate_vjp_checkpointed
BeginSegments ==
  /\ kept # Nothing
  /\ Start("segment", kept.nsteps)
  /\ segment' = Len(kept.step) - 1
  /\ states' = IF segment' > 0 THEN <<kept.step[segment']>> ELSE <<>>

Linearise(i, state) == seen' = Append(seen, <<i, state>>)

Jvp ==
  /\ kind = "jvp" /\ step <= nsteps
  /\ Linearise(step, step - 1) /\ step' = step + 1
  /\ UNCHANGED <<kept, kind, segment, states>>

Vjp ==
  /\ kind = "vjp" /\ step >= 1
  /\ Linearise(step, step - 1) /\ step' = step - 1
  /\ UNCHANGED <<kept, kind, segment, states>>

\* cash_karp_step with the time and the size of step i.
CashKarp(state, i) == IF state = i - 1 THEN i ELSE Lost

\* Forward from y0 to the start of the step, then one step back.
Recompute ==
  /\ kind = "recompute" /\ step >= 1
  /\ IF Len(states) < step
     THEN /\ states' = Append(states, CashKarp(Last(states), Len(states)))
          /\ UNCHANGED <<step, seen>>
     ELSE /\ Linearise(step, Last(states)) /\ step' = step - 1
          /\ states' = <<0>>
  /\ UNCHANGED <<kept, kind, segment>>

StartStep == kept.step[segment]
EndStep == kept.step[segment + 1]

\* The states of a segment are recomputed from its checkpoint.
SegmentForward ==
  /\ kind = "segment" /\ segment >= 1
  /\ step = EndStep /\ Len(states) <= EndStep - StartStep
  /\ states' = Append(states, CashKarp(Last(states), StartStep + Len(states)))
  /\ UNCHANGED <<kept, kind, segment, step, seen>>

\* Slip: a step is linearised at the state it leads to.
LocalSlip == step - StartStep + 1

Local == step - StartStep

\* The adjoint goes back over the segment once it is complete, and then to the
\* segment before it.
SegmentBack ==
  /\ kind = "segment" /\ segment >= 1
  /\ Len(states) = EndStep - StartStep + 1
  /\ Linearise(step, states[Local]) /\ step' = step - 1
  /\ IF step - 1 = StartStep
     THEN /\ segment' = segment - 1
          /\ states' = IF segment > 1 THEN <<kept.step[segment - 1]>> ELSE <<>>
     ELSE UNCHANGED <<segment, states>>
  /\ UNCHANGED <<kept, kind>>

Complete ==
  CASE kind = "jvp" -> step > nsteps
    [] kind \in {"vjp", "recompute"} -> step < 1
    [] kind = "segment" -> segment < 1
    [] OTHER -> FALSE

End ==
  /\ Complete /\ kind' = "none"
  /\ segment' = 0 /\ states' = <<>> /\ step' = 0 /\ seen' = <<>>
  /\ UNCHANGED kept

Next ==
  \/ \E stride \in Strides : Build(stride) \/ RefuseStride(stride)
  \/ BeginJvp \/ BeginVjp \/ BeginRecompute \/ BeginSegments
  \/ Jvp \/ Vjp \/ Recompute \/ SegmentForward \/ SegmentBack
  \/ End

-----------------------------------------------------------------------------
(* Properties. *)

\* Every adjoint is the transpose of the same composition of steps: each step
\* of the trace it was made from once, backward, linearised at the state the
\* trace passed through; the tangent visits them forward.  The states of a
\* segment fit the array of stride + 1 columns.
ReplayIsExact ==
  /\ Complete =>
       seen = CASE kind = "jvp" -> [i \in 1..nsteps |-> <<i, i - 1>>]
                [] kind = "segment" ->
                     [i \in 1..kept.nsteps |-> <<kept.nsteps + 1 - i, kept.nsteps - i>>]
                [] OTHER -> [i \in 1..nsteps |-> <<nsteps + 1 - i, nsteps - i>>]
  /\ kind = "segment" => Len(states) <= kept.stride + 1
=============================================================================
