------------------------------ MODULE OdeTrace ------------------------------
(***************************************************************************)
(* The solution object of src/ode/fortnum_ode.f90 between the integrator   *)
(* that fills it and the routines that read it.  In mode "integrate"       *)
(* ode_integrate runs in full; in mode "use" it is replaced by what it     *)
(* promises (IntegrationTrace, which mode "integrate" is checked against), *)
(* and event scans and sensitivities run between its calls.                *)
(***************************************************************************)
EXTENDS OdeIntegrate

CONSTANT Strides   \* checkpoint strides the caller asks for

ASSUME StridesAssumption == Strides \subseteq Int

VARIABLES
  mode,
  scan, wanted, gs, found, bracketStep, direction, tEvent, transversal,
  scanStatus,                                     \* ode_event_scan
  kept, kind, segment, states, step, seen         \* the sensitivities

Promise == INSTANCE IntegrationTrace
Events == INSTANCE OdeEvents
Replay == INSTANCE OdeReplay

promised == <<running, call, t0, t1, trace, nsteps, status>>
internal == <<finite, t, h, restart, steps, nrejected>>
eventVars == <<scan, wanted, gs, found, bracketStep, direction, tEvent,
               transversal, scanStatus>>
replayVars == <<kept, kind, segment, states, step, seen>>
traceVars == <<mode, vars, eventVars, replayVars>>

TraceInit == mode \in {"integrate", "use"} /\ Init /\ Events!Init /\ Replay!Init

Integrate == mode = "integrate" /\ Next /\ UNCHANGED <<mode, eventVars, replayVars>>

Idle == scan = "idle" /\ kind = "none"

\* One sequential caller: nothing else runs while a trace is read.
Fill ==
  /\ mode = "use" /\ Idle
  /\ Promise!Next /\ UNCHANGED <<mode, internal, eventVars, replayVars>>
Scan ==
  /\ mode = "use" /\ ~running /\ kind = "none"
  /\ Events!Next /\ UNCHANGED <<mode, vars, replayVars>>
Sensitivity ==
  /\ mode = "use" /\ ~running /\ scan = "idle"
  /\ Replay!Next /\ UNCHANGED <<mode, vars, eventVars>>

TraceNext == Integrate \/ Fill \/ Scan \/ Sensitivity

\* A call that has begun goes on; whether there is another is the caller's.
Going ==
  \/ mode = "integrate" /\ Step /\ UNCHANGED <<mode, eventVars, replayVars>>
  \/ scan # "idle" /\ Scan
  \/ kind # "none" /\ Sensitivity

TraceSpec == TraceInit /\ [][TraceNext]_traceVars /\ WF_traceVars(Going)

-----------------------------------------------------------------------------
(* Properties. *)

TypesOK == TypeOK /\ Events!TypeOK

\* ode_integrate keeps what the readers of the trace rely on: a mesh that only
\* grows, strictly toward t1, and not beyond; success exactly with a step made
\* to end there, so that a trace may also be complete without success
\* (Overlook); a step count that fits the trace.
ImplementsTrace == Promise!Spec

\* A crossing is reported once, in the interval where g leaves its sign, and
\* the result of a scan stays within its trace.
FirstEventFound == TypesOK /\ Events!FirstEventFound

\* A trace is a mesh from t0 whose steps and end points fit each other, and
\* every sensitivity replays each step of it once, in its order, at the state
\* the trace passed through.
ReplayIsExact == TraceIsMesh /\ Replay!ReplayIsExact

\* Every integration of a finite right-hand side returns, and so does every
\* scan and every replay.
Returns ==
  /\ mode = "integrate" /\ running /\ finite ~> ~running
  /\ scan = "loop" ~> scan # "loop"
  /\ kind # "none" ~> kind = "none"
=============================================================================
