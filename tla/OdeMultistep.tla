---------------------------- MODULE OdeMultistep ----------------------------
(***************************************************************************)
(* The re-entrant multistep integrators of src/ode: the step of DDEABM     *)
(* ("adams") and of VODE ("nordsieck") with the coefficients they remember *)
(* from one step to the next, and the calls of ddeabm_integrate_to         *)
(* ("ddeabm") and vode_integrate_to ("vode"), whose mesh runs ahead of the *)
(* caller.                                                                 *)
(***************************************************************************)
EXTENDS Integers, Sequences, FiniteSetsExt

CONSTANTS
  Codes,                        \* of "adams", "nordsieck", "ddeabm", "vode"
  AdamsOrder, AdamsSizes,
  VodeOrder, VodeSizes, RestartWait, ConvFailures, ErrFailures,
  Targets, Stops, Gap, Floor,
  Touts, Roots,
  Longest, Reach,               \* the longest step of ddeabm, of vode
  MaxSteps, Calls

ASSUME MultistepAssumption ==
  /\ {AdamsOrder, VodeOrder, Gap, Floor, Longest, Reach} \subseteq Nat \ {0}
  /\ AdamsSizes \subseteq Nat \ {0} /\ VodeSizes \subseteq Nat \ {0}
  /\ {RestartWait, ConvFailures, ErrFailures} \subseteq Nat \ {0}
  /\ {MaxSteps, Calls} \subseteq Nat
  /\ Gap <= Floor /\ Targets \cup Stops \subseteq Nat
  /\ \A s \in Touts : s \in Int /\ s % 2 = 0
  /\ \A r \in Roots : r \in Int /\ r % 2 = 1

\* DDEABM has more than one order, and of its lengths each but the greatest has
\* another twice as long.
ASSUME LengthsAssumption ==
  /\ AdamsOrder >= 2
  /\ \E top \in AdamsSizes : \A s \in AdamsSizes : s <= top /\ (s = top \/ 2 * s \in AdamsSizes)

VARIABLES
  code,
  pc, h, last, start, ifail,                                 \* shared
  call, target, t, ksteps, how, status,
  kord, kold, kprev, ns, phase1, hold, psi, v, w, g, gi, kgi, iv, depth, crashed,
                                                             \* of adams
  nq, nqwait, next, held, scale, tau, stash, formed, kflag, ncf, \* of nordsieck
  init, x, xold, delsgn, has_tstop, tstop,                   \* of ddeabm
  roots, wanted, started, dir, hu, at_event, t_event, reported   \* of vode

Adams == INSTANCE DdeabmStep WITH MaxOrder <- AdamsOrder, Sizes <- AdamsSizes
Nordsieck == INSTANCE VodeStep WITH MaxOrder <- VodeOrder, Sizes <- VodeSizes
Ddeabm == INSTANCE Ddeabm
Vode == INSTANCE Vode WITH Longest <- Reach

OfAdams == <<kord, kold, kprev, ns, phase1, hold, psi, v, w, g, gi, kgi, iv, depth, crashed>>
OfNordsieck == <<nq, nqwait, next, held, scale, tau, stash, formed, kflag, ncf>>
OfDdeabm == <<init, x, xold, delsgn, has_tstop, tstop>>
OfVode == <<roots, wanted, started, dir, hu, at_event, t_event, reported>>
OfDriver == <<call, target, t, ksteps, how, status>>
allVars == <<code, pc, h, last, start, ifail, OfDriver, OfAdams, OfNordsieck, OfDdeabm, OfVode>>

NoAdams ==
  /\ kord = 1 /\ kold = 0 /\ kprev = 0 /\ ns = 0 /\ phase1 = TRUE /\ hold = 0
  /\ psi = <<>> /\ v = <<>> /\ w = <<>> /\ g = <<>> /\ gi = <<>> /\ kgi = 0
  /\ iv = <<>> /\ depth = 1 /\ crashed = FALSE
NoNordsieck ==
  /\ nq = 1 /\ nqwait = 2 /\ next = 0 /\ held = FALSE /\ scale = 0 /\ tau = <<>>
  /\ stash = [order |-> 0, age |-> 0] /\ formed = FALSE /\ kflag = 0 /\ ncf = 0
NoDdeabm ==
  /\ init = 0 /\ x = 0 /\ xold = 0 /\ delsgn = 0 /\ has_tstop = FALSE /\ tstop = 0
NoVode ==
  /\ roots = <<>> /\ wanted = <<>> /\ started = FALSE /\ dir = 0 /\ hu = 0
  /\ at_event = FALSE /\ t_event = 0 /\ reported = <<>>
NoDriver ==
  /\ call = 0 /\ target = 0 /\ t = 0 /\ ksteps = 0 /\ how = "none" /\ status = "OK"

MultistepInit ==
  /\ code \in Codes
  /\ \/ /\ code = "adams" /\ Adams!Init
        /\ NoNordsieck /\ NoDdeabm /\ NoVode /\ NoDriver
     \/ /\ code = "nordsieck" /\ Nordsieck!Init
        /\ NoAdams /\ NoDdeabm /\ NoVode /\ NoDriver
        /\ start = FALSE /\ ifail = 0
     \/ /\ code = "ddeabm" /\ Ddeabm!Init
        /\ NoAdams /\ NoNordsieck /\ NoVode /\ last = <<>>
     \/ /\ code = "vode" /\ Vode!Init
        /\ NoAdams /\ NoNordsieck /\ NoDdeabm
        /\ h = 0 /\ last = <<>> /\ start = FALSE /\ ifail = 0

BesideAdams == <<code, OfDriver, OfNordsieck, OfDdeabm, OfVode>>
BesideNordsieck == <<code, start, ifail, OfDriver, OfAdams, OfDdeabm, OfVode>>
BesideDdeabm == <<code, last, OfAdams, OfNordsieck, OfVode>>
BesideVode == <<code, h, last, start, ifail, OfAdams, OfNordsieck, OfDdeabm>>

MultistepNext ==
  \/ code = "adams" /\ Adams!Next /\ UNCHANGED BesideAdams
  \/ code = "nordsieck" /\ Nordsieck!Next /\ UNCHANGED BesideNordsieck
  \/ /\ code = "ddeabm"
     /\ \/ Ddeabm!Step
        \/ \E to \in Targets, stop \in {{}} \cup {{s} : s \in Stops} : Ddeabm!Call(to, stop)
     /\ UNCHANGED BesideDdeabm
  \/ /\ code = "vode"
     /\ Vode!Step \/ \E to \in Touts : Vode!Call(to)
     /\ UNCHANGED BesideVode

\* A call of a driver that was begun goes on; the caller need not call again.
Progress ==
  \/ code = "ddeabm" /\ Ddeabm!Step /\ UNCHANGED BesideDdeabm
  \/ code = "vode" /\ Vode!Step /\ UNCHANGED BesideVode

MultistepSpec == MultistepInit /\ [][MultistepNext]_allVars /\ WF_allVars(Progress)

-----------------------------------------------------------------------------
(* Properties. *)

TypesOK ==
  /\ code = "adams" => Adams!TypeOK
  /\ code = "nordsieck" => Nordsieck!TypeOK
  /\ code = "ddeabm" => Ddeabm!TypeOK
  /\ code = "vode" => Vode!TypeOK

\* A trial step is built on coefficients of the mesh it extends: the distances
\* psi and the integrals g of DDEABM, tau and the scale of the Nordsieck array
\* of VODE belong to the steps really accepted, whatever was rejected, cut to
\* tstop, raised or lowered in order between them.  What is computed ahead for
\* a later step is there when that step reads it: the column for the estimate
\* at order k + 1 and the integral for the interpolant of DDEABM, tq(1), tq(3)
\* and the correction put aside of VODE.
CoefficientsOfMesh ==
  /\ TypesOK
  /\ code = "adams" =>
       Adams!CoefficientsOfMesh /\ Adams!EstimateInformed /\ Adams!InterpolantOfStep
  /\ code = "nordsieck" => Nordsieck!CoefficientsOfMesh /\ Nordsieck!OrderInformed

\* An output point is interpolated inside the last completed step, over any
\* sequence of calls, and no step of ddeabm_integrate_to lands beyond tstop.
\* The exceptions are named: vode_integrate_to with event functions asked for a
\* time its mesh has passed, ddeabm_integrate_to while the point reported last
\* is itself ahead of the mesh, and its very first step, which has a least length.
ContinuesWithinMesh ==
  [][/\ code = "ddeabm" => Ddeabm!InterpolatesInWindow /\ Ddeabm!StaysBefore
     /\ code = "vode" => Vode!InterpolatesInWindow' \/ Vode!AskedBehind]_allVars

\* vode_integrate_to interpolates exactly to tout (fortnum_ode_vode.f90:162-163),
\* on the interval [tn-hu, tn] on which the interpolant is valid (:276-278), for
\* a caller with event functions as for one without.
InterpolatesExactly == code = "vode" => Vode!InterpolatesInWindow

\* vode_integrate_to reports every root it takes the program past, once and in
\* order, over both functions and over calls that end in the middle of a step.
RootsReported == code = "vode" => Vode!RootsReported

\* Every call of the two drivers returns.
Returns == code \in {"ddeabm", "vode"} /\ pc # "idle" ~> pc = "idle"

-----------------------------------------------------------------------------
\* the instance that is model-checked: output points on both sides of the
\* start of vode_integrate_to, and roots between them
ConstTouts == {-4, 6, 10}
ConstRoots == {-3, 1, 3, 7, 9}
=============================================================================
