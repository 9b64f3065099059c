----------------------------- MODULE OneVariable -----------------------------
(***************************************************************************)
(* Calls on a function of one variable: a root finder or an integrator,    *)
(* whichever the caller asks for.  Neither touches the state of the other. *)
(***************************************************************************)
EXTENDS ScalarRoots, Quadrature

VARIABLE service   \* what is called: "root" or "integral"

oneVars == <<service, rootsVars, all>>

\* Nothing of a root finder has happened.
NoRoots ==
  /\ finder = "bisect" /\ Bisection!Init /\ xc = 0 /\ NoNewton /\ NoBrent
  /\ xa = 0 /\ fa = 0 /\ fb = 0 /\ \A i \in BisectIters : maxIt <= i

\* Nothing of an integrator has happened.
NoIntegral ==
  /\ mode = "adaptive" /\ Init /\ floor = {} /\ first = <<>>
  /\ ~useEps /\ \A n \in Limits : limit <= n

OneInit ==
  \/ service = "root" /\ RootsInit /\ NoIntegral
  \/ service = "integral" /\ QuadratureInit /\ NoRoots

OneNext ==
  \/ service = "root" /\ RootsNext /\ UNCHANGED <<service, all>>
  \/ service = "integral" /\ QuadratureNext /\ UNCHANGED <<service, rootsVars>>

OneSpec == OneInit /\ [][OneNext]_oneVars
=============================================================================
