# A verification project for fortnum

fortnum is a Fortran library of numerical methods: root finding, integration,
ordinary differential equations, linear algebra, random streams, interval
arithmetic, special functions, with derivatives of all of them. These modules
model the part of it that is *control*: solvers that keep state between calls,
iterations that accept, reject, retry and give up, work lists, caches, counters
and the verdicts reported to the caller. Arithmetic is abstracted to the
comparisons the control makes with it. They also model the programs that look after
the repository: the nightly workflow with its issue and its bisection, and the
scripts that audit sources, documents and generated kernels.

Nothing in the library runs concurrently within one solver. What makes it hard is
of four kinds:

* a *protocol* between the library and its caller: reverse communication, handles
  and state objects that are continued, reused, restarted elsewhere, or called
  again after they ended;
* *callbacks that fail*, or return values that are not numbers, in the middle of
  an operation which has already changed part of its state;
* *reuse*: derivatives, Jacobians, linearizations, brackets, error sums and
  traces kept from an earlier step, valid only while something else agrees;
* *limits and rounding*: comparisons at a budget, at a full work array, at a step
  that no longer moves the clock, at a product that underflows.

Around the library there is concurrency. The nightly report makes one request to
GitHub after another while people close and reopen the issue, commits break and
repair jobs, further runs wait in the queue, and any run may be lost half way; the
bisection trusts a history with merges, runs listed in no order of commits, runners
whose toolchain changes and tests that fail for no reason. The scanning scripts read
a language with nesting and continuation line by line and must not lose their place.

`SRC` below is the root of the repository; its Fortran sources are in `SRC/src`.

## 1. Inventory

| Component (files under `src/`) | State it keeps | Operations | What makes it correct |
|---|---|---|---|
| reverse-communication Newton (`roots/fortnum_multiroot_rc`) | `multiroot_rc_t`: phase, token, x, base point, direction, halvings, iterations | `multiroot_init`, `multiroot_step` | the answer belongs to the accepted point; rejected trials leave no trace; the end is final |
| n-dimensional roots (`roots/fortnum_multiroot`) | locals of a call; `multiroot_warm_t` between calls | `multiroot_hybrid`, `multiroot_hybrids`, `deriv_central` | the status tells the truth; the cache holds a usable estimate and the latest clean one; few Jacobians |
| scalar roots (`roots/fortnum_roots`) | locals of a call | bisection, guarded Newton, Brent | the bracket is kept; success means a sign change within tolerance |
| complex roots (`roots/fortnum_roots_complex`) | box stack | subdivision, polishing | no root lost between boxes |
| BDF (`ode/fortnum_ode_bdf`) | `bdf_state_t`, a workspace | `bdf_init`, `bdf_integrate_to`, `newton_step` | history belongs to accepted solutions; growth below the stability bound; one budget |
| exponential Rosenbrock (`ode/fortnum_ode_exprb`) | `exprb_state_t`; the linearization lives in the caller's problem | `exprb_init`, `exprb_integrate_to` | what is reused is current |
| RK8(7) (`ode/fortnum_ode_rk8pd`, `bindings/fortnum_capi_rk8pd`) | `rk8pd_state_t` in a C handle: step and first-stage derivative; time and state are the caller's | create, integrate_to, step_to | the cached derivative belongs to the caller's point |
| Cash-Karp driver (`ode/fortnum_ode`) | `ode_solution_t`: the trace | `ode_integrate`, tangent and adjoint replays, checkpoints | the trace is a mesh from t0 to t1; replays linearize every recorded step once, where it was taken |
| events (`ode/fortnum_ode_events`) | none; reads a trace | `ode_event_scan`, `locate_in_step` | the first admissible crossing is found |
| DDEABM (`ode/fortnum_ode_ddeabm`) | divided differences, `psi`, `v`, `w`, `g`, orders, a stack of pending updates; the mesh point x beside the caller's t; tstop | `ddeabm_init`, `ddeabm_integrate_to`, `step`, `interp` | the coefficients are those of the accepted mesh; output inside the last step; tstop respected |
| VODE (`ode/fortnum_ode_vode`) | the Nordsieck array and its scale, `tau`, the order and when it may change; the last root | `vode_init`, `vode_integrate_to`, `take_step`, root search | the same; every root passed is reported once |
| DOP853, Gauss-Radau, extrapolation, TDRK, batched RK54 (`ode/`) | order, step, history arrays | `*_integrate`/`*_step` | contract of a stepper; history consistent with order and step |
| adaptive quadrature (`quadrature/fortnum_integrate`, `_integrate_gk`, `fortnum_cquad`) | a work stack of panels, a pointer list, error sums, the epsilon table; a trace on return | QAG, QAGS, QAGI, QAGP, cquad | panels partition the interval; the worst is bisected; sums agree with the stack; the verdict is honest |
| Krylov, phi functions, BVLS, refinement, eigenproblems, factorizations (`linalg/`) | basis and restart counters, active set | solve, restart, refine | honest verdicts, bounded restarts, no cycling |
| minimizers, Newton-MR (root of `src/`) | iterate, memory pairs | minimize | descent, honest status |
| random streams, Sobol (`rng/`) | key, 128-bit counter, buffered words | next, split, skip | streams disjoint; no number twice; skip equals repetition |
| NUTS (`sampling/`) | trajectory tree | `build_tree` | the tree covers a contiguous trajectory; early exits keep it balanced |
| verified numerics (`verified/`) | intervals, enclosures | interval arithmetic, validated ODE steps, certificates | containment |
| derivative registry, active vectors (`ad/`) | tables of candidates | select, pack | only validated candidates are chosen |
| interpolation, FFT, special functions, tensor kernels | tables | evaluation | formulas; out of reach or straight-line |
| nightly issue report (`scripts/nightly_triage.py`, `.github/workflows/nightly.yml`) | the issue, its comments with job markers, the label, on GitHub; the queue of runs | `plan`, the jobs, `report` | one issue; closed only by a run in which every recorded job passes; a broken job ends up in it, a repaired project ends without it |
| nightly bisection (`scripts/nightly_triage.py`) | the results file; marks of `git bisect` | `last_green`, `bisect`, `failure_report` | the range starts at a commit that passed; the culprit broke the job; a broken runner is not blamed on a commit |
| source scanners (`scripts/audit_modules.py`, the scanner of `check_derivative_kernel_inventory.py`) | the joined line, the module being read, interface depth, names | one line | what they report is what the text means |
| kernel inventory check (`scripts/check_derivative_kernel_inventory.py`) | names seen, two sets of claims | read a row, scan a file, compare | passes exactly when ownership is a bijection |
| documentation and generated-kernel checks (`scripts/check_documentation.py`, `check_contracted_codegen.py`) | a list of errors | nine checks in order, some return early or raise | exit code 0 exactly when nothing is out of order |

How they interact: the solvers call back into the program for residuals and
right-hand sides (with a status the program may set to a failure); a solution
object filled by `ode_integrate` is read by the event scan and the sensitivity
replays; `bdf_integrate_to` runs `newton_step`, which runs FGMRES; the exponential
integrator runs the phi functions; the RK8(7) handle is called from C. Of the scripts,
`check_documentation.py` runs the inventory check as a subprocess and sees its exit
code; both workflow steps, `bisect` and `report`, meet in the results file and the issue.

`PROJECT.json` lists every component with its status, and every hazard with its
line and the properties that would catch it.

## 2. Modules

A module per component. A composite picks one component in its initial state
(`mode`, `finder`, `stepper`, `code`, `service`, `part`), keeps the variables of the others constant, and
states the properties common to them; this is how components share a contract and
a run. A `.cfg` gives the constants their values; where a value takes a definition, the
last section of the composite ("the instance that is model-checked") holds it.

| Family | Component modules | Shared data / contract | Composite |
|---|---|---|---|
| systems of equations | `MultirootRC`, `MultirootHybrid`, `MultirootPair` (both on one F), `MultirootHybrids` | `Residuals` (what a residual can look like) | `MultirootNewton` |
| scalar roots | `RootBisect`, `RootNewton`, `RootBrent` (with the event finder) | `SignChange` (values, brackets) | `ScalarRoots`; with quadrature `OneVariable` |
| integrators with a state | `BdfIntegrate`, `BdfNewton`, `ExprbIntegrate`, `Rk8pd` | `Stepper` (abstract contract) | `OdeSteppers` |
| multistep integrators | `DdeabmStep`, `VodeStep` (one step), `Ddeabm`, `Vode` (the drivers) | | `OdeMultistep` |
| traces | `OdeIntegrate`, `OdeEvents`, `OdeReplay` | `IntegrationTrace` (abstract contract) | `OdeTrace` |
| quadrature | `AdaptiveIntegrate` (with dqpsrt); the two-sided caller, the small adaptive integrator of integrate_gk and cquad in `Quadrature` | | `Quadrature` |
| nightly issue | `NightlyIssue` | `FailureTicket` (abstract promise of the issue) | |
| nightly bisection | `NightlyBisect` | | `Scripts` |
| source scanners | `SourceScan` (both scanners on one text) | | `Scripts` |
| checks of the repository | `KernelInventory`, `GeneratedKernels` | | `Documentation` (the rest of the checks, and their order), `Scripts` |
| proofs | `MultirootNewtonProofs`, `ScalarRootsProofs`, `OdeSteppersProofs`, `OdeMultistepProofs`, `OdeTraceProofs`, `NightlyProofs` (issue and bisection), `CheckProofs` (documents, inventory, scanners) | `LeastNumber` (induction) | |

How state and actions correspond to the code. Variables carry the names of the
code (`ls_count` is `lsCount`, `state%next_step` is `next_step`). A `pc` or `phase`
stands for the place in a loop; each action is the code between two of the
callback evaluations or loop heads, with everything it writes. Points and vectors
are abstracted to *identity* and *level*:

* `MultirootRC`, `MultirootHybrid`: a point is the sequence of line-search exponents
  that leads to it from x0, so "the same point" is equality; a residual is a merit
  level, which of its components are NaN, whether it is below ftol, whether J is
  singular, and how long the step was (`Residuals`). Two residuals on one level
  fail the Armijo test either way. In `MultirootPair` both solvers see one F: `memo`
  holds what the host learned until the stepper asks for the same point.
* `MultirootHybrids`: an estimate of the Jacobian is its number and whether a
  noise-level secant update is in it; trust radius and step are powers of two.
* scalar roots: grid points for abscissae, signed levels for values; level 1 is a
  value whose product with another level 1 underflows to zero.
* integrators: times and steps are integers in units the clock just resolves; a
  solution vector is the time it belongs to, so "y is the solution at t" is `y = t`.
  The model of `ode_integrate` uses half units, so that `t + h` is *rounded* as the
  machine would, ties to even.
* multistep integrators: a step and its driver are separate modules. In `DdeabmStep`
  a coefficient is its *index of recursion*: combining two neighbours of index j with
  alpha(j+1) gives index j+1, any other combination the wrong number 0, and a number
  that depends on the mesh (alpha(i) with i > ns) is negative and dies with the step;
  the distances `psi` are exact. `VodeStep` keeps `tau`, the scale of the Nordsieck
  columns and whose correction was put aside, and lets the tests of the step and the
  choice of the order come out either way. The drivers take a step as one outcome.
  In `Vode` the mesh and tout are even, roots odd; the roots of one function lie
  further apart than a step (the code tests for a sign change only, so two roots in a
  step are invisible to it), and a function is nonzero at its reported root.
* quadrature: panel bounds on a grid whose step is the floating-point spacing, so
  that bisection to roundoff happens; errors are small natural numbers with exact
  sums. A panel rule is one choice of error and roundoff verdict; the epsilon
  algorithm is one choice of estimate and table length. The caps of the roundoff
  detectors (6/10/20 passes, 3 last results) are scaled down to constants.
* `NightlyIssue`: a job is a name, a commit the set of jobs that fail at it. `pending` is
  the one waiting run of the concurrency group (a newer one replaces it), `head` the
  commit of the run under way, `concl` its job list. `cmd_report` is one action per
  request (`Look`, `Read`, `Note`, `Close`, `Comment`, `EnsureLabel`, `File`), so that a
  person (`Turn`) or the end of the run (`Die`) comes between any two. An issue is
  whether it is open and which jobs its body and comments record.
* `NightlyBisect`: commits are numbers, the history any acyclic graph with one root;
  "fails" is any set of commits, so broken commits may have working descendants.
  `Search` is `last_green` on the two lists of runs, `Rerun` the test of the good commit,
  `Step` one commit tested by `git bisect run` (any suspect, as git may choose), `Blame`
  its end. An accident (a flaky status, drift of the toolchain, the time limit) is bounded
  by `MaxAccidents`, and `clean` remembers whether one has happened.
* `SourceScan`: a text is written line by line by the rules of Fortran (`place`, `stmt`),
  and both scanners read each line as it is written; a line is its kind, the names in it
  and whether it ends in `&`. What the text means is kept beside what the scanners made
  of it. Ways of writing they are known to misread are named in `Habits`.
* `KernelInventory`, `GeneratedKernels`, `Documentation`: a row, file, link, module or table
  is chosen as it is read; texts are truth values. `claims` and `faulty` are history: what
  the rows claim how often, and whether the checks were shown a fault.

The abstract specifications. `Stepper` says what a caller of `bdf_integrate_to`,
`exprb_integrate_to` or `rk8pd_evolve_apply` may rely on: endpoints move toward the
target and never past it, success is reported at the target and only there (or
"paused" after one step asked for), a failure leaves the last accepted endpoint.
The three integrators implement it under the mapping `at <- t, goal <- target,
outcome <- ...` (property `ContractKept`). `IntegrationTrace` says what the readers of
a trace may rely on: success comes with the one step made to end at t1 (`Arrive`) and with no other,
and a trace that stands at t1 without success has been taken there by the rounding of a shorter
step (`Overlook`). `OdeIntegrate` implements it (`ImplementsTrace`; `TraceIsMesh` adds how much
shorter such a step may be, and `ode_endpoint` shows that it happens). Mode "use"
of `OdeTrace` runs the readers on every trace the contract allows, not only on
those the step controller would produce. `FailureTicket` is the promise in the header
of `nightly.yml`: failures are added to a ticket or filed as a new one, and only a
result in which every job owed has passed, and none failed, settles it. `NightlyIssue`
implements it step by step (`ImplementsTicket`), with the queries, crashes and people
that the promise does not speak of.

## 3. Runs

| Run | Question | Bounds, and why they suffice |
|---|---|---|
| `multiroot_newton` | Does `multiroot_step` under a device loop, and does `multiroot_hybrid`, end with a point and a status that agree; do the two agree with each other? What does the warm cache of `multiroot_hybrids` hold after every return? | 3 merit levels (descend twice, tie), 3 Newton steps, lambda halved 3 times at most (side by side: 3 halvings against 3 trials, the code's 30 against 30; alone: the same two limits); NaN excluded, see the observations; two calls of `multiroot_hybrids` with 4 trials each, which reaches refresh, noise-level updates, both slow-progress counters (scaled from 10 and 5) and a warm start that fails; a trust radius of level 2 that shrinks past xtol at level 1, so that stagnation ends calls too |
| `one_variable` | Are brackets kept and verdicts of a root finder right? Is the stack of an integrator a partition, is the worst panel bisected although the order is only partly maintained, are the sums and the verdict right? | bisection on 64 grid steps (5 halvings), Newton on 9, Brent and the event finder on 16, budgets 0, 2, 5, 40: both "out of iterations" and convergence occur; signs and two magnitudes, no underflow. Limits 1, 2, 5, 8: with 8 the pointer list is truncated while more bisections follow; 3 error levels where the stack is small, two where it is full |
| `brent_stagnation` | Does Brent's method fall behind bisection by more than a factor of two? | a bracket of 16 tolerances, one value on the side of the root that stays and four decreasing ones on the other, 40 iterations |
| `ode_steppers` | Three calls with one state, in both directions, callbacks failing anywhere: is everything reused current, the growth bounded, the contract kept? | targets -3, 0, 2, 8; steps up to 6; 4 attempts per call, so budgets are exhausted, minimum steps undercut, clips and the roundoff allowance (gap 1, ratio 4) taken; a Newton solve has 4 residual levels, 3 iterations, 2 backtracks |
| `ode_multistep` | Is a step of DDEABM or VODE built on the mesh really accepted, and is what it needs later there? Does a driver interpolate where its interpolant is valid, respect tstop, report every root, return? | order 4 (the diagonal of v is caught up over more than one row, the stack of pending updates holds two entries) and 3; two lengths for DDEABM, as every new length restarts the recursion, four for VODE (factors 1.5 to 10); restart wait 5, 4 and 2 failures for 10, 15 and 10; three calls over five output points, one apart and less than fouru x = 2 apart among them, so that a point is asked for behind or beside the mesh; 4 steps; tstop a roundoff behind an output point, or nearer than the floor of the first step (3) may be short; two functions with five roots between them |
| `vode_window` | Is what a driver hands out always inside its last step? | as above, one code |
| `ode_trace` | Is every trace a mesh, and do event scan and replays read it right? | two integrations with one object over 4 clock spacings either way, 3 steps, refused problems and NaN right-hand sides; strides 0, 1, 2 so that the last checkpoint segment is short |
| `ode_endpoint` | Is a trace that ends at t1 a success? | `ode_integrate` alone, the same interval |
| `quadrature_two_sided` | Is a failure reported? | the whole line as two half lines |
| `nightly_issue` | Is there one issue, does it promise what the header says, is it filed and closed in the end? | two jobs (a run or record may concern one of them), two breaks, a dispatch, a hand on the issue, one fault: the issue is closed under a running report, a run is replaced in the queue, a report dies between two requests |
| `scripts` | Do both scanners report what the text means? When do the checks pass? Does the range start where the job passed, did the culprit break it, is a runner not blamed? | two modules, scopes five deep (an interface in a procedure of a module, and a procedure inside it), three lines of api.md, at most one of the seven habits; the inventory with two rows, three files, two symbols, one wrapper (claimed twice, moved, filed under the wrong class); the other checks after two changes to six sources under three locks with two revisions, documents of up to three headings; every history of four commits (two may be merges), every set of broken ones, three runs listed beside a few kinds of merge-queue lists (`SomeRuns`), one accident: a page is full, runs are not in the order of commits, the good commit may fail on rerun |
| `cuda_drift` | Does every drift from a lock fail the check? | as above, the checks alone |

The type invariant of each module is a conjunct of one of the invariants its run
checks (`WorkBounded`, `BracketKept`, `FirstEventFound`, `CoefficientsOfMesh`,
`WorkspaceConsistent`, `OneIssue`, `NewestGreen`, `AuditHonest`, `ExitTellsDrift`, `KernelTypeOK`).
Liveness: `Returns`, every call returns (in `ode_multistep` every call of a driver, and a
step attempt is bounded by its failure counts), in all numerical runs but `one_variable`:
root finders and bisections of panels are counted loops, which end as they are written.
`ClosesWhenFixed` and `FilesWhenBroken` in `nightly_issue`. `CHECK_DEADLOCK FALSE` is used
where the caller's budget of calls, the text that is read or the commits to be tested end the
behaviour; `nightly_issue` never stops and has it on.

Fairness. In the four numerical runs with liveness: weak fairness of the steps of a call that is running,
and nothing else. The code is sequential; once called, it executes its next statement
and its callbacks return. The caller is never assumed to call again, and no fairness
says which way a data-dependent choice goes, so a loop that ends only because a good
residual must come eventually would be found not to end. In `nightly_issue`: weak fairness
of `Night` (cron queues a run every night), `Plan` (GitHub starts a queued run),
`Conclude` (jobs have a time limit) and `Report` (a request is answered, if only by an
error). People, dispatches, commits and faults are never assumed to happen, and they
are bounded; that a repaired job stays repaired is the premise `<>[]` of the property.

Five runs show where the code does not do what a comment or a document says:

* `quadrature_two_sided`: `integrate_qagiu` over the whole line passes one status to
  two driver calls; a failure of the first is overwritten.
* `cuda_drift`: `check_generated_revision` reads `src/generated/*.f90` only, so a CUDA kernel
  left at an older revision than its lock passes, where docs/README.md:66-69 says the
  check rejects generator-lock drift. (`tools/codegen/check_generated.sh`, which compares
  bytes and needs the generators, would see it; CTest's documentation test does not run it.)
* `brent_stagnation`: the comment above `root_brent` promises "guaranteed linear (bisection-like)
  in the worst case" (fortnum_roots.f90:374-376). Interpolated steps that each pass the safety
  test (:488) may alternate with bisections: a bracket of 16 tolerances takes a ninth pass, where a
  halving every other pass would need eight.
* `ode_endpoint`: a step of `ode_integrate` that falls short of t1 by less than the clock can tell
  is rounded onto t1 unclipped (fortnum_ode.f90:444). The trace is then complete, and the call ends with "step
  cannot advance time", where docs/design/ode.md:63-64 has "a final step to the nearest
  representable endpoint" supported.
* `vode_window`: the mesh of `vode_integrate_to` runs ahead of the caller. With an event monitored, an
  output point the mesh has passed is not interpolated at once (:278-285): another step is taken
  and the polynomial of *that* step is evaluated outside [tn-hu, tn], against "interpolate
  exactly to tout" (:162-163). A program that asks for closely spaced output drifts one step
  further with every call. `ContinuesWithinMesh`, in `ode_multistep`, says that nothing else leads out of the
  last step: only a program with events that has asked for a time behind the mesh (`AskedBehind`).

Smaller observations, without a run:

* a residual that is all NaN has `inf_norm` 0 and is reported as `MULTIROOT_DONE`,
  "converged (root in x)"; `multiroot_newton` runs without NaN (`NanKinds`).
* `fb*fc > 0` underflows for tiny values of one sign; Brent's bracket is lost and success
  reported without a sign change, against "maintain a valid bracket". No run has such values
  (`NormalValues`, whose halves and products are never zero), so no property catches it.
* without the error test of `exprb_integrate_to` a step clipped to the target replaces the
  proposed magnitude for good, against docs/design/ode.md:319.
* a right-hand side that is not finite keeps `ode_integrate` rejecting for ever when
  `hmin = 0`; `max_steps`, documented as an accepted/rejected budget, counts accepted steps.
* `multiroot_rc` says it reproduces the host solver; a full step below xtol ends the
  stepper with DONE and the host with a convergence error (fortnum_multiroot_rc.f90:120).
  `AgreesOnPlainRuns` therefore excludes such steps and exhausted line searches.
* a refused call of `ode_integrate` leaves the old trace beside `nsteps = 0` (the event
  scan counts `t`, the replays count `nsteps`).
* the guarded Newton reports a near-multiple root for an iterate, not for an end of
  the bracket; the comment above the bisection speaks of superlinear Illinois steps,
  the code only bisects.
* `integrate_qagiu` over the whole line reports as its error the sum of what the two halves
  report, each of which may reach the tolerance: OK with an error above it happens, against
  docs/design/integrate.md:71-72. `StatusIsHonest` says what is left: at most twice the tolerance, and only
  when both halves were accepted. The panels and `extrapolated` of the result are those of the last half.
* cquad leaves with OK and an error above tolerance when all panels are at their
  roundoff floor (`StatusIsHonest` says exactly when); the QAG drivers report a
  convergence error when the last allowed bisection meets the tolerance, the same
  verdict as QUADPACK's `ier = 1`; integrate_qagp ignores duplicate and outside
  breakpoints where integrate.md:58 calls them domain errors.
* rk8pd: the comment before `rk8pd_evolve_apply` says the clipped last step is not
  recorded and the cached derivative valid at t1; the code stores a step derived from
  the clipped one and drops the derivative (fortnum_ode_rk8pd.f90:440).
* `ddeabm_integrate_to`: the first step is at least 100 ulps of t (hstart), so with a
  tstop between 4 and 100 ulps away it lands beyond tstop, where the comment (:307) says no
  step does. An output point within fouru\*|x| of the mesh point is reached by extrapolation and leaves t
  beyond x; where the mesh lies relative to the next output is decided by comparing distances from t,
  without their signs, so with outputs closer together than that and a tstop moved on, a point beyond
  the mesh is "interpolated". `ContinuesWithinMesh` names both: a landing beyond tstop is by a step no longer
  than the least first one, and a point beyond the mesh is at most twice as far from it as the one before. At x = 0 the
  step has no lower limit (fouru\*|x| = 0): an error that is never below the tolerance,
  NaN for one, is retried for ever; `Gap` is positive. `max_steps` counts trial steps over the life of
  the state (`ksteps`), not of a call.
* `vode_integrate_to`: `at_event` survives `vode_init` and calls without an event, so a
  later call with one scans from a root of long ago; a root beyond tout but inside the
  last step ends the call although tout was reached; two functions with a root at
  the same place report one; the comment says the state holds tout as the new tn,
  it holds the mesh top. After a failed `take_step` the factor eta stays pending and the
  next call applies it once more, below hmin.
* `rng_split` with a negative stream returns the parent's own sequence.
* a failure that is no commit's (a flaky test) is bisected like any other: every suspect
  is good, and the commit of the run itself is named (nightly_triage.py:245).
  `CulpritBroke` is therefore claimed without such an accident only; `BlamesCode` covers a
  toolchain that was broken before.
* reopening an old issue while a report files a new one leaves two open (`OneIssue` allows
  one more per hand).
* audit_modules: a bare `private` inside a derived type counts as the module's default
  (audit_modules.py:120); `procedure, public :: m =>` in a type is taken for a name of the
  module; of `integer, parameter, public :: A = 1, B = 2` only A is seen; a comment line
  inside a continued statement ends it; a module in none of the script's lists (a new one, say)
  is not checked against api.md, though the docstring (:6) has each public name documented
  and the message (:354) says that all public surfaces match. The inventory's
  scanner sees neither `endinterface` nor a name on the line after `subroutine &`. These
  are the `Habits` of `SourceScan`: with one of its six, the property about the audit claims nothing
  (`AuditBlind`), with one of its two, that about the inventory (`InventoryBlind`).
* check_documentation: a missing README or CONTRIBUTING makes `check_terminology` raise, so
  "missing maintained document" is never printed, though the exit code is right; files in
  `src/generated/fortad` are not globbed, and which files are fortad's is the inventory's word.
* check_contracted_codegen: it reads `*_jvp_kernel.f90` and `*_vjp_kernel.f90` only (:34-35); the variants
  for processors and devices (`fortnum_lagrange4_jvp_kernel_cpu.f90`, `_openacc`, `_openmp_target`,
  `_cuda.cu`) may lose their generator unnoticed, against docs/README.md:72-73.

## 4. Proofs

Assumptions on constants are named and TLC evaluates them in the runs.

`MultirootNewtonProofs`, for every cap, number of halvings and trials and every residual type
(the assumptions of `Residuals`, `MultirootRC` and `MultirootNewton`, which TLC evaluates in
`multiroot_newton`). multiroot_step alone first.
The type invariant is not inductive, nor is the property of the terminal
state: that the point handed back is the accepted one needs that a trial was taken
*from* the accepted point. The inductive invariant is

    IInv == Shape /\ IterBounded,  Shape == TypeOK /\ StartIsFresh /\ TrialFromBase /\ TerminalStateIsAccepted

where `TrialFromBase` (during a line search x is the base point plus 2^-ls_count dx)
makes an accepted trial one entry longer, which in turn gives `IterBounded` (the number
of Newton steps is the length of the point). From it: `TypeCorrect`, `TerminalState`,
`TrialPoints`, `Bounded`, and the action property `Sticky` (after the end nothing changes).
Then the four solvers together, `NewtonInv`, of which the two parts that carry most are:

* `HybridsCache`, for `Warm`: during a call with a cache, as long as no update was noise the estimate
  at hand *is* the latest clean one; afterwards it is not, stays noisy, and the cache has
  the clean one already, so that nothing is lost however the call ends. `HybridsCost`, for `Bounds`, is
  the count behind "two poor ratios in a row": a third iteration must reset ncfail before
  the next refresh, whence jacs <= 1 + (it + 1)/3.
* `Lockstep`, for `Agreement`: F at the point the stepper waits for is known to
  the host only (`Ahead`), to both (`Told`), or to nobody yet (`Behind`), and in each case
  the host is where the stepper will be after its next call (`HostDealt`: it has
  rejected the trial, or moved, ended or run out of iterations there).

`Agreement` assumes that the stepper has no fewer halvings than the other's trials allow (`SameTrials`; both
are 30) and, as `Honest` does, that no component is NaN (`NumbersOnly`): with a NaN the
claim is false, which is one of the findings.

`ScalarRootsProofs`, for a bracket of any width, every tolerance and budget, any set of values f may
take (`RootsAssumption`): `Bracketed` and `Located`, each under the hypothesis
`NoUnderflow`. The hypothesis is needed: bisection, Newton and Brent test for a sign change with a
product, and with two values whose product underflows to zero `BracketKept` is false of each
(TLC shows it at once with values of magnitude 1). The event finder compares signs;
`EventFound` says the same of it without the hypothesis.

    IInv == finder is one of the four, and keeps BisectInv, NewtonInv, BrentInv or EventInv

Bisection and Newton keep one sign change from pass to pass. Brent's method does not say where it
is until the points are in order: before the test at the head of the loop the change is
between the best and the opposite point unless the best one is a root already (`BrentInv`); for the
event finder, which leaves the sides alone after an update, it may be between the last
two points as well (`EventInv`). `BrentMoves` bounds every step the safety test lets
through, which is what keeps the points inside the first bracket. Two things about the
model came out of it: the exit test of the bisection compared a half width rounded to
the grid (now exactly), and the event finder's number of passes is never zero.

`OdeSteppersProofs`, for every set of integer targets, every step bounds and budget
(`BdfAssumption`, `SteppersAssumption`: there is a target, and no more than finitely many, since
the longest step `Rk8pd` tries is the longest way between two). BDF alone first:
`IInv == TypeOK /\ HistoryConsistent /\ AttemptsBounded`; the budget is
inductive because each of the three counters is advanced only by an attempt, which
is guarded by the sum. Lemmas `SizeBounds` (a step is at most the way to the target
and exceeds max_step by rounding only) and `ProposalsInRange` carry the types;
`Growth` follows from them without induction. `KeepsContract` proves that the integrator
implements `Stepper`: `StepTowardTarget` (a positive step no longer than the gap does
not pass the target, and the loop ends exactly when it is reached), `RunningIsOK` (an
inductive fact: a running call has status OK and is not yet there), `StepRefines`
(each step is a step of the contract, or a stutter). Then the program that drives any of
the steppers, with `SystemInv`, which gives each its own invariant:

    NewtonInv == Newton!TypeOK /\ NewtonPlaced /\ NewtonCounted
    ExprbInv  == Exprb!TypeOK /\ ExprbBase /\ ExprbUnderway
    RkInv     == Rk!TypeOK /\ RkCached /\ RkUnderway

What the stages use when they run (`BaseIsCurrent`) follows only from what is kept while they
do not. `ExprbBase`: what is held is of the endpoint, and the evaluations that succeeded are
as many as the accepted steps, and one more while one is held, which is why none is repeated.
`RkCached`: a first-stage derivative is held across the retries of one step and no longer,
so that none is left when the caller comes back to the same time with another state. `NewtonPlaced` says where in an
iteration x, residual and Jacobian may differ, `NewtonCounted` counts residuals by iteration and backtrack. `Current`,
`Bounded` and `Contracted` are the three properties of the run.

`OdeTraceProofs`, for every interval, longest step, budget, stride and number of integrations with one
solution object (`OdeAssumption`, `StridesAssumption`).

    MeshInv == TypeOK /\ Sequential /\ Recording /\ TraceIsMesh

`Recording` says how the trace and the steps grow together and that the loop stands at the last point
of the trace; it makes `TraceIsMesh` inductive. The rounding of `t + h` is where the work is: that a
rounded step is not beyond t1 and moves on, in either direction (`MeshCorrect`). `IntegrateImplementsTrace` is the
refinement: every action of `ode_integrate` is a step of `IntegrationTrace`, or stutters; a step made to
end at t1 is `Arrive`, one that ends there otherwise `Overlook`. The readers
change nothing of the trace, so what they return can be stated over it: `EventInv` says that of the
intervals scanned so far none has a crossing in the wanted direction, and `FirstEventCorrect` follows;
`ReplayInv` has one conjunct for each sweep, what it has linearised as a function of the place it has
reached. For the sweep from checkpoints `CheckpointsSpan` (kept steps start at 0, end at nsteps and are at
most a stride apart, the last segment being short) is what makes recomputed states those of the
trace, `SegmentInv` that the sweep is in the segment it has recomputed.

`OdeMultistepProofs`, for every set of output points, stops, roots and lengths, every order and count
of failures (`MultistepAssumption`, `LengthsAssumption`).

* `RootsAreReported`, from `VodeInv`: the list reported is *exactly* the set of roots of the wanted
  kind between the start and the place seen last, in the order of the way (`Lists`). The property
  checked is one inclusion of it; neither inclusion is inductive alone. That a call which ends
  inside a step leaves the rest of the step for the next one, and that a root is not found again by the
  search that starts at it, are `ReportedOne` and `NothingYet`.
* `InterpolationStaysInside` is the action property `ContinuesWithinMesh`, of any output points and stops however close
  together. For vode `VodeWindow` says that a point handed out is in the last step of a program without
  events, and of one with events unless it has asked behind the mesh. For ddeabm `DdeabmPlaces` orders xold, x, the
  point reported last, the target and tstop along the direction as far as they are ordered: the point reported may be
  *ahead of the mesh*, after an extrapolation (x within fouru\*|x| of the output point), and a trial
  passes tstop only with the least length. Both exceptions of the property come from the proof.
* `NordsieckCorrect`, from `NordsieckInv`: `tau` is the mesh, the scale of the Nordsieck array is the
  length of the step, and in a step before an order may change tq(1), tq(3) and the correction put
  aside are those of the order that is used.
* `MultistepCorrect` is `CoefficientsOfMesh` for both codes. For DDEABM it says of a trial that psi, the
  g(\*) and the columns are those of the mesh it extends, and of an accepted step that `interp` finds the
  integral of its order whichever of three ways it takes. That follows from

      AdamsInv == Adams!TypeOK /\ AdamsOrders /\ AdamsDistances
                  /\ (ns >= 1 => AdamsStaircase /\ AdamsTaken)

  `AdamsOrders` relates order, columns and the equal steps counted by ns to the mesh; `AdamsDistances` gives
  psi both during a trial and between trials, when it must be ready for a length not chosen yet.
  `AdamsStaircase` is what nobody wrote down: how far each number of v has been updated. It is
  a staircase that falls by one per column, with one more landing for each entry of the stack iv,
  left where an order was lowered and caught up with later; `AdamsTaken` reads w, the g(\*) and the gi off it. One proof
  per action: a new length starts the staircase anew, an equal step climbs one stair at the same
  order, at a raised one (from the top of the stack, `ClimbTo`, `DiagonalClimbed`) or a lowered one
  (which is pushed). The loops over the tables are recursive functions, and are proved equal to closed forms
  (`RowsOf`, `DiagonalOf`, `NextOf`, `GdiOf`). `LengthsAssumption` says that DDEABM has more than one order
  and that each length but the greatest has a double.

`LeastNumber` is about no component. The library's induction theorems take an operator
as a parameter, which the provers cannot instantiate; but for *sets* induction follows
from the well-foundedness of inclusion between finite sets (the intervals 0..m that end
in the set). `LeastNatural`, `GreatestNatural`, `GreatestOfFinite` and `UpTo` give the first and the last
number with a property and induction up to a number; `LoopDefined` shows that a function
defined by recursion in a LET is the one its recursion describes. With them "the newest
issue", "the first run of the list" and "the names the lines of api.md hold" are proved
about, for lists of any length.

`NightlyProofs`, the issue first: for every finite set of jobs and all bounds (`JobsAssumption`,
`BoundsAssumption`). The report looks for an open issue in one request and files one
several requests later, so `OneIssue` is not inductive: that no issue was opened in
between except by hand is `Filing` (a report about to file has seen none, and what is
open by then was reopened since, by a person), and what the report has made of the run
until then is `Decided` (what it
wants to close was green for every job the issue records). `IInv == OneIssue /\ Filing /\
Decided`; `Unique` is `Spec => []OneIssue` and `Promise` the refinement `Spec =>
ImplementsTicket`, one step lemma per request (`TicketSteps`): a request that changes the
issue is `Extend`, `File` or `Settle` of `FailureTicket` on the issues mapped to what
they owe, the others are results or stutter. Closing is where the proof needs the
invariant: the jobs owed must still be those read two requests earlier. Between two requests
a person may open or close the issue, but what it records only the report changes.

The bisection: for every number of commits, every acyclic history over them with
one root, every set of failing commits, pages of any length, any number of accidents (`BisectAssumption`):

    BInv == Typed /\ Chain /\ Honest /\ RangeStart /\ Marks /\ Claims

`Chain`: the nightly runs listed are newest first *and* ordered by ancestry, because one
branch is tested that only moves on; this makes the first passing run the newest one,
and is what fails for the merge queue, whose runs are of commits that are not ordered.
`Honest`: a listed run that passed was of a commit that works. `RangeStart`
gives `NewestGreen`. `Marks`: a commit `git bisect` takes for good, or bad, is one that
works, or fails, unless there was an accident. `Claims` is the two promises of
the report, `CulpritBroke` and `BlamesCode`, inductive with the rest. Ancestry is the
least set closed under parents, and is proved reflexive, transitive and antisymmetric
first.

`CheckProofs`, the scanners: for any number of modules, lines, levels of nesting, documented
interfaces, habits (`ScanAssumption`). `Definitions`: the inventory's scanner sees exactly the procedures
that are defined, by

    SInv == Nested(place) /\ depth \in Nat /\ used \subseteq Habits /\ DepthCounted /\ Headed

where `Nested` is the grammar of scopes and `DepthCounted` says that the scanner's depth is the
number of interface blocks open, counted over a stack of any height. `Honest`: the module
audit's verdict is the meaning of the text. The audit counts interfaces at some of their
beginnings and all of their ends, so its count is *not* the number of open interfaces, and what is
inductive is weaker and enough:

    AInv == SInv /\ Statements /\ Levels /\ Reading /\ Known

`Levels`: the count never exceeds the interfaces open, or by one after the habit
"closed up", and is 0 between modules; `Statements` and `Reading`: what the audit holds of an unfinished statement
and of a module is what was written of them so far; `Known`: outside the habits the names taken for public are those that are.
That `ParseApi`, a loop over the lines of api.md with the section as its state, returns
what is documented is `ApiRead`, by induction over the lines.

The checks: for every set of files, symbols and artifacts, finite or not,
and any number of rows, every assignment of sources to locks, kinds and revisions, every
list of documents (`KernelAssumption`, `GeneratedAssumption`, `DocumentationAssumption`).
`Ownership`: the inventory script passes exactly when
each kernel and wrapper has one claim and nothing else has any. The script never counts
claims; it keeps the names seen and two sets that it compares with what it finds, so
the property says nothing inductive about the state. The invariant

    KInv == KernelTypeOK /\ Counted /\ Split /\ Scanned /\ Judged /\ OwnedOnce

says when sets stand for counts (`Counted`: a name is seen if its count is not 0; `Split`:
the two sets are the halves of what is seen as long as every row is filed under its
class) and which flaw is noted by when (`Judged`: a second claim or a wrong class at once,
with one exception, a kernel claimed for the wrapper generator under the class of a
source, which only the comparison of the kernels reveals, `Compare_Kept`). All checks together:

    DInv == KInv /\ FilesTyped /\ Ran /\ Told /\ Checked

`Ran` says which check has run by when, `Told` that errors have been noted if and only if a fault
was shown (what is lost by raising included); from it `ExitCode` (0 exactly when nothing was out of
order, unless the fault is one the checks overlook) and `Owned`. The check of
the revisions overlooks CUDA sources, see `cuda_drift` above; `DriftIsCuda` is
the other half of that counterexample: with the right foreign sources in the table,
exit code 0 does mean that nothing *but* CUDA sources has drifted. One finding about the model: two cases of a row's
class overlapped, and the choice between them was TLC's; they are disjoint now.

Only model-checked, and why:

* liveness (`Returns`, `ClosesWhenFixed`, `FilesWhenBroken`): the proof system has no rule for
  fairness that the installed provers can use;
* the sums of `Quadrature` (`WorkspaceConsistent`, `ShallowErrorTracked`, `StatusIsHonest`), which
  are folds over the stack: what a fold computes would be proved by induction over data.

## 5. Not modelled, and why

`PROJECT.json` gives the reason per component. Formulas (special functions, FFT
butterflies, stage sums, LAPACK calls, phi actions, panel rules) are outcomes: a
claim about them is about real arithmetic. Argument checks that return at once are
left out of the state machines unless they leave something behind. Straight-line
code, C conversions, generated kernels, tools and examples have no control worth a
model; of the scripts these are the test runner of fpm and the two generators of
tables, which compute a text once from literals. What is left out of a modelled script:

* nightly: more than a page of comments (100) or of issues (50), issues of other branches,
  reruns of an old run, a deleted label, the wording of the report. git is external:
  `bisect run` may test any suspect left, and stops as its exit codes say.
* scanners: names beyond the two or three that decide, preprocessor lines, submodules.
* checks: `check_contracted_codegen.py` (a list of names beside a list of files); the inventory is run as a subprocess, which
  passes or not.
* documents: headings inside code blocks or ending in a number, several modules in one
  file, `<...>` links in the map of documents, number formats of the report.

The rest is planned:

## 6. Plan

1. Systems of equations: done, with proofs.
2. Scalar roots and event location: done. To come: complex roots, minimizers.
3. Integrators with a state: BDF, exponential, RK8(7), DDEABM, VODE done. To
   come behind the same contract: DOP853, Gauss-Radau, extrapolation, TDRK.
4. Traces, events, replays: done.
5. Quadrature: done.
6. Iterative linear algebra as one composite: Krylov restarts and verdicts, phi
   substeps, BVLS active set, refinement, Newton-MR.
7. Random streams (split, buffer, carry, skip), NUTS.
8. Interval operations on a small grid against containment; the validated ODE loop.
9. Nightly workflow, scanners and checks of the repository: done.
10. Proofs: done for every component modelled but quadrature (see the end of section 4).
