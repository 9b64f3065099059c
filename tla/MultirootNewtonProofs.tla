----------------------- MODULE MultirootNewtonProofs -----------------------
(***************************************************************************)
(* The safety of the solvers for systems of equations, for every iteration *)
(* cap, number of halvings or trials, and kind of residual: multiroot_step *)
(* alone, multiroot_hybrid alone, both on one system, and any number of    *)
(* calls of multiroot_hybrids with one cache.                              *)
(***************************************************************************)
EXTENDS MultirootNewton, FiniteSetTheorems, TLAPS

\* Before the first step the state holds x0 and nothing has been decided.
StartIsFresh == phase = "START" => x = xBase /\ iter = 0

\* What holds of the stepper whatever its cap: the terminal point is the
\* accepted one because a trial is known to start from it.
Shape ==
  /\ TypeOK
  /\ StartIsFresh
  /\ TrialFromBase
  /\ TerminalStateIsAccepted

\* The cap holds because every accepted trial makes xBase one longer.
IInv == Shape /\ IterBounded

-----------------------------------------------------------------------------
\* A Newton start from the accepted point leaves a well-typed state, and
\* either ends at that point or asks for the full step from it.
LEMMA BeginNewtonEffect ==
  ASSUME TypeOK, BeginNewton, phase # "DONE", TerminalStateIsAccepted
  PROVE  /\ ls' \in 0..MaxHalvings /\ base' \in Residual
         /\ x' \in Seq(Nat)
         /\ phase' \in Phases /\ fail' \in FailCodes /\ action' \in Tokens
         /\ \/ /\ phase' = "DONE" /\ action' = "FAILED" /\ fail' = "SINGULAR"
               /\ x' = x
            \/ /\ phase' = "LINESEARCH" /\ action' = "NEED_FJ" /\ fail' = "OK"
               /\ x' = Append(x, 0) /\ ls' = 0
<1>1. fail = "OK"
  BY DEF TerminalStateIsAccepted
<1>2. CASE f.singular
  BY <1>2 DEF BeginNewton, Stop, TypeOK, Phases, Tokens, FailCodes
<1>3. CASE ~f.singular
  <2>1. 0 \in 0..MaxHalvings
    BY MaxHalvingsAssumption
  <2>2. Append(x, 0) \in Seq(Nat)
    BY DEF TypeOK
  <2>3. QED
    BY <1>1, <1>3, <2>1, <2>2 DEF BeginNewton, TypeOK, Phases, Tokens, FailCodes
<1>4. QED
  BY <1>2, <1>3

LEMMA InitInv == Init => IInv
<1>1. ASSUME Init PROVE IInv
  <2>1. <<>> \in Seq(Nat) /\ Len(<<>>) = 0
    OBVIOUS
  <2>2. f \in Residual
    BY <1>1 DEF Init
  <2>3. TypeOK
    <3>1. /\ x = <<>> /\ xBase = <<>> /\ base = f
          /\ phase = "START" /\ fail = "OK" /\ action = "NEED_FJ"
          /\ iter = 0 /\ ls = 0 /\ ready = FALSE
      BY <1>1 DEF Init
    <3>2. x \in Seq(Nat) /\ xBase \in Seq(Nat) /\ base \in Residual
      BY <2>1, <2>2, <3>1, Zenon
    <3>3. /\ phase \in Phases /\ fail \in FailCodes /\ action \in Tokens
      BY <3>1 DEF Phases, Tokens, FailCodes
    <3>4. iter \in Nat /\ ls \in 0..MaxHalvings
      BY <3>1, MaxHalvingsAssumption
    <3>5. ready \in BOOLEAN
      BY <3>1, Zenon
    <3>6. QED
      BY <2>2, <3>2, <3>3, <3>4, <3>5 DEF TypeOK
  <2>4. QED
    BY <1>1, <2>1, <2>3, MaxIterAssumption
       DEF Init, IInv, Shape, StartIsFresh, TrialFromBase, TerminalStateIsAccepted,
           IterBounded
<1>2. QED
  BY <1>1

\* An accepted trial makes the accepted point one step longer.
LEMMA AcceptedPoint ==
  ASSUME TypeOK, TrialFromBase, phase = "LINESEARCH", IterBounded
  PROVE  x \in Seq(Nat) /\ Len(x) = iter + 1
  BY DEF TypeOK, TrialFromBase, IterBounded

\* An accepted trial, whatever the reason to end or not.
Taken ==
  /\ Call("LINESEARCH") /\ Accepts
  /\ xBase' = x /\ iter' = iter + 1
  /\ \/ Stop("DONE", fail) /\ UNCHANGED <<ls, x, base>>
     \/ Stop("FAILED", "MAXITER") /\ UNCHANGED <<ls, x, base>>
     \/ BeginNewton

\* Every call and every evaluation leaves the shape.
LEMMA StepShape ==
  ASSUME Shape,
         \/ \E r \in Residual : Evaluate(r)
         \/ StartAtRoot \/ StartNewton \/ Taken \/ Reject \/ StepAfterEnd \/ UNCHANGED vars
  PROVE  Shape'
<1> USE DEF Shape
<1>1. ASSUME NEW r \in Residual, Evaluate(r) PROVE Shape'
  BY <1>1 DEF Evaluate, TypeOK, StartIsFresh, TrialFromBase, TerminalStateIsAccepted
<1>2. CASE StartAtRoot
  <2>1. TypeOK'
    BY <1>2 DEF StartAtRoot, Call, Stop, TypeOK, Phases, Tokens
  <2>2. QED
    BY <1>2, <2>1
       DEF StartAtRoot, Call, Stop, TypeOK, StartIsFresh, TrialFromBase, TerminalStateIsAccepted
<1>3. CASE StartNewton
  <2>1. phase # "DONE" /\ BeginNewton
    BY <1>3 DEF StartNewton, Call
  <2>2. /\ f' = f /\ ready' = FALSE /\ iter' = iter /\ xBase' = xBase
        /\ iter = 0 /\ x = xBase
    BY <1>3 DEF StartNewton, Call, StartIsFresh
  <2>3. TypeOK'
    BY <2>1, <2>2, BeginNewtonEffect DEF TypeOK
  <2>4. QED
    BY <2>1, <2>2, <2>3, BeginNewtonEffect DEF StartIsFresh, TrialFromBase, TerminalStateIsAccepted
<1>4. CASE Taken
  <2>1. /\ phase = "LINESEARCH" /\ f' = f /\ ready' = FALSE
        /\ xBase' = x /\ iter' = iter + 1 /\ fail = "OK" /\ x \in Seq(Nat) /\ iter' \in Nat
    BY <1>4 DEF Taken, Call, TerminalStateIsAccepted, TypeOK
  <2>2. CASE BeginNewton
    <3>1. TypeOK'
      BY <2>1, <2>2, BeginNewtonEffect DEF TypeOK
    <3>2. QED
      BY <2>1, <2>2, <3>1, BeginNewtonEffect DEF StartIsFresh, TrialFromBase, TerminalStateIsAccepted
  <2>3. CASE ~BeginNewton
    <3>1. /\ phase' = "DONE" /\ x' = x /\ ls' = ls /\ base' = base
          /\ \/ action' = "DONE" /\ fail' = "OK"
             \/ action' = "FAILED" /\ fail' = "MAXITER"
      BY <1>4, <2>1, <2>3 DEF Taken, Stop
    <3>2. TypeOK'
      BY <2>1, <3>1 DEF TypeOK, Phases, Tokens, FailCodes
    <3>3. QED
      BY <2>1, <3>1, <3>2 DEF StartIsFresh, TrialFromBase, TerminalStateIsAccepted
  <2>4. QED
    BY <2>2, <2>3
<1>5. CASE Reject
  <2>1. /\ phase = "LINESEARCH" /\ phase' = phase /\ action' = "NEED_FJ"
        /\ ls' = ls + 1 /\ x' = Append(xBase, ls + 1)
        /\ UNCHANGED <<iter, fail, xBase, base, f>> /\ ready' = FALSE
    BY <1>5 DEF Reject, Call
  <2>2. ls' \in 0..MaxHalvings
    BY <1>5, <2>1, MaxHalvingsAssumption DEF Reject, Accepts, TypeOK
  <2>3. TypeOK'
    <3>1. ls + 1 \in Nat
      BY MaxHalvingsAssumption DEF TypeOK
    <3>2. x' \in Seq(Nat)
      BY <2>1, <3>1 DEF TypeOK
    <3>3. QED
      BY <2>1, <2>2, <3>2 DEF TypeOK, Tokens
  <2>4. QED
    BY <2>1, <2>3 DEF StartIsFresh, TrialFromBase, TerminalStateIsAccepted
<1>6. CASE StepAfterEnd
  BY <1>6
     DEF StepAfterEnd, TypeOK, Tokens, StartIsFresh, TrialFromBase, TerminalStateIsAccepted
<1>7. CASE UNCHANGED vars
  BY <1>7
     DEF vars, TypeOK, StartIsFresh, TrialFromBase, TerminalStateIsAccepted
<1>8. QED
  BY <1>1, <1>2, <1>3, <1>4, <1>5, <1>6, <1>7

\* The cap is tested before a further step is begun.
LEMMA StepInv == IInv /\ [Next]_vars => IInv'
<1> SUFFICES ASSUME IInv, [Next]_vars PROVE IInv'
  OBVIOUS
<1> USE DEF IInv
<1>1. Accept => Taken
  BY DEF Accept, Taken
<1>2. Shape'
  BY <1>1, StepShape DEF Next, Step
<1>3. CASE Accept
  <2>1. phase = "LINESEARCH" /\ xBase' = x /\ iter' = iter + 1
    BY <1>3 DEF Accept, Call
  <2>2. x \in Seq(Nat) /\ Len(x) = iter + 1
    BY <2>1, AcceptedPoint DEF Shape
  <2>3. iter' <= MaxIter \/ iter' = 1
    BY <2>1, MaxIterAssumption DEF Shape, TypeOK, IterBounded
  <2>4. phase' = "LINESEARCH" => iter' < MaxIter
    BY <1>3, <2>1, MaxIterAssumption DEF Accept, Stop, CapReached, Shape, TypeOK
  <2>5. QED
    BY <1>2, <2>1, <2>2, <2>3, <2>4 DEF IterBounded
<1>4. CASE StartNewton
  <2>1. iter = 0 /\ iter' = iter /\ xBase' = xBase
    BY <1>4 DEF StartNewton, Call, Shape, StartIsFresh
  <2>2. QED
    BY <1>2, <2>1 DEF IterBounded
<1>5. CASE \/ \E r \in Residual : Evaluate(r)
           \/ StartAtRoot \/ Reject \/ StepAfterEnd \/ UNCHANGED vars
  BY <1>2, <1>5 DEF Evaluate, StartAtRoot, Stop, Reject, Call, StepAfterEnd, vars, IterBounded
<1>6. QED
  BY <1>2, <1>3, <1>4, <1>5 DEF Next, Step

\* The inductive invariant of multiroot_step and its caller.
THEOREM Invariance == Spec => []IInv
  BY InitInv, StepInv, PTL DEF Spec

-----------------------------------------------------------------------------
\* Every state multiroot_step can leave behind is well typed.
THEOREM TypeCorrect == Spec => []TypeOK
<1>1. IInv => TypeOK
  BY DEF IInv, Shape
<1>2. QED
  BY Invariance, <1>1, PTL

\* When multiroot_step has ended, state%x is the accepted point and token,
\* fail_code and phase agree.
THEOREM TerminalState == Spec => []TerminalStateIsAccepted
<1>1. IInv => TerminalStateIsAccepted
  BY DEF IInv, Shape
<1>2. QED
  BY Invariance, <1>1, PTL

\* Every trial point the caller is asked for is x_base + 2^(-ls_count) dx.
THEOREM TrialPoints == Spec => []TrialFromBase
<1>1. IInv => TrialFromBase
  BY DEF IInv, Shape
<1>2. QED
  BY Invariance, <1>1, PTL

\* At most max(max_iter, 1) Newton steps are taken, and each is counted.
THEOREM Bounded == Spec => []IterBounded
<1>1. IInv => IterBounded
  BY DEF IInv, Shape
<1>2. QED
  BY Invariance, <1>1, PTL

\* After the end neither the answer nor the point changes again.
THEOREM Sticky == Spec => TerminalIsSticky
<1>1. IInv /\ [Next]_vars
        => [phase = "DONE" => UNCHANGED <<phase, action, fail, x, xBase>>]_vars
  <2> SUFFICES ASSUME IInv, Next, phase = "DONE"
               PROVE  UNCHANGED <<phase, action, fail, x, xBase>>
    OBVIOUS
  <2>1. StepAfterEnd
    BY DEF Next, Step, Evaluate, StartAtRoot, StartNewton, Accept, Reject, Call,
           IInv, Shape, TerminalStateIsAccepted
  <2>2. QED
    BY <2>1 DEF StepAfterEnd, IInv, Shape, TypeOK, TerminalStateIsAccepted, Tokens
<1>2. QED
  BY Invariance, <1>1, PTL DEF Spec, TerminalIsSticky

-----------------------------------------------------------------------------
(* multiroot_hybrid.                                                       *)

\* what is counted while the loop is under way
HostCounted ==
  /\ Host!WorkBounded
  /\ pc # "done" => status = "OK"
  /\ pc = "entry" => it = 0 /\ hx = <<>>
  /\ pc \in {"newton", "search"} => it >= 1 /\ Len(hx) = it - 1

\* success is reported at a residual that passed the test of the code
HostFound == pc = "done" /\ status = "OK" => MaxvalSmall(hf)

HostInv == Host!TypeOK /\ HostCounted /\ HostFound

\* At x0 nothing is counted yet.
LEMMA Host_Begins == Host!Init => HostInv
<1> SUFFICES ASSUME Host!Init PROVE HostInv
  OBVIOUS
<1>1. /\ pc = "entry" /\ it = 0 /\ k = 0 /\ hx = <<>> /\ status = "OK"
      /\ hf \in Residual
  BY DEF Host!Init, Host!Residual, Residual
<1>2. hx \in Seq(Nat) /\ Len(hx) = 0
  BY <1>1
<1>3. Host!TypeOK
  BY <1>1, <1>2, TrialsAssumption DEF Host!TypeOK, Host!Residual, Residual
<1>4. HostCounted
  BY <1>1, <1>2, MaxIterAssumption DEF HostCounted, Host!WorkBounded
<1> QED BY <1>1, <1>3, <1>4 DEF HostInv, HostFound

\* The head of the loop leaves the counter within the cap: one more iteration,
\* or the end with as many steps taken as iterations made.
LEMMA Host_Next ==
  ASSUME it \in Nat, it <= MaxIter, Host!NextIteration, status = "OK"
  PROVE  \/ it < MaxIter /\ it' = it + 1 /\ pc' = "newton" /\ status' = "OK"
         \/ it' = it /\ pc' = "done" /\ status' = "CONVERGENCE_ERROR"
BY MaxIterAssumption DEF Host!NextIteration, Host!Return

\* Every step keeps types and counts.
LEMMA Host_Kept == HostInv /\ Host!Next => HostInv'
<1> SUFFICES ASSUME HostInv, Host!Next PROVE HostInv'
  OBVIOUS
<1> USE DEF HostInv
<1>1. /\ pc \in {"entry", "newton", "search", "done"} /\ it \in Nat /\ k \in 0..Trials - 1
      /\ hx \in Seq(Nat) /\ hf \in Residual
      /\ it <= MaxIter /\ Len(hx) \in {it, it - 1} /\ Len(hx) \in Nat
  BY DEF Host!TypeOK, HostCounted, Host!WorkBounded, Host!Residual, Residual
<1>2. CASE Host!Newton
  <2>1. /\ pc = "newton" /\ status = "OK" /\ it >= 1 /\ Len(hx) = it - 1
        /\ it' = it /\ hx' = hx /\ hf' = hf /\ k' = 0
        /\ \/ pc' = "done" /\ status' = "DOMAIN_ERROR"
           \/ pc' = "search" /\ status' = "OK"
    BY <1>2 DEF Host!Newton, Host!Return, HostCounted
  <2>2. Host!TypeOK'
    BY <1>1, <2>1, TrialsAssumption DEF Host!TypeOK
  <2>3. HostCounted'
    BY <1>1, <2>1, MaxIterAssumption DEF HostCounted, Host!WorkBounded
  <2> QED BY <2>1, <2>2, <2>3 DEF HostFound
<1>3. ASSUME NEW r \in Residual, Host!Entry(r) PROVE HostInv'
  <2>1. /\ pc = "entry" /\ status = "OK" /\ it = 0 /\ hx = <<>>
        /\ hx' = hx /\ hf' = r /\ k' = k
        /\ \/ it' = it /\ pc' = "done" /\ status' = "OK" /\ MaxvalSmall(r)
           \/ Host!NextIteration
    BY <1>3 DEF Host!Entry, Host!Return, HostCounted, Host!MaxvalSmall, MaxvalSmall
  <2>2. \/ it' = it /\ pc' = "done" /\ status' = "OK" /\ MaxvalSmall(r)
        \/ it < MaxIter /\ it' = it + 1 /\ pc' = "newton" /\ status' = "OK"
        \/ it' = it /\ pc' = "done" /\ status' = "CONVERGENCE_ERROR"
    BY <1>1, <2>1, Host_Next
  <2>3. Host!TypeOK'
    BY <1>1, <1>3, <2>1, <2>2 DEF Host!TypeOK, Host!Residual, Residual
  <2>4. HostCounted'
    BY <1>1, <2>1, <2>2, MaxIterAssumption DEF HostCounted, Host!WorkBounded
  <2> QED BY <2>1, <2>2, <2>3, <2>4 DEF HostFound
<1>4. ASSUME NEW r \in Residual, Host!Trial(r) PROVE HostInv'
  <2>1. pc = "search" /\ status = "OK" /\ it >= 1 /\ Len(hx) = it - 1
    BY <1>4 DEF Host!Trial, HostCounted
  <2>2. CASE Host!Take(r)
    <3>1. /\ hx' = Append(hx, k) /\ hf' = r /\ k' = k
          /\ \/ it' = it /\ pc' = "done" /\ status' = "OK" /\ MaxvalSmall(r)
             \/ it' = it /\ pc' = "done" /\ status' = "CONVERGENCE_ERROR"
             \/ Host!NextIteration
      BY <2>2 DEF Host!Take, Host!Return, Host!MaxvalSmall, MaxvalSmall
    <3>2. \/ it' = it /\ pc' = "done" /\ status' = "OK" /\ MaxvalSmall(r)
          \/ it' = it /\ pc' = "done" /\ status' = "CONVERGENCE_ERROR"
          \/ it < MaxIter /\ it' = it + 1 /\ pc' = "newton" /\ status' = "OK"
      BY <1>1, <2>1, <3>1, Host_Next
    <3>3. hx' \in Seq(Nat) /\ Len(hx') = it
      BY <1>1, <2>1, <3>1, TrialsAssumption
    <3>4. Host!TypeOK'
      BY <1>1, <1>4, <3>1, <3>2, <3>3 DEF Host!TypeOK, Host!Residual, Residual
    <3>5. HostCounted'
      BY <1>1, <2>1, <3>2, <3>3, MaxIterAssumption DEF HostCounted, Host!WorkBounded
    <3> QED BY <3>1, <3>2, <3>4, <3>5 DEF HostFound
  <2>3. CASE ~Host!Take(r)
    <3>1. k' = k + 1 /\ k + 1 # Trials /\ UNCHANGED <<pc, it, hx, hf, status>>
      BY <1>4, <2>3 DEF Host!Trial, Host!LastTrial
    <3>2. Host!TypeOK'
      BY <1>1, <3>1, TrialsAssumption DEF Host!TypeOK
    <3> QED BY <3>1, <3>2 DEF HostCounted, HostFound, Host!WorkBounded
  <2> QED BY <2>2, <2>3
<1> QED BY <1>2, <1>3, <1>4 DEF Host!Next, Host!Residual, Residual

-----------------------------------------------------------------------------
(* multiroot_hybrids.                                                      *)

CacheRecord == [valid : BOOLEAN, n : Sizes, est : Hybrids!Estimate]

\* a loop is entered within its caps
HybridsTyped ==
  /\ Hybrids!TypeOK /\ warm \in CacheRecord
  /\ pc # "exit" => it <= HybridIter /\ nslow1 < SlowIters /\ nslow2 < SlowJacs

\* the failure code is that of the factor at hand
HybridsStatus ==
  /\ pc = "trial" => sing = est.sing
  /\ pc # "exit" => ~xok
  /\ Hybrids!StatusIsHonest

\* As long as no update was noise, the estimate at hand is the one to keep;
\* afterwards the cache has it.
HybridsCache ==
  /\ pc = "region" /\ reuse => warm.valid
  /\ pc = "trial" => ~reuse
  /\ pc = "trial" /\ cached /\ clean => best = est /\ ~est.noisy
  /\ pc = "trial" /\ cached /\ ~clean =>
       est.noisy /\ warm.valid = best.finite /\ (warm.valid => warm.est = best /\ warm.n = n)
  /\ Hybrids!WarmIsLatestClean /\ Hybrids!WarmIsUsable

\* two poor ratios in a row take two iterations, and the good one that must
\* come before the next two a third
HybridsCost ==
  /\ pc = "region" => 3 * jacs <= it + 1 /\ (ncfail = 2 \/ (ncfail = 0 /\ jacs = 0))
  /\ pc = "trial" =>
       /\ ncfail = 0 => 3 * (jacs - 1) <= it
       /\ ncfail = 1 => 3 * (jacs - 1) <= it - 1
       /\ 3 * (jacs - 1) <= it + 1
  /\ Hybrids!JacobiansBounded

HybridsInv == HybridsTyped /\ HybridsStatus /\ HybridsCache /\ HybridsCost

\* Before the first call the cache is empty.
LEMMA Hybrids_Begins == Hybrids!Init => HybridsInv
<1> SUFFICES ASSUME Hybrids!Init PROVE HybridsInv
  OBVIOUS
<1>1. est \in Hybrids!Estimate /\ ~est.noisy /\ best = est
  BY DEF Hybrids!Init, Hybrids!Estimate
<1>2. warm \in CacheRecord /\ warm.est = est /\ ~warm.valid
  BY <1>1 DEF Hybrids!Init, CacheRecord
<1>3. Hybrids!TypeOK
  <2>1. /\ pc = "exit" /\ call = 0 /\ n \in Sizes /\ it = 0 /\ ncsuc = 0 /\ ncfail = 0
        /\ nslow1 = 0 /\ nslow2 = 0 /\ delta = Radius /\ made = 0 /\ jacs = 0 /\ status = "OK"
    BY DEF Hybrids!Init
  <2>2. /\ cached \in BOOLEAN /\ moved \in BOOLEAN /\ jeval \in BOOLEAN /\ reuse \in BOOLEAN
        /\ clean \in BOOLEAN /\ sing \in BOOLEAN /\ xok \in BOOLEAN
    BY Zenon DEF Hybrids!Init
  <2> QED BY <1>1, <1>2, <2>1, <2>2, HybridsAssumption DEF Hybrids!TypeOK, CacheRecord
<1>4. HybridsStatus /\ HybridsCache
  BY <1>2 DEF HybridsStatus, HybridsCache, Hybrids!Init, Hybrids!StatusIsHonest,
              Hybrids!WarmIsLatestClean, Hybrids!WarmIsUsable
<1>5. HybridsCost
  BY DEF HybridsCost, Hybrids!Init, Hybrids!JacobiansBounded
<1> QED BY <1>2, <1>3, <1>4, <1>5 DEF HybridsInv, HybridsTyped, Hybrids!Init

\* save_warm keeps an estimate that is finite, and marks the cache otherwise.
LEMMA Save_Effect ==
  ASSUME warm \in CacheRecord, n \in Sizes, NEW e \in Hybrids!Estimate
  PROVE  /\ Hybrids!Saved(e) \in CacheRecord
         /\ Hybrids!Saved(e).valid = e.finite
         /\ e.finite => Hybrids!Saved(e).est = e /\ Hybrids!Saved(e).n = n
BY DEF Hybrids!Saved, CacheRecord, Hybrids!Estimate

\* A new estimate is one.
LEMMA Formed_Effect ==
  ASSUME made \in Nat, NEW v \in BOOLEAN, NEW kind
  PROVE  Hybrids!Formed(v, kind) \in Hybrids!Estimate /\ Hybrids!Formed(v, kind).noisy = v
BY DEF Hybrids!Formed, Hybrids!Estimate

\* The lesser and the greater of two numbers.
LEMMA Extremes ==
  ASSUME NEW a \in Int, NEW b \in Int
  PROVE  /\ Hybrids!Min({a, b}) = IF a <= b THEN a ELSE b
         /\ Hybrids!Max({a, b}) = IF a <= b THEN b ELSE a
<1>1. /\ Hybrids!Min({a, b}) = CHOOSE m \in {a, b} : \A i \in {a, b} : m <= i
      /\ Hybrids!Max({a, b}) = CHOOSE m \in {a, b} : \A i \in {a, b} : m >= i
  BY DEF Hybrids!Min, Hybrids!Max
<1>2. (\E m \in {a, b} : \A i \in {a, b} : m <= i) /\ (\E m \in {a, b} : \A i \in {a, b} : m >= i)
  OBVIOUS
<1>3. /\ Hybrids!Min({a, b}) \in {a, b} /\ \A i \in {a, b} : Hybrids!Min({a, b}) <= i
      /\ Hybrids!Max({a, b}) \in {a, b} /\ \A i \in {a, b} : Hybrids!Max({a, b}) >= i
  BY <1>1, <1>2
<1> QED BY <1>3

\* The caller enters: what may be reused is valid, and carries no noise.
LEMMA Hybrids_Enter ==
  ASSUME HybridsInv, NEW size \in Sizes, NEW keep \in BOOLEAN, NEW hasCache \in BOOLEAN,
         Hybrids!Enter(size, keep, hasCache)
  PROVE  HybridsInv'
<1> USE DEF HybridsInv
<1>1. warm \in CacheRecord
  BY DEF HybridsTyped
<1>2. /\ warm' \in CacheRecord /\ warm'.valid = (warm.valid /\ keep) /\ warm'.n = warm.n
      /\ warm'.est \in Hybrids!Estimate
      /\ warm'.est.finite = warm.est.finite /\ warm'.est.noisy = warm.est.noisy
  BY <1>1 DEF Hybrids!Enter, CacheRecord, Hybrids!Estimate
<1>3. /\ call \in Nat /\ call < Calls /\ call' = call + 1 /\ n' = size /\ cached' = hasCache
      /\ status' = "OK" /\ it' = 0 /\ moved' = FALSE
      /\ ncsuc' = 0 /\ ncfail' = 0 /\ nslow1' = 0 /\ nslow2' = 0
      /\ reuse' = (hasCache /\ warm'.valid /\ warm.n = size)
      /\ made' = 0 /\ jacs' = 0 /\ best' = warm'.est
      /\ (pc' = "exit" /\ xok' = TRUE) \/ (pc' = "region" /\ xok' = FALSE)
      /\ UNCHANGED <<jeval, clean, sing, delta, est>>
  BY HybridsAssumption DEF Hybrids!Enter, HybridsTyped, Hybrids!TypeOK
<1>4. reuse' \in BOOLEAN /\ xok' \in BOOLEAN /\ moved' \in BOOLEAN /\ cached' \in BOOLEAN
  BY <1>2, <1>3 DEF CacheRecord
<1>5. Hybrids!TypeOK'
  <2>1. {moved', jeval', reuse', clean', sing', xok'} \subseteq BOOLEAN
    BY <1>3, <1>4, Zenon DEF HybridsTyped, Hybrids!TypeOK
  <2>2. {est', best', warm'.est} \subseteq Hybrids!Estimate
    BY <1>2, <1>3, Zenon DEF HybridsTyped, Hybrids!TypeOK
  <2>3. warm'.valid \in BOOLEAN /\ warm'.n \in Sizes
    BY <1>2 DEF CacheRecord
  <2>4. call' \in 0..Calls /\ delta' \in 0..Radius
    BY <1>3, HybridsAssumption DEF HybridsTyped, Hybrids!TypeOK
  <2> QED BY <1>3, <1>4, <2>1, <2>2, <2>3, <2>4, HybridsAssumption DEF Hybrids!TypeOK
<1>6. HybridsTyped'
  BY <1>2, <1>3, <1>5, HybridsAssumption DEF HybridsTyped
<1>7. HybridsStatus'
  BY <1>3 DEF HybridsStatus, Hybrids!StatusIsHonest
<1>8. HybridsCache'
  <2>1. Hybrids!WarmIsUsable'
    BY <1>2, Zenon DEF HybridsCache, Hybrids!WarmIsUsable
  <2>2. pc' = "region" /\ reuse' => warm'.valid
    BY <1>3, Zenon
  <2>3. ~(jacs' > 0 \/ made' > 0)
    BY <1>3
  <2>4. pc' # "trial"
    BY <1>3
  <2> QED BY <2>1, <2>2, <2>3, <2>4, Zenon DEF HybridsCache, Hybrids!WarmIsLatestClean
<1>9. HybridsCost'
  BY <1>3 DEF HybridsCost, Hybrids!JacobiansBounded
<1> QED BY <1>6, <1>7, <1>8, <1>9
\* The estimate that a loop starts from is the one to keep.
LEMMA Hybrids_Region ==
  ASSUME HybridsInv, Hybrids!Region
  PROVE  HybridsInv'
<1> USE DEF HybridsInv
<1>1. /\ pc = "region" /\ pc' = "trial" /\ reuse' = FALSE /\ clean' = TRUE /\ sing' = est'.sing
      /\ delta' = (IF moved THEN delta ELSE Radius)
      /\ UNCHANGED <<call, n, cached, it, moved, ncsuc, ncfail, nslow1, nslow2, xok, status, warm>>
  BY DEF Hybrids!Region, Hybrids!counters
<1>2. /\ est' \in Hybrids!Estimate /\ ~est'.noisy /\ best' = est' /\ jeval' \in BOOLEAN
      /\ (made' = made /\ jacs' = jacs) \/ (made' = made + 1 /\ jacs' = jacs + 1)
  <2>1. CASE reuse
    <3>1. warm.valid /\ est' = warm.est /\ best' = warm.est /\ jeval' = FALSE /\ made' = made /\ jacs' = jacs
      BY <1>1, <2>1 DEF Hybrids!Region, HybridsCache
    <3>2. warm.est \in Hybrids!Estimate /\ ~warm.est.noisy
      BY <3>1 DEF HybridsTyped, CacheRecord, HybridsCache, Hybrids!WarmIsUsable
    <3> QED BY <3>1, <3>2, Zenon
  <2>2. CASE ~reuse
    <3>1. PICK kind \in Hybrids!Kinds : est' = Hybrids!Formed(FALSE, kind)
      BY <2>2 DEF Hybrids!Region
    <3>2. made \in Nat
      BY DEF HybridsTyped, Hybrids!TypeOK
    <3>3. est' \in Hybrids!Estimate /\ est'.noisy = FALSE
      BY <3>1, <3>2, Formed_Effect, Zenon
    <3>4. best' = est' /\ jeval' = TRUE /\ made' = made + 1 /\ jacs' = jacs + 1
      BY <2>2 DEF Hybrids!Region
    <3> QED BY <3>3, <3>4, Zenon
  <2> QED BY <2>1, <2>2
<1>3. Hybrids!TypeOK'
  <2>1. {moved', jeval', reuse', clean', sing', xok'} \subseteq BOOLEAN
    <3>1. est'.sing \in BOOLEAN
      BY <1>2 DEF Hybrids!Estimate
    <3>2. moved' \in BOOLEAN /\ xok' \in BOOLEAN
      BY <1>1, Zenon DEF HybridsTyped, Hybrids!TypeOK
    <3> QED BY <1>1, <1>2, <3>1, <3>2, Zenon
  <2>2. {est', best', warm'.est} \subseteq Hybrids!Estimate
    BY <1>1, <1>2, Zenon DEF HybridsTyped, Hybrids!TypeOK
  <2>3. delta' \in 0..Radius
    BY <1>1, HybridsAssumption DEF HybridsTyped, Hybrids!TypeOK
  <2>4. made' \in Nat /\ jacs' \in 0..made'
    BY <1>2 DEF HybridsTyped, Hybrids!TypeOK
  <2> QED BY <1>1, <2>1, <2>2, <2>3, <2>4 DEF HybridsTyped, Hybrids!TypeOK
<1>4. HybridsTyped'
  BY <1>1, <1>3 DEF HybridsTyped
<1>5. HybridsStatus'
  BY <1>1 DEF HybridsStatus, Hybrids!StatusIsHonest
<1>6. HybridsCache'
  BY <1>1, <1>2 DEF HybridsCache, Hybrids!WarmIsLatestClean, Hybrids!WarmIsUsable
<1>7. HybridsCost'
  <2>1. it \in Nat /\ jacs \in Nat /\ ncfail \in Nat
    BY HybridsAssumption DEF HybridsTyped, Hybrids!TypeOK
  <2>2. 3 * jacs <= it + 1 /\ (ncfail = 2 \/ (ncfail = 0 /\ jacs = 0))
    BY <1>1 DEF HybridsCost
  <2>3. 3 * (jacs' - 1) <= it + 1 /\ (ncfail = 0 => 3 * (jacs' - 1) <= it)
    BY <1>2, <2>1, <2>2
  <2>4. jacs' <= 1 + (it + 1) \div 3
    BY <1>2, <2>1, <2>2
  <2> QED BY <1>1, <2>2, <2>3, <2>4 DEF HybridsCost, Hybrids!JacobiansBounded
<1> QED BY <1>4, <1>5, <1>6, <1>7

\* A call that fails saves the estimate unless the one to keep is saved.
LEMMA Fail_Effect ==
  ASSUME HybridsInv, pc = "trial", Hybrids!Fail, UNCHANGED <<n, cached, est, best, sing, xok>>
  PROVE  /\ pc' = "exit" /\ status' \in {"DOMAIN_ERROR", "CONVERGENCE_ERROR"}
         /\ warm' \in CacheRecord /\ HybridsStatus' /\ HybridsCache'
<1> USE DEF HybridsInv
<1>1. /\ pc' = "exit" /\ status' = (IF sing THEN "DOMAIN_ERROR" ELSE "CONVERGENCE_ERROR")
      /\ sing = est.sing /\ ~xok
  BY DEF Hybrids!Fail, HybridsStatus
<1>2. HybridsStatus'
  BY <1>1 DEF HybridsStatus, Hybrids!StatusIsHonest
<1>3. warm \in CacheRecord /\ n \in Sizes /\ est \in Hybrids!Estimate
  BY DEF HybridsTyped, Hybrids!TypeOK
<1>4. CASE cached /\ clean
  <2>1. warm' = Hybrids!Saved(est) /\ best = est /\ ~est.noisy
    BY <1>4 DEF Hybrids!Fail, HybridsCache
  <2>2. /\ warm' \in CacheRecord /\ warm'.valid = est.finite
        /\ est.finite => warm'.est = est /\ warm'.n = n
    BY <1>3, <2>1, Save_Effect, Zenon
  <2>3. HybridsCache'
    BY <1>1, <2>1, <2>2 DEF HybridsCache, Hybrids!WarmIsLatestClean, Hybrids!WarmIsUsable
  <2> QED BY <1>1, <1>2, <2>2, <2>3
<1>5. CASE ~(cached /\ clean)
  <2>1. warm' = warm
    BY <1>5 DEF Hybrids!Fail
  <2>2. HybridsCache'
    BY <1>1, <1>5, <2>1 DEF HybridsCache, Hybrids!WarmIsLatestClean, Hybrids!WarmIsUsable
  <2> QED BY <1>1, <1>2, <1>3, <2>1, <2>2
<1> QED BY <1>4, <1>5

\* Secant updates carry noise on.
LEMMA Secant_Effect ==
  ASSUME made \in Nat, est \in Hybrids!Estimate, NEW o, NEW kind
  PROVE  /\ Hybrids!Secant(o, kind) \in Hybrids!Estimate
         /\ Hybrids!Secant(o, kind).noisy = (est.noisy \/ o.actred # "cut")
<1>1. (est.noisy \/ o.actred # "cut") \in BOOLEAN
  BY Zenon
<1> QED BY <1>1, Formed_Effect, Zenon DEF Hybrids!Secant

\* A call that converges saves the last estimate that is not noise.
LEMMA Converge_Effect ==
  ASSUME HybridsInv, pc = "trial", NEW o \in Hybrids!Outcome, Hybrids!Converge(o)
  PROVE  /\ pc' = "exit" /\ xok' = TRUE /\ status' = "OK"
         /\ UNCHANGED <<call, n, cached, reuse, clean, sing, jeval, jacs>>
         /\ est' \in Hybrids!Estimate /\ best' \in Hybrids!Estimate
         /\ (made' = made \/ made' = made + 1)
         /\ warm' \in CacheRecord /\ HybridsStatus' /\ HybridsCache'
<1> USE DEF HybridsInv
<1>1. /\ pc' = "exit" /\ xok' = TRUE /\ status' = "OK"
      /\ UNCHANGED <<call, n, cached, reuse, clean, sing, jeval, jacs>>
  BY DEF Hybrids!Converge
<1>2. HybridsStatus'
  BY <1>1 DEF HybridsStatus, Hybrids!StatusIsHonest
<1>3. /\ warm \in CacheRecord /\ n \in Sizes /\ est \in Hybrids!Estimate
      /\ best \in Hybrids!Estimate /\ made \in Nat
  BY DEF HybridsTyped, Hybrids!TypeOK
<1>4. CASE cached /\ clean /\ o.actred = "cut"
  <2>1. PICK kind \in Hybrids!Kinds : est' = Hybrids!Secant(o, kind)
    BY <1>4 DEF Hybrids!Converge
  <2>2. est' \in Hybrids!Estimate /\ est'.noisy = (est.noisy \/ o.actred # "cut")
    BY <1>3, <2>1, Secant_Effect, Zenon
  <2>3. ~est'.noisy
    BY <1>4, <2>2 DEF HybridsCache
  <2>4. made' = made + 1 /\ best' = est' /\ warm' = Hybrids!Saved(est')
    BY <1>4, <2>3 DEF Hybrids!Converge
  <2>5. /\ warm' \in CacheRecord /\ warm'.valid = est'.finite
        /\ est'.finite => warm'.est = est' /\ warm'.n = n
    BY <1>3, <2>2, <2>4, Save_Effect, Zenon
  <2>6. HybridsCache'
    BY <1>1, <2>3, <2>4, <2>5 DEF HybridsCache, Hybrids!WarmIsLatestClean, Hybrids!WarmIsUsable
  <2> QED BY <1>1, <1>2, <2>2, <2>4, <2>5, <2>6
<1>5. CASE ~(cached /\ clean /\ o.actred = "cut") /\ cached /\ clean
  <2>1. warm' = Hybrids!Saved(est) /\ UNCHANGED <<est, best, made>> /\ best = est /\ ~est.noisy
    BY <1>5 DEF Hybrids!Converge, HybridsCache
  <2>2. /\ warm' \in CacheRecord /\ warm'.valid = est.finite
        /\ est.finite => warm'.est = est /\ warm'.n = n
    BY <1>3, <2>1, Save_Effect, Zenon
  <2>3. HybridsCache'
    BY <1>1, <2>1, <2>2 DEF HybridsCache, Hybrids!WarmIsLatestClean, Hybrids!WarmIsUsable
  <2> QED BY <1>1, <1>2, <1>3, <2>1, <2>2, <2>3
<1>6. CASE ~(cached /\ clean)
  <2>1. warm' = warm /\ UNCHANGED <<est, best, made>>
    BY <1>6 DEF Hybrids!Converge
  <2>2. HybridsCache'
    BY <1>1, <1>6, <2>1 DEF HybridsCache, Hybrids!WarmIsLatestClean, Hybrids!WarmIsUsable
  <2> QED BY <1>1, <1>2, <1>3, <2>1, <2>2
<1> QED BY <1>4, <1>5, <1>6

\* Before the first update that is noise, the estimate is saved.
LEMMA Update_Effect ==
  ASSUME HybridsInv, pc = "trial", NEW o \in Hybrids!Outcome, Hybrids!Update(o),
         UNCHANGED <<pc, n, cached, reuse>>
  PROVE  /\ est' \in Hybrids!Estimate /\ best' \in Hybrids!Estimate
         /\ made' = made + 1 /\ clean' \in BOOLEAN /\ sing' = est'.sing
         /\ warm' \in CacheRecord /\ HybridsCache'
<1> USE DEF HybridsInv
<1>1. /\ warm \in CacheRecord /\ n \in Sizes /\ est \in Hybrids!Estimate
      /\ best \in Hybrids!Estimate /\ made \in Nat
  BY DEF HybridsTyped, Hybrids!TypeOK
<1>2. PICK kind \in Hybrids!Kinds : est' = Hybrids!Secant(o, kind)
  BY DEF Hybrids!Update
<1>3. est' \in Hybrids!Estimate /\ est'.noisy = (est.noisy \/ o.actred # "cut")
  BY <1>1, <1>2, Secant_Effect, Zenon
<1>4. /\ made' = made + 1 /\ sing' = est'.sing
      /\ best' = (IF est'.noisy THEN best ELSE est')
      /\ clean' = (clean /\ ~Hybrids!FirstNoise(o))
  BY DEF Hybrids!Update
<1>5. clean' \in BOOLEAN /\ best' \in Hybrids!Estimate
  BY <1>1, <1>3, <1>4, Zenon
<1>6. CASE Hybrids!FirstNoise(o)
  <2>1. cached /\ clean /\ o.actred # "cut" /\ warm' = Hybrids!Saved(est) /\ ~clean'
    BY <1>4, <1>6 DEF Hybrids!FirstNoise, Hybrids!Update
  <2>2. best = est /\ ~est.noisy /\ est'.noisy /\ best' = est
    BY <1>3, <1>4, <2>1 DEF HybridsCache
  <2>3. /\ warm' \in CacheRecord /\ warm'.valid = est.finite
        /\ est.finite => warm'.est = est /\ warm'.n = n
    BY <1>1, <2>1, Save_Effect, Zenon
  <2>4. HybridsCache'
    BY <2>1, <2>2, <2>3 DEF HybridsCache, Hybrids!WarmIsLatestClean, Hybrids!WarmIsUsable
  <2> QED BY <1>3, <1>4, <1>5, <2>3, <2>4
<1>7. CASE ~Hybrids!FirstNoise(o)
  <2>1. warm' = warm /\ clean' = clean
    <3>1. clean \in BOOLEAN
      BY Zenon DEF HybridsTyped, Hybrids!TypeOK
    <3>2. warm' = warm
      BY <1>7 DEF Hybrids!Update
    <3> QED BY <1>4, <1>7, <3>1, <3>2, Zenon
  <2>2. cached /\ clean => best' = est' /\ ~est'.noisy
    BY <1>3, <1>4, <1>7 DEF Hybrids!FirstNoise, HybridsCache
  <2>3. cached /\ ~clean => best' = best /\ est'.noisy
    BY <1>3, <1>4 DEF HybridsCache
  <2>4. HybridsCache'
    BY <2>1, <2>2, <2>3 DEF HybridsCache, Hybrids!WarmIsLatestClean, Hybrids!WarmIsUsable
  <2> QED BY <1>1, <1>3, <1>4, <1>5, <2>1, <2>4
<1> QED BY <1>6, <1>7
\* The trust radius stays on its scale, and a poor ratio is counted by one.
LEMMA Adapt_Effect ==
  ASSUME HybridsTyped, NEW o \in Hybrids!Outcome, NEW length \in 0..delta, Hybrids!Adapt(o, length)
  PROVE  /\ ncsuc' \in 0..2 /\ ncfail' \in {0, ncfail + 1} /\ delta' \in 0..Radius
<1>1. delta \in 0..Radius /\ Radius \in Nat /\ ncsuc \in 0..2 /\ length \in Nat /\ length <= Radius
  BY HybridsAssumption DEF HybridsTyped, Hybrids!TypeOK
<1> DEFINE b == Hybrids!Bound(length)
           grown == Hybrids!Min({Radius, length + 1})
           successes == Hybrids!Min({2, ncsuc + 1})
<1>2. b \in 0..Radius
  BY <1>1, Extremes DEF Hybrids!Bound
<1>3. grown \in 0..Radius /\ successes \in 0..2
  BY <1>1, Extremes
<1>4. Hybrids!Max({0, b - 1}) \in 0..Radius /\ Hybrids!Max({b, grown}) \in 0..Radius
  <2> HIDE DEF b, grown
  <2>1. b \in Int /\ b - 1 \in Int /\ grown \in Int
    BY <1>1, <1>2, <1>3
  <2>2. Hybrids!Max({0, b - 1}) = IF 0 <= b - 1 THEN b - 1 ELSE 0
    <3>1. 0 \in Int
      OBVIOUS
    <3> QED BY <2>1, <3>1, Extremes, Zenon
  <2>3. Hybrids!Max({b, grown}) = IF b <= grown THEN grown ELSE b
    BY <2>1, Extremes
  <2> QED BY <1>1, <1>2, <1>3, <2>2, <2>3
<1>5. CASE Hybrids!Poor(o)
  BY <1>4, <1>5 DEF Hybrids!Adapt
<1>6. CASE ~Hybrids!Poor(o)
  <2>1. ncsuc' = successes /\ ncfail' = 0
    BY <1>6 DEF Hybrids!Adapt
  <2>2. delta' = grown \/ delta' = Hybrids!Max({b, grown}) \/ delta' = b
    BY <1>6 DEF Hybrids!Adapt
  <2> HIDE DEF b, grown, successes
  <2>3. delta' \in 0..Radius
    BY <1>2, <1>3, <1>4, <2>2
  <2> QED BY <1>3, <2>1, <2>3
<1> QED BY <1>5, <1>6

\* A call that returns after one more trial keeps its counters in range.
LEMMA Hybrids_Exit ==
  ASSUME HybridsInv, pc = "trial", pc' = "exit", it' = it + 1,
         UNCHANGED <<call, n, cached, reuse, clean, sing, jeval, jacs>>,
         moved' \in BOOLEAN, xok' \in BOOLEAN,
         ncsuc' \in 0..2, ncfail' \in Nat, delta' \in 0..Radius,
         nslow1' \in 0..SlowIters, nslow2' \in 0..SlowJacs,
         est' \in Hybrids!Estimate, best' \in Hybrids!Estimate,
         made' = made \/ made' = made + 1,
         status' \in {"OK", "DOMAIN_ERROR", "CONVERGENCE_ERROR"},
         warm' \in CacheRecord, HybridsStatus', HybridsCache'
  PROVE  HybridsInv'
<1>1. /\ it \in Nat /\ it <= HybridIter /\ made \in Nat /\ jacs \in 0..made
      /\ call \in 0..Calls /\ n \in Sizes
  BY HybridsAssumption DEF HybridsInv, HybridsTyped, Hybrids!TypeOK
<1>2. {moved', jeval', reuse', clean', sing', xok'} \subseteq BOOLEAN /\ cached' \in BOOLEAN
  BY Zenon DEF HybridsInv, HybridsTyped, Hybrids!TypeOK
<1>3. /\ {est', best', warm'.est} \subseteq Hybrids!Estimate
      /\ warm'.valid \in BOOLEAN /\ warm'.n \in Sizes
  BY DEF CacheRecord
<1>4. Hybrids!TypeOK'
  <2>1. it' \in 0..HybridIter + 1 /\ made' \in Nat /\ jacs' \in 0..made'
    BY <1>1, HybridsAssumption
  <2> QED BY <1>1, <1>2, <1>3, <2>1 DEF Hybrids!TypeOK
<1>5. HybridsCost'
  <2>1. 3 * (jacs - 1) <= it + 1
    BY DEF HybridsInv, HybridsCost
  <2>2. jacs' <= 1 + (it' + 1) \div 3
    BY <1>1, <2>1
  <2> QED BY <2>2 DEF HybridsCost, Hybrids!JacobiansBounded
<1> QED BY <1>4, <1>5 DEF HybridsInv, HybridsTyped

\* A call that runs out of iterations fails.
LEMMA Hybrids_Out ==
  ASSUME HybridsInv, Hybrids!OutOfIterations
  PROVE  HybridsInv'
<1>1. /\ pc = "trial" /\ it' = it + 1 /\ Hybrids!Fail
      /\ UNCHANGED <<call, n, cached, moved, ncsuc, ncfail, nslow1, nslow2, jeval, reuse,
                     clean, sing, delta, est, best, made, jacs, xok>>
  BY DEF Hybrids!OutOfIterations, Hybrids!matrices
<1>2. /\ pc' = "exit" /\ status' \in {"DOMAIN_ERROR", "CONVERGENCE_ERROR"}
      /\ warm' \in CacheRecord /\ HybridsStatus' /\ HybridsCache'
  BY <1>1, Fail_Effect
<1>3. moved' \in BOOLEAN /\ xok' \in BOOLEAN
  BY <1>1, Zenon DEF HybridsInv, HybridsTyped, Hybrids!TypeOK
<1>4. /\ ncsuc' \in 0..2 /\ ncfail' \in Nat /\ delta' \in 0..Radius
      /\ nslow1' \in 0..SlowIters /\ nslow2' \in 0..SlowJacs
  BY <1>1 DEF HybridsInv, HybridsTyped, Hybrids!TypeOK
<1>5. est' \in Hybrids!Estimate /\ best' \in Hybrids!Estimate
  BY <1>1, Zenon DEF HybridsInv, HybridsTyped, Hybrids!TypeOK
<1>6. status' \in {"OK", "DOMAIN_ERROR", "CONVERGENCE_ERROR"}
  BY <1>2
<1> QED BY <1>1, <1>2, <1>3, <1>4, <1>5, <1>6, Hybrids_Exit

\* So does one that converges.
LEMMA Hybrids_Converged ==
  ASSUME HybridsInv, NEW o \in Hybrids!Outcome, NEW length \in 0..delta, pc = "trial",
         it' = it + 1, Hybrids!StepTest(o, length) \/ Hybrids!AcceptRoot(o, length)
  PROVE  HybridsInv'
<1>1. /\ Hybrids!Converge(o) /\ UNCHANGED <<nslow1, nslow2>>
      /\ \/ delta' = Hybrids!Bound(length) /\ UNCHANGED <<moved, ncsuc, ncfail>>
         \/ moved' = TRUE /\ Hybrids!Adapt(o, length)
  BY DEF Hybrids!StepTest, Hybrids!AcceptRoot
<1>2. /\ pc' = "exit" /\ xok' = TRUE /\ status' = "OK"
      /\ UNCHANGED <<call, n, cached, reuse, clean, sing, jeval, jacs>>
      /\ est' \in Hybrids!Estimate /\ best' \in Hybrids!Estimate
      /\ (made' = made \/ made' = made + 1)
      /\ warm' \in CacheRecord /\ HybridsStatus' /\ HybridsCache'
  BY <1>1, Converge_Effect
<1>3. /\ delta \in 0..Radius /\ Radius \in Nat /\ ncsuc \in 0..2 /\ ncfail \in Nat
      /\ length \in Nat /\ length <= Radius
      /\ nslow1' \in 0..SlowIters /\ nslow2' \in 0..SlowJacs
  BY <1>1, HybridsAssumption DEF HybridsInv, HybridsTyped, Hybrids!TypeOK
<1>4. moved' \in BOOLEAN
  BY <1>1, Zenon DEF HybridsInv, HybridsTyped, Hybrids!TypeOK
<1>5. Hybrids!Bound(length) \in 0..Radius
  BY <1>3, Extremes DEF Hybrids!Bound
<1>6. ncsuc' \in 0..2 /\ ncfail' \in Nat /\ delta' \in 0..Radius
  <2>1. CASE Hybrids!Adapt(o, length)
    <3>1. ncsuc' \in 0..2 /\ ncfail' \in {0, ncfail + 1} /\ delta' \in 0..Radius
      BY <2>1, Adapt_Effect DEF HybridsInv
    <3> QED BY <1>3, <3>1
  <2>2. CASE delta' = Hybrids!Bound(length) /\ UNCHANGED <<moved, ncsuc, ncfail>>
    BY <1>3, <1>5, <2>2
  <2> QED BY <1>1, <2>1, <2>2
<1>7. xok' \in BOOLEAN /\ status' \in {"OK", "DOMAIN_ERROR", "CONVERGENCE_ERROR"}
  BY <1>2
<1> QED BY <1>2, <1>3, <1>4, <1>6, <1>7, Hybrids_Exit
\* A trial that does not converge goes on, starts over, or gives up.
LEMMA Hybrids_Continue ==
  ASSUME HybridsInv, NEW o \in Hybrids!Outcome, NEW length \in 0..delta, pc = "trial",
         it < HybridIter, it' = it + 1, Hybrids!Continue(o, length)
  PROVE  HybridsInv'
<1>1. /\ moved' = (moved \/ Hybrids!Accepted(o)) /\ Hybrids!Adapt(o, length) /\ Hybrids!Slow(o)
      /\ UNCHANGED <<call, n, cached, reuse, jacs, xok>>
  BY DEF Hybrids!Continue
<1>2. ncsuc' \in 0..2 /\ ncfail' \in {0, ncfail + 1} /\ delta' \in 0..Radius
  BY <1>1, Adapt_Effect DEF HybridsInv
<1>3. /\ it \in Nat /\ ncfail \in Nat /\ ncfail' \in Nat /\ jacs \in 0..made /\ made \in Nat
      /\ nslow1' \in 0..SlowIters /\ nslow2' \in 0..SlowJacs
  BY <1>1, <1>2, HybridsAssumption DEF Hybrids!Slow, HybridsInv, HybridsTyped, Hybrids!TypeOK
<1>4. moved' \in BOOLEAN /\ xok' \in BOOLEAN /\ cached' \in BOOLEAN /\ reuse' \in BOOLEAN
  BY <1>1, Zenon DEF HybridsInv, HybridsTyped, Hybrids!TypeOK
<1>5. CASE Hybrids!Stagnates(o, length)
  <2>1. Hybrids!Fail /\ UNCHANGED <<jeval, clean, sing, est, best, made>>
    BY <1>5 DEF Hybrids!Continue
  <2>2. /\ pc' = "exit" /\ status' \in {"DOMAIN_ERROR", "CONVERGENCE_ERROR"}
        /\ warm' \in CacheRecord /\ HybridsStatus' /\ HybridsCache'
    BY <1>1, <2>1, Fail_Effect
  <2>3. est' \in Hybrids!Estimate /\ best' \in Hybrids!Estimate
    BY <2>1, Zenon DEF HybridsInv, HybridsTyped, Hybrids!TypeOK
  <2>4. status' \in {"OK", "DOMAIN_ERROR", "CONVERGENCE_ERROR"}
    BY <2>2
  <2> QED BY <1>1, <1>2, <1>3, <1>4, <2>1, <2>2, <2>3, <2>4, Hybrids_Exit
<1>6. CASE ~Hybrids!Stagnates(o, length)
  <2>1. nslow1' # SlowIters /\ nslow2' # SlowJacs
    BY <1>6 DEF Hybrids!Stagnates
  <2>2. nslow1' < SlowIters /\ nslow2' < SlowJacs
    BY <1>3, <2>1, HybridsAssumption
  <2>3. CASE Hybrids!Refresh
    <3>1. /\ pc' = "region" /\ ncfail' = 2
          /\ UNCHANGED <<jeval, clean, sing, est, best, made, status, warm>>
      BY <1>6, <2>3 DEF Hybrids!Continue, Hybrids!Refresh
    <3>2. Hybrids!TypeOK'
      <4>1. {moved', jeval', reuse', clean', sing', xok'} \subseteq BOOLEAN
        BY <1>4, <3>1, Zenon DEF HybridsInv, HybridsTyped, Hybrids!TypeOK
      <4>2. it' \in 0..HybridIter + 1
        BY <1>3, HybridsAssumption
      <4> QED BY <1>1, <1>2, <1>3, <1>4, <3>1, <4>1, <4>2 DEF HybridsInv, HybridsTyped, Hybrids!TypeOK
    <3>3. HybridsTyped'
      BY <1>3, <2>2, <3>1, <3>2, HybridsAssumption DEF HybridsInv, HybridsTyped
    <3>4. HybridsStatus'
      BY <1>1, <3>1 DEF HybridsInv, HybridsStatus, Hybrids!StatusIsHonest
    <3>5. HybridsCache'
      BY <1>1, <3>1 DEF HybridsInv, HybridsCache, Hybrids!WarmIsLatestClean, Hybrids!WarmIsUsable
    <3>6. HybridsCost'
      <4>1. ncfail = 1
        BY <1>2, <1>3, <3>1
      <4>2. 3 * (jacs - 1) <= it - 1
        BY <4>1 DEF HybridsInv, HybridsCost
      <4>3. 3 * jacs' <= it' + 1 /\ jacs' <= 1 + (it' + 1) \div 3
        BY <1>1, <1>3, <4>2
      <4> QED BY <3>1, <4>3 DEF HybridsCost, Hybrids!JacobiansBounded
    <3> QED BY <3>3, <3>4, <3>5, <3>6 DEF HybridsInv
  <2>4. CASE ~Hybrids!Refresh
    <3>1. Hybrids!Update(o) /\ jeval' = FALSE /\ UNCHANGED <<pc, status>> /\ ncfail' # 2
      BY <1>6, <2>4 DEF Hybrids!Continue, Hybrids!Refresh
    <3>2. /\ est' \in Hybrids!Estimate /\ best' \in Hybrids!Estimate
          /\ made' = made + 1 /\ clean' \in BOOLEAN /\ sing' = est'.sing
          /\ warm' \in CacheRecord /\ HybridsCache'
      BY <1>1, <3>1, Update_Effect
    <3>3. Hybrids!TypeOK'
      <4>1. est'.sing \in BOOLEAN
        BY <3>2 DEF Hybrids!Estimate
      <4>2. {moved', jeval', reuse', clean', sing', xok'} \subseteq BOOLEAN
        BY <1>4, <3>1, <3>2, <4>1, Zenon
      <4>3. it' \in 0..HybridIter + 1 /\ made' \in Nat /\ jacs' \in 0..made'
        BY <1>1, <1>3, <3>2, HybridsAssumption
      <4>4. /\ {est', best', warm'.est} \subseteq Hybrids!Estimate
            /\ warm'.valid \in BOOLEAN /\ warm'.n \in Sizes
        BY <3>2 DEF CacheRecord
      <4> QED BY <1>1, <1>2, <1>3, <1>4, <3>1, <4>2, <4>3, <4>4 DEF HybridsInv, HybridsTyped, Hybrids!TypeOK
    <3>4. HybridsTyped'
      BY <1>3, <2>2, <3>1, <3>2, <3>3, HybridsAssumption DEF HybridsInv, HybridsTyped
    <3>5. HybridsStatus'
      BY <1>1, <3>1, <3>2 DEF HybridsInv, HybridsStatus, Hybrids!StatusIsHonest
    <3>6. HybridsCost'
      <4>1. /\ ncfail = 0 => 3 * (jacs - 1) <= it
            /\ 3 * (jacs - 1) <= it + 1
        BY DEF HybridsInv, HybridsCost
      <4>2. /\ ncfail' = 0 => 3 * (jacs' - 1) <= it'
            /\ ncfail' = 1 => 3 * (jacs' - 1) <= it' - 1
            /\ 3 * (jacs' - 1) <= it' + 1 /\ jacs' <= 1 + (it' + 1) \div 3
        BY <1>1, <1>2, <1>3, <4>1
      <4> QED BY <3>1, <4>2 DEF HybridsCost, Hybrids!JacobiansBounded
    <3> QED BY <3>2, <3>4, <3>5, <3>6 DEF HybridsInv
  <2> QED BY <2>3, <2>4
<1> QED BY <1>5, <1>6

\* Every step keeps the invariant.
LEMMA Hybrids_Kept == HybridsInv /\ Hybrids!Next => HybridsInv'
<1> SUFFICES ASSUME HybridsInv, Hybrids!Next PROVE HybridsInv'
  OBVIOUS
<1>1. ASSUME NEW size \in Sizes, NEW keep \in BOOLEAN, NEW hasCache \in BOOLEAN,
             Hybrids!Enter(size, keep, hasCache)
      PROVE HybridsInv'
  BY <1>1, Hybrids_Enter
<1>2. ASSUME NEW o \in Hybrids!Outcome, NEW length \in 0..delta, Hybrids!Trial(o, length)
      PROVE HybridsInv'
  <2>1. /\ pc = "trial" /\ it < HybridIter /\ it' = it + 1
        /\ Hybrids!StepTest(o, length) \/ Hybrids!AcceptRoot(o, length) \/ Hybrids!Continue(o, length)
    BY <1>2 DEF Hybrids!Trial
  <2>2. CASE Hybrids!Continue(o, length)
    BY <2>1, <2>2, Hybrids_Continue
  <2>3. CASE Hybrids!StepTest(o, length) \/ Hybrids!AcceptRoot(o, length)
    BY <2>1, <2>3, Hybrids_Converged
  <2> QED BY <2>1, <2>2, <2>3
<1> QED BY <1>1, <1>2, Hybrids_Out, Hybrids_Region DEF Hybrids!Next

-----------------------------------------------------------------------------
(* multiroot_step and multiroot_hybrid on one system.                      *)

\* What the agreement of the two is claimed for: no component of F is NaN, and
\* the stepper does not run out of halvings before the other is at its last
\* trial (both numbers are 30 in the code).
NumbersOnly == NanKinds = {"none"}
SameTrials == Trials <= MaxHalvings + 1

\* multiroot_hybrid after it took the trial point of residual v, which the
\* stepper has not yet been told to accept
HostMoved(v) ==
  \/ MaxvalSmall(v) /\ pc = "done" /\ status = "OK"
  \/ /\ ~MaxvalSmall(v) /\ iter + 1 < PairMaxIter
     /\ pc = "newton" /\ status = "OK" /\ it = iter + 2
  \/ /\ ~MaxvalSmall(v) /\ iter + 1 >= PairMaxIter
     /\ pc = "done" /\ status = "CONVERGENCE_ERROR"

\* ... and after it has dealt with v, the residual at the point the stepper
\* waits for
HostDealt(v) ==
  /\ v.nan = "none" /\ v.step = "long"
  /\ \/ /\ phase = "START" /\ hx = x /\ hf = v
        /\ \/ MaxvalSmall(v) /\ pc = "done" /\ status = "OK"
           \/ ~MaxvalSmall(v) /\ pc = "newton" /\ status = "OK" /\ it = 1
     \/ /\ phase = "LINESEARCH" /\ ls + 1 < Trials /\ base.nan = "none"
        /\ \/ /\ ~Decreases(v, base)
              /\ hx = xBase /\ hf = base /\ ~base.singular
              /\ pc = "search" /\ status = "OK" /\ k = ls + 1 /\ it = iter + 1
           \/ Decreases(v, base) /\ hx = x /\ hf = v /\ HostMoved(v)

\* where the two are: neither has begun; F at the stepper's point is known to
\* the host, or to both, or not yet to anyone; the stepper has ended
Fresh ==
  /\ pc = "entry" /\ phase = "START" /\ ~ready /\ action = "NEED_FJ"
  /\ memo = [p \in {<<>>} |-> f] /\ f.step = "long" /\ x = <<>> /\ hx = x /\ it = 0 /\ status = "OK"
Ahead == phase # "DONE" /\ ~ready /\ pc # "entry" /\ DOMAIN memo = {x} /\ HostDealt(memo[x])
Told == phase # "DONE" /\ ready /\ pc # "entry" /\ DOMAIN memo = {} /\ HostDealt(f)
Behind ==
  /\ phase = "LINESEARCH" /\ ~ready /\ DOMAIN memo = {}
  /\ hx = xBase /\ hf = base /\ base.nan = "none" /\ ~base.singular
  /\ status = "OK" /\ it = iter + 1
  /\ (pc = "newton" /\ ls = 0) \/ (pc = "search" /\ k = ls)
Ended ==
  /\ phase = "DONE" /\ ~ready /\ DOMAIN memo = {} /\ x = hx
  /\ \/ action = "DONE" /\ fail = "OK" /\ pc = "done" /\ status = "OK"
     \/ action = "FAILED" /\ fail = "MAXITER" /\ pc = "done" /\ status = "CONVERGENCE_ERROR"
     \/ /\ action = "FAILED" /\ fail = "SINGULAR"
        /\ (pc = "newton" /\ hf.singular) \/ (pc = "done" /\ status = "DOMAIN_ERROR")

Lockstep == PairMaxIter > 0 /\ (Fresh \/ Ahead \/ Told \/ Behind \/ Ended)

PairInv == Shape /\ (plain /\ NumbersOnly /\ SameTrials => Lockstep)

\* The stepper of the pair differs in its cap only.
LEMMA Pair_Shape == Shape /\ Pair!Next => Shape'
<1> SUFFICES ASSUME Shape, Pair!Next PROVE Shape'
  OBVIOUS
<1>1. CASE UNCHANGED vars
  BY <1>1, StepShape
<1>2. ASSUME NEW r \in Pair!PairResidual, Pair!RC!Evaluate(r) PROVE Shape'
  <2>1. Evaluate(r) /\ r \in Residual
    BY <1>2 DEF Evaluate, Pair!RC!Evaluate, Pair!PairResidual, Pair!Residual, Residual
  <2> QED BY <2>1, StepShape
<1>3. CASE Pair!RC!Step
  <2>1. StartAtRoot \/ StartNewton \/ Taken \/ Reject \/ StepAfterEnd
    BY <1>3 DEF Pair!RC!Step, Pair!RC!StartAtRoot, Pair!RC!StartNewton, Pair!RC!Accept, Pair!RC!Reject,
       Pair!RC!StepAfterEnd, Pair!RC!Call, Pair!RC!Stop, Pair!RC!BeginNewton, Pair!RC!Accepts,
       Pair!RC!InfNormSmall, Pair!RC!Decreases, StartAtRoot, StartNewton, Taken, Reject, StepAfterEnd,
       Call, Stop, BeginNewton, Accepts, InfNormSmall, Decreases
  <2> QED BY <2>1, StepShape
<1> QED BY <1>1, <1>2, <1>3 DEF Pair!Next, Pair!HostEntry, Pair!HostStep, Pair!RCStep, vars
\* Both start at x0, where the caller's arrays hold F.
LEMMA Pair_Begins == Pair!Init => PairInv
<1> SUFFICES ASSUME Pair!Init PROVE PairInv
  OBVIOUS
<1>1. Init
  BY DEF Pair!Init, Pair!RC!Init, Init, Pair!RC!Residual, Residual
<1>2. Shape
  BY <1>1, InitInv DEF IInv
<1>3. plain => Lockstep
  BY <1>1, PairAssumption DEF Pair!Init, Pair!Host!Init, Init, Lockstep, Fresh
<1> QED BY <1>2, <1>3 DEF PairInv

\* The two tests for a small residual agree when there are no NaNs.
LEMMA SmallNumbers ==
  ASSUME NEW v, v.nan = "none"
  PROVE  InfNormSmall(v) <=> MaxvalSmall(v)
BY DEF InfNormSmall, MaxvalSmall

\* The host enters, with F at x0 from the caller's arrays.
LEMMA Pair_Entry ==
  ASSUME Shape, NumbersOnly, Lockstep, Pair!HostEntry
  PROVE  Lockstep'
<1>1. /\ pc = "entry" /\ Pair!Host!Entry(memo[<<>>])
      /\ UNCHANGED <<phase, iter, ls, fail, x, xBase, base, action, f, ready, memo>>
  BY DEF Pair!HostEntry
<1>2. Fresh
  BY <1>1 DEF Lockstep, Ahead, Told, Behind, Ended
<1>3. /\ memo[<<>>] = f /\ DOMAIN memo = {<<>>} /\ x = <<>> /\ f.nan = "none"
  BY <1>2 DEF Fresh, Shape, TypeOK, Residual, NumbersOnly
<1>4. /\ hf' = f /\ hx' = hx /\ k' = k
      /\ \/ MaxvalSmall(f) /\ pc' = "done" /\ status' = "OK" /\ it' = it
         \/ ~MaxvalSmall(f) /\ Pair!Host!NextIteration
  BY <1>1, <1>3 DEF Pair!Host!Entry, Pair!Host!Return, Pair!Host!MaxvalSmall, MaxvalSmall
<1>5. Pair!Host!NextIteration => pc' = "newton" /\ status' = "OK" /\ it' = 1
  BY <1>2, PairAssumption DEF Pair!Host!NextIteration, Lockstep, Fresh
<1>6. HostDealt(f)'
  BY <1>1, <1>2, <1>3, <1>4, <1>5 DEF HostDealt, Fresh, MaxvalSmall
<1>7. Ahead'
  <2>1. memo'[x'] = f'
    BY <1>1, <1>3
  <2>2. HostDealt(memo[x])'
    BY <1>6, <2>1
  <2> QED BY <1>1, <1>2, <1>3, <1>4, <1>5, <2>2 DEF Ahead, Fresh
<1> QED BY <1>7 DEF Lockstep

\* The host goes on, up to the point that the stepper waits for.
LEMMA Pair_Host ==
  ASSUME Shape, Lockstep, Pair!HostStep, plain'
  PROVE  Lockstep'
<1>1. /\ ~ready /\ x \notin DOMAIN memo
      /\ UNCHANGED <<phase, iter, ls, fail, x, xBase, base, action, f, ready>>
  BY DEF Pair!HostStep
<1>2. Behind \/ Ended
  BY <1>1 DEF Lockstep, Fresh, Ahead, Told
<1>3. CASE Pair!Host!Newton /\ UNCHANGED <<memo, plain>>
  <2>1. /\ pc = "newton" /\ k' = 0 /\ UNCHANGED <<it, hx, hf>>
        /\ \/ hf.singular /\ pc' = "done" /\ status' = "DOMAIN_ERROR"
           \/ ~hf.singular /\ pc' = "search" /\ status' = status
    BY <1>3 DEF Pair!Host!Newton, Pair!Host!Return
  <2>2. CASE Behind
    <3>1. Behind'
      BY <1>1, <1>3, <2>1, <2>2 DEF Behind
    <3> QED BY <3>1 DEF Lockstep
  <2>3. CASE Ended
    <3>1. Ended'
      BY <1>1, <1>3, <2>1, <2>3 DEF Ended
    <3> QED BY <3>1 DEF Lockstep
  <2> QED BY <1>2, <2>2, <2>3
<1>4. ASSUME NEW r \in Pair!PairResidual, Pair!Host!Trial(r), Pair!HostValue(Append(hx, k), r)
      PROVE  Lockstep'
  <2>1. pc = "search" /\ Behind
    BY <1>2, <1>4 DEF Pair!Host!Trial, Ended
  <2>2. x = Append(hx, k) /\ k = ls /\ hx = xBase /\ hf = base /\ it = iter + 1
    BY <2>1 DEF Behind, Shape, TrialFromBase
  <2>3. r.nan = "none" /\ r.step = "long" /\ k + 1 < Trials
    BY <1>4, <2>1 DEF Pair!HostValue
  <2>4. DOMAIN memo' = {x} /\ memo'[x] = r
    BY <1>4, <2>1, <2>2 DEF Pair!HostValue, Behind
  <2>5. ~Pair!Host!LastTrial /\ (Pair!Host!Decreases(r, hf) <=> Decreases(r, base))
    BY <2>2, <2>3, TrialsAssumption DEF Pair!Host!LastTrial, Pair!Host!Decreases, Decreases, Shape, TypeOK
  <2>6. CASE Decreases(r, base)
    <3>1. Pair!Host!Take(r)
      BY <1>4, <2>5, <2>6 DEF Pair!Host!Trial
    <3>2. /\ hx' = x /\ hf' = r
          /\ \/ MaxvalSmall(r) /\ pc' = "done" /\ status' = "OK"
             \/ ~MaxvalSmall(r) /\ Pair!Host!NextIteration
      BY <2>2, <2>3, <3>1 DEF Pair!Host!Take, Pair!Host!Return, Pair!Host!MaxvalSmall, MaxvalSmall
    <3>3. iter \in Nat /\ status = "OK"
      BY <2>1 DEF Shape, TypeOK, Behind
    <3>4. Pair!Host!NextIteration =>
            \/ iter + 1 < PairMaxIter /\ pc' = "newton" /\ status' = "OK" /\ it' = iter + 2
            \/ iter + 1 >= PairMaxIter /\ pc' = "done" /\ status' = "CONVERGENCE_ERROR"
      BY <2>2, <3>3, PairAssumption DEF Pair!Host!NextIteration, Pair!Host!Return
    <3>5. HostMoved(r)'
      BY <1>1, <3>2, <3>4 DEF HostMoved, MaxvalSmall
    <3>6. HostDealt(r)'
      BY <1>1, <2>1, <2>2, <2>3, <2>6, <3>2, <3>5 DEF HostDealt, Behind, Decreases
    <3>7. pc' # "entry"
      BY <3>2, <3>4
    <3>8. Ahead'
      <4>1. HostDealt(memo[x])'
        BY <1>1, <2>4, <3>6
      <4> QED BY <1>1, <2>1, <2>4, <3>7, <4>1 DEF Ahead, Behind
    <3> QED BY <3>8 DEF Lockstep
  <2>7. CASE ~Decreases(r, base)
    <3>1. k' = k + 1 /\ UNCHANGED <<pc, it, hx, hf, status>>
      BY <1>4, <2>5, <2>7 DEF Pair!Host!Trial
    <3>2. HostDealt(r)'
      BY <1>1, <2>1, <2>2, <2>3, <2>7, <3>1 DEF HostDealt, Behind, Decreases
    <3>3. Ahead'
      <4>1. HostDealt(memo[x])'
        BY <1>1, <2>4, <3>2
      <4> QED BY <1>1, <2>1, <2>4, <3>1, <4>1 DEF Ahead, Behind
    <3> QED BY <3>3 DEF Lockstep
  <2> QED BY <2>6, <2>7
<1> QED BY <1>3, <1>4 DEF Pair!HostStep

\* The caller of the stepper is told what the host has seen.
LEMMA Pair_Told ==
  ASSUME Shape, Lockstep, NEW r \in Pair!PairResidual, Pair!RC!Evaluate(r), Pair!ValueAt(x, r),
         pc # "entry", UNCHANGED <<pc, it, k, hx, hf, status>>
  PROVE  Lockstep'
<1>1. /\ action = "NEED_FJ" /\ ~ready /\ f' = r /\ ready'
      /\ UNCHANGED <<phase, iter, ls, fail, x, xBase, base, action>>
  BY DEF Pair!RC!Evaluate
<1>2. Ahead
  BY <1>1 DEF Lockstep, Fresh, Told, Behind, Ended, Pair!ValueAt
<1>3. r = memo[x] /\ DOMAIN memo' = {}
  BY <1>2 DEF Ahead, Pair!ValueAt
<1>4. HostDealt(f)'
  BY <1>1, <1>2, <1>3 DEF Ahead, HostDealt, HostMoved, MaxvalSmall, Decreases
<1>5. Told'
  BY <1>1, <1>2, <1>3, <1>4 DEF Ahead, Told
<1> QED BY <1>5 DEF Lockstep
\* The stepper is called: it accepts, rejects and ends as the host did.
LEMMA Pair_Call ==
  ASSUME Shape, Lockstep, SameTrials, Pair!RC!Step, pc # "entry",
         UNCHANGED <<memo, pc, it, k, hx, hf, status>>
  PROVE  Lockstep'
<1>1. CASE phase = "DONE"
  <2>1. Ended /\ Pair!RC!StepAfterEnd
    BY <1>1 DEF Lockstep, Fresh, Ahead, Told, Behind, Pair!RC!Step, Pair!RC!StartAtRoot,
       Pair!RC!StartNewton, Pair!RC!Accept, Pair!RC!Reject, Pair!RC!Call
  <2>2. Ended'
    BY <2>1 DEF Ended, Pair!RC!StepAfterEnd
  <2> QED BY <2>2 DEF Lockstep
<1>2. ASSUME phase # "DONE", Pair!RC!StartAtRoot \/ Pair!RC!StartNewton \/ Pair!RC!Accept \/ Pair!RC!Reject
      PROVE  Lockstep'
  <2>1. ready /\ ready' = FALSE /\ f' = f
    BY <1>2 DEF Pair!RC!StartAtRoot, Pair!RC!StartNewton, Pair!RC!Accept, Pair!RC!Reject, Pair!RC!Call
  <2>2. Told
    BY <1>2, <2>1 DEF Lockstep, Fresh, Ahead, Behind, Ended
  <2>3. /\ f.nan = "none" /\ f.step = "long" /\ fail = "OK" /\ iter \in Nat /\ ls \in 0..MaxHalvings
        /\ DOMAIN memo' = {} /\ HostDealt(f)
    BY <1>2, <2>2 DEF Told, HostDealt, Shape, TerminalStateIsAccepted, TypeOK
  <2>4. Pair!RC!InfNormSmall(f) <=> MaxvalSmall(f)
    BY <2>3 DEF Pair!RC!InfNormSmall, MaxvalSmall
  <2>5. CASE Pair!RC!StartAtRoot
    <3>1. /\ phase = "START" /\ MaxvalSmall(f) /\ phase' = "DONE" /\ fail' = "OK" /\ action' = "DONE" /\ x' = x
      BY <2>3, <2>4, <2>5 DEF Pair!RC!StartAtRoot, Pair!RC!Call, Pair!RC!Stop
    <3>2. Ended'
      BY <2>1, <2>3, <3>1 DEF HostDealt, Ended
    <3> QED BY <3>2 DEF Lockstep
  <2>6. CASE Pair!RC!StartNewton
    <3>1. /\ phase = "START" /\ ~MaxvalSmall(f) /\ Pair!RC!BeginNewton /\ iter' = iter /\ xBase' = xBase
          /\ x = xBase /\ iter = 0
      BY <2>4, <2>6 DEF Pair!RC!StartNewton, Pair!RC!Call, Shape, StartIsFresh
    <3>2. hx = x /\ hf = f /\ pc = "newton" /\ status = "OK" /\ it = 1
      BY <2>3, <3>1 DEF HostDealt
    <3>3. CASE f.singular
      <4>1. Ended'
        BY <2>1, <2>3, <3>1, <3>2, <3>3 DEF Pair!RC!BeginNewton, Pair!RC!Stop, Ended
      <4> QED BY <4>1 DEF Lockstep
    <3>4. CASE ~f.singular
      <4>1. Behind'
        BY <2>1, <2>3, <3>1, <3>2, <3>4 DEF Pair!RC!BeginNewton, Behind
      <4> QED BY <4>1 DEF Lockstep
    <3> QED BY <3>3, <3>4
  <2>7. CASE Pair!RC!Accept
    <3>1. /\ phase = "LINESEARCH" /\ xBase' = x /\ iter' = iter + 1
          /\ Pair!RC!Decreases(f, base) \/ ls >= MaxHalvings
      BY <2>7 DEF Pair!RC!Accept, Pair!RC!Call, Pair!RC!Accepts
    <3>2. ls + 1 < Trials
      BY <2>3, <3>1 DEF HostDealt
    <3>3. Decreases(f, base)
      BY <2>3, <3>1, <3>2, TrialsAssumption, MaxHalvingsAssumption DEF Pair!RC!Decreases, Decreases, SameTrials
    <3>4. hx = x /\ hf = f /\ HostMoved(f)
      BY <2>3, <3>1, <3>3 DEF HostDealt
    <3>5. CASE MaxvalSmall(f)
      <4>1. phase' = "DONE" /\ fail' = "OK" /\ action' = "DONE" /\ x' = x
        BY <2>3, <2>4, <2>7, <3>5 DEF Pair!RC!Accept, Pair!RC!Stop
      <4>2. Ended'
        BY <2>1, <2>3, <3>4, <3>5, <4>1 DEF HostMoved, Ended
      <4> QED BY <4>2 DEF Lockstep
    <3>6. CASE ~MaxvalSmall(f) /\ iter + 1 >= PairMaxIter
      <4>1. phase' = "DONE" /\ fail' = "MAXITER" /\ action' = "FAILED" /\ x' = x
        BY <2>3, <2>4, <2>7, <3>6 DEF Pair!RC!Accept, Pair!RC!Stop, Pair!RC!StepSmall, Pair!RC!CapReached
      <4>2. pc = "done" /\ status = "CONVERGENCE_ERROR"
        BY <2>3, <3>4, <3>6, PairAssumption DEF HostMoved
      <4>3. Ended'
        BY <2>1, <2>3, <3>4, <4>1, <4>2 DEF Ended
      <4> QED BY <4>3 DEF Lockstep
    <3>7. CASE ~MaxvalSmall(f) /\ ~(iter + 1 >= PairMaxIter)
      <4>1. Pair!RC!BeginNewton
        BY <2>3, <2>4, <2>7, <3>7 DEF Pair!RC!Accept, Pair!RC!Stop, Pair!RC!StepSmall, Pair!RC!CapReached
      <4>2. pc = "newton" /\ status = "OK" /\ it = iter + 2
        BY <2>3, <3>4, <3>7, PairAssumption DEF HostMoved
      <4>3. it = iter' + 1
        BY <2>3, <3>1, <4>2
      <4>4. CASE f.singular
        <5>1. Ended'
          BY <2>1, <2>3, <3>4, <4>1, <4>2, <4>4 DEF Pair!RC!BeginNewton, Pair!RC!Stop, Ended
        <5> QED BY <5>1 DEF Lockstep
      <4>5. CASE ~f.singular
        <5>1. Behind'
          BY <2>1, <2>3, <3>1, <3>4, <4>1, <4>2, <4>3, <4>5 DEF Pair!RC!BeginNewton, Behind
        <5> QED BY <5>1 DEF Lockstep
      <4> QED BY <4>4, <4>5
    <3> QED BY <3>5, <3>6, <3>7
  <2>8. CASE Pair!RC!Reject
    <3>1. /\ phase = "LINESEARCH" /\ ~Decreases(f, base) /\ ls' = ls + 1
          /\ UNCHANGED <<phase, iter, xBase, base>>
      BY <2>8 DEF Pair!RC!Reject, Pair!RC!Call, Pair!RC!Accepts, Pair!RC!Decreases, Decreases
    <3>2. /\ hx = xBase /\ hf = base /\ ~base.singular /\ base.nan = "none"
          /\ pc = "search" /\ status = "OK" /\ k = ls + 1 /\ it = iter + 1
      BY <2>3, <3>1 DEF HostDealt
    <3>3. Behind'
      BY <2>1, <2>3, <3>1, <3>2 DEF Behind
    <3> QED BY <3>3 DEF Lockstep
  <2> QED BY <1>2, <2>5, <2>6, <2>7, <2>8
<1> QED BY <1>1, <1>2 DEF Pair!RC!Step, Pair!RC!StepAfterEnd

\* Every step of the two keeps them together.
LEMMA Pair_Kept == PairInv /\ Pair!Next => PairInv'
<1> SUFFICES ASSUME PairInv, Pair!Next PROVE PairInv'
  OBVIOUS
<1>1. Shape'
  BY Pair_Shape DEF PairInv
<1>2. ASSUME plain', NumbersOnly, SameTrials PROVE Lockstep'
  <2>1. plain /\ Lockstep /\ Shape
    BY <1>2 DEF PairInv, Pair!Next
  <2>2. CASE Pair!RCStep
    BY <1>2, <2>1, <2>2, Pair_Told, Pair_Call DEF Pair!RCStep
  <2>3. CASE ~Pair!RCStep
    BY <1>2, <2>1, <2>3, Pair_Entry, Pair_Host DEF Pair!Next
  <2> QED BY <2>2, <2>3
<1> QED BY <1>1, <1>2 DEF PairInv

\* At the end they have given the same answer.
LEMMA Pair_Agrees == PairInv /\ NumbersOnly /\ SameTrials => Pair!AgreesOnPlainRuns
<1> SUFFICES ASSUME PairInv, NumbersOnly, SameTrials, pc = "done", phase = "DONE", plain
             PROVE  Pair!SameAnswer
  BY DEF Pair!AgreesOnPlainRuns, Pair!BothDone
<1>1. Ended
  BY DEF PairInv, Lockstep, Fresh, Ahead, Told, Behind
<1> QED BY <1>1 DEF Ended, Pair!SameAnswer

-----------------------------------------------------------------------------
(* The four together.                                                      *)

\* The stepper answers DONE at a residual that passed one of its tests.
DoneTested == action = "DONE" => InfNormSmall(f) \/ f.step # "long"

NewtonInv ==
  /\ Shape
  /\ mode = "device" => IInv /\ DoneTested
  /\ mode = "host" => HostInv
  /\ mode = "both" => PairInv
  /\ mode = "hybrids" => HybridsInv

\* A solver that has not begun is well typed.
LEMMA Idle_Shape ==
  ASSUME NoDevice, f \in Residual
  PROVE  Shape
<1>1. <<>> \in Seq(Nat)
  OBVIOUS
<1>2. /\ x \in Seq(Nat) /\ xBase \in Seq(Nat) /\ base \in Residual
  BY <1>1, Zenon DEF NoDevice
<1>3. ready \in BOOLEAN
  BY Zenon DEF NoDevice
<1>4. TypeOK
  BY <1>2, <1>3, MaxHalvingsAssumption DEF NoDevice, TypeOK, Phases, Tokens, FailCodes
<1> QED BY <1>4 DEF NoDevice, Shape, StartIsFresh, TrialFromBase, TerminalStateIsAccepted

\* Whichever is run, it begins within its invariant.
LEMMA Newton_Begins == NewtonInit => NewtonInv
<1> SUFFICES ASSUME NewtonInit PROVE NewtonInv
  OBVIOUS
<1>1. CASE mode = "device" /\ Init
  BY <1>1, InitInv DEF NewtonInv, IInv, DoneTested, Init
<1>2. CASE mode = "host" /\ Host!Init /\ f = hf /\ NoDevice
  <2>1. HostInv /\ f \in Residual
    BY <1>2, Host_Begins DEF HostInv, Host!TypeOK, Host!Residual, Residual
  <2> QED BY <1>2, <2>1, Idle_Shape DEF NewtonInv
<1>3. CASE mode = "both" /\ Pair!Init
  BY <1>3, Pair_Begins DEF NewtonInv, PairInv
<1>4. CASE mode = "hybrids" /\ Hybrids!Init /\ f = (CHOOSE r \in Residual : TRUE) /\ NoDevice
  <2>1. PICK m \in Merits, v \in NanKinds, s \in StepKinds : TRUE
    BY MeritsAssumption, NanAssumption, StepAssumption
  <2>2. [merit |-> m, nan |-> v, conv |-> FALSE, singular |-> FALSE, step |-> s] \in Residual
    BY <2>1 DEF Residual
  <2>3. f \in Residual
    BY <1>4, <2>2, Zenon
  <2> QED BY <1>4, <2>3, Idle_Shape, Hybrids_Begins DEF NewtonInv
<1> QED BY <1>1, <1>2, <1>3, <1>4 DEF NewtonInit

\* Every step of the one that is run keeps it.
LEMMA Newton_Kept == NewtonInv /\ [NewtonNext]_newtonVars => NewtonInv'
<1> SUFFICES ASSUME NewtonInv, [NewtonNext]_newtonVars PROVE NewtonInv'
  OBVIOUS
<1>1. CASE mode = "device" /\ mode' = mode /\ Next
  <2>1. IInv'
    BY <1>1, StepInv DEF NewtonInv
  <2>2. DoneTested'
    BY <1>1 DEF NewtonInv, DoneTested, Next, Step, Evaluate, StartAtRoot, StartNewton, Accept, Reject,
       StepAfterEnd, Call, Stop, BeginNewton, StepSmall, InfNormSmall, Shape, TypeOK, TerminalStateIsAccepted, Tokens
  <2> QED BY <1>1, <2>1, <2>2 DEF NewtonInv, IInv
<1>2. CASE mode = "host" /\ mode' = mode /\ Host!Next /\ UNCHANGED vars
  BY <1>2, Host_Kept, StepShape DEF NewtonInv
<1>3. CASE mode = "both" /\ mode' = mode /\ Pair!Next
  BY <1>3, Pair_Kept DEF NewtonInv, PairInv
<1>4. CASE mode = "hybrids" /\ mode' = mode /\ Hybrids!Next /\ UNCHANGED vars
  BY <1>4, Hybrids_Kept, StepShape DEF NewtonInv
<1>5. CASE UNCHANGED newtonVars
  <2>1. UNCHANGED <<mode, phase, iter, ls, fail, x, xBase, base, action, f, ready, pc, it, k, hx, hf, status,
                    memo, plain, call, n, cached, moved, ncsuc, ncfail, nslow1, nslow2, jeval, reuse,
                    clean, sing, delta, est, best, made, jacs, xok, warm>>
    BY <1>5 DEF newtonVars, vars, hostVars, hybridsOwn
  <2>2. Shape' /\ (IInv => IInv') /\ (DoneTested => DoneTested')
    BY <2>1, StepShape DEF NewtonInv, IInv, IterBounded, DoneTested, InfNormSmall, vars
  <2>3. HostInv => HostInv'
    BY <2>1 DEF HostInv, HostCounted, HostFound, Host!TypeOK, Host!WorkBounded, MaxvalSmall
  <2>4. PairInv => PairInv'
    <3>1. Lockstep => Lockstep'
      <4>1. (HostMoved(memo[x]) => HostMoved(memo[x])') /\ (HostMoved(f) => HostMoved(f)')
        BY <2>1 DEF HostMoved, MaxvalSmall
      <4>2. (HostDealt(memo[x]) => HostDealt(memo[x])') /\ (HostDealt(f) => HostDealt(f)')
        BY <2>1, <4>1 DEF HostDealt, MaxvalSmall, Decreases
      <4>3. (Ahead => Ahead') /\ (Told => Told')
        BY <2>1, <4>2 DEF Ahead, Told
      <4> QED BY <2>1, <4>3 DEF Lockstep, Fresh, Behind, Ended
    <3> QED BY <2>1, <2>2, <3>1 DEF PairInv
  <2>5. HybridsInv => HybridsInv'
    <3>1. HybridsTyped => HybridsTyped'
      BY <2>1 DEF HybridsTyped, Hybrids!TypeOK
    <3>2. HybridsStatus => HybridsStatus'
      BY <2>1 DEF HybridsStatus, Hybrids!StatusIsHonest
    <3>3. HybridsCache => HybridsCache'
      BY <2>1 DEF HybridsCache, Hybrids!WarmIsLatestClean, Hybrids!WarmIsUsable
    <3>4. HybridsCost => HybridsCost'
      BY <2>1 DEF HybridsCost, Hybrids!JacobiansBounded
    <3> QED BY <3>1, <3>2, <3>3, <3>4 DEF HybridsInv
  <2> QED BY <2>1, <2>2, <2>3, <2>4, <2>5 DEF NewtonInv
<1> QED BY <1>1, <1>2, <1>3, <1>4, <1>5 DEF NewtonNext

\* The inductive invariant of the four.
THEOREM NewtonInvariance == NewtonSpec => []NewtonInv
  BY Newton_Begins, Newton_Kept, PTL DEF NewtonSpec

\* No counter passes its cap, although halvings, fallbacks and iterations are
\* counted in different places; every step of multiroot_hybrid is counted, and
\* multiroot_hybrids rebuilds a Jacobian after two poor ratios in a row only.
THEOREM Bounds == NewtonSpec => []WorkBounded
<1>1. NewtonInv => WorkBounded
  BY DEF NewtonInv, Shape, HostInv, HostCounted, HybridsInv, HybridsTyped, HybridsCost, WorkBounded, TypesOK
<1>2. QED
  BY NewtonInvariance, <1>1, PTL

\* After any sequence of calls of multiroot_hybrids, failed ones included, the
\* cache holds the latest estimate without noise, and what the next call takes
\* from it is finite.
THEOREM Warm == NewtonSpec => []WarmIsSound
<1>1. NewtonInv => WarmIsSound
  BY DEF NewtonInv, HybridsInv, HybridsCache, WarmIsSound
<1>2. QED
  BY NewtonInvariance, <1>1, PTL

\* Where no component of F is NaN, success is reported at a root, or at a point
\* that passed a convergence test, and nowhere else; DOMAIN_ERROR is a singular
\* current factor.  (With NaNs the first is false, see DoneIsConverged.)
THEOREM Honest ==
  ASSUME NumbersOnly
  PROVE  NewtonSpec => []StatusIsHonest
<1>1. NewtonInv => StatusIsHonest
  <2> SUFFICES ASSUME NewtonInv PROVE StatusIsHonest
    OBVIOUS
  <2>1. mode = "device" => DoneIsConverged
    <3>1. f.nan = "none"
      BY DEF NewtonInv, Shape, TypeOK, Residual, NumbersOnly
    <3> QED BY <3>1 DEF NewtonInv, DoneTested, DoneIsConverged, InfNormSmall, IsRoot
  <2>2. mode = "host" => Host!OkIsRoot
    <3>1. ASSUME mode = "host" PROVE hf.nan = "none"
      BY <3>1 DEF NewtonInv, HostInv, Host!TypeOK, Host!Residual, NumbersOnly
    <3> QED BY <3>1 DEF NewtonInv, HostInv, HostFound, Host!OkIsRoot, MaxvalSmall, Host!IsRoot
  <2>3. mode = "hybrids" => Hybrids!StatusIsHonest
    BY DEF NewtonInv, HybridsInv, HybridsStatus
  <2> QED BY <2>1, <2>2, <2>3 DEF StatusIsHonest
<1>2. QED
  BY NewtonInvariance, <1>1, PTL

\* "The math reproduces multiroot_hybrid exactly": on one system the stepper
\* and multiroot_hybrid report the same outcome at the same point, unless a
\* step was below xtol, a component NaN, or a line search at its last trial.
THEOREM Agreement ==
  ASSUME NumbersOnly, SameTrials
  PROVE  NewtonSpec => []AgreesOnPlainRuns
<1>1. NewtonInv => AgreesOnPlainRuns
  BY Pair_Agrees DEF NewtonInv, AgreesOnPlainRuns
<1>2. QED
  BY NewtonInvariance, <1>1, PTL
=============================================================================
