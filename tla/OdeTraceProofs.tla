---------------------------- MODULE OdeTraceProofs ----------------------------
(***************************************************************************)
(* What TLAPS proves of the solution object of src/ode/fortnum_ode.f90:    *)
(* ode_integrate leaves the mesh it promises (OdeIntegrate implements      *)
(* IntegrationTrace), an event scan reports the first admissible crossing, *)
(* and every sensitivity replays each step of the trace once, in order, at *)
(* the state the trace passed through.                                     *)
(***************************************************************************)
EXTENDS OdeTrace, SequenceTheorems, TLAPS

-----------------------------------------------------------------------------
(* Arithmetic of the clock. *)

(* t + dir*h is the nearest clock value: it is half a spacing away at most. *)
LEMMA RoundedNear ==
  ASSUME NEW x \in Int
  PROVE  /\ Rounded(x) \in Int
         /\ 2 * Rounded(x) - x <= 1 /\ x - 2 * Rounded(x) <= 1
<1>1. CASE x % 2 = 0
  <2>1. x \div 2 \in Int /\ 2 * (x \div 2) = x
    BY <1>1
  <2> QED BY <1>1, <2>1 DEF Rounded
<1>2. CASE x % 2 # 0
  <2> DEFINE low == (x - 1) \div 2
             high == (x + 1) \div 2
             nearest == CHOOSE c \in {low, high} : c % 2 = 0
  <2>1. low \in Int /\ high \in Int /\ 2 * low = x - 1 /\ 2 * high = x + 1
    BY <1>2
  <2>2. low % 2 = 0 \/ high % 2 = 0
    BY <1>2
  <2>3. Rounded(x) = nearest
    BY <1>2 DEF Rounded
  <2> HIDE DEF low, high
  <2>4. nearest \in {low, high}
    BY <2>2
  <2> QED BY <2>1, <2>3, <2>4
<1> QED BY <1>1, <1>2

(* hmax is a size, and a size that is cut at hmax is one. *)
LEMMA LargestIsSize ==
  ASSUME NEW a \in Int, NEW b \in Int
  PROVE  Largest(a, b) \in 0..HMax /\ \A s \in Nat : Least(Largest(a, b), s) \in 0..HMax
BY OdeAssumption DEF Largest, Least, Abs

-----------------------------------------------------------------------------
(* The mesh. *)

(* The constants one by one. *)
LEMMA Bounds ==
  /\ HMax \in Nat /\ HMax # 0 /\ MaxSteps \in Nat /\ MaxSteps # 0
  /\ Counter \in Nat /\ Counter # 0 /\ Calls \in Nat
BY OdeAssumption

\* One sequential caller: a scan or a replay runs only between the calls of
\* ode_integrate, on what those promise.
Sequential ==
  /\ mode \in {"integrate", "use"}
  /\ mode = "use" => steps = <<>>
  /\ scan # "idle" \/ kind # "none" => mode = "use" /\ ~running

\* The trace holds the start point and one point per accepted step; the loop
\* stands at its last point, which it has not driven past t1.
Recording ==
  /\ trace = <<>> => steps = <<>>
  /\ mode = "integrate" /\ trace # <<>> => Len(trace) = Len(steps) + 1
  /\ Len(trace) <= MaxSteps + 1
  /\ call > 0 /\ status # "DOMAIN_ERROR" => trace # <<>>
  /\ running => status = "OK" /\ trace # <<>>
  /\ running /\ mode = "integrate" =>
       /\ t0 # t1 /\ t = trace[Len(trace)]
       /\ Sign(t1 - t0) * (t1 - t) >= 0

MeshInv == TypeOK /\ Sequential /\ Recording /\ TraceIsMesh

(* The size of an attempt that is a number is at most hmax. *)
LEMMA SizeIsSize ==
  ASSUME TypeOK
  PROVE  /\ Size \in {NaN} \cup 0..HMax
         /\ Size = NaN <=> h = NaN
         /\ Gap \in Nat /\ (h # NaN /\ ~Final => h < Gap /\ Size = h)
         /\ Final => Size = Gap
<1>1. t1 \in Int /\ t \in Int /\ h \in {-1} \cup 0..HMax /\ HMax \in Nat
  BY OdeAssumption DEF TypeOK, NaN
<1>2. Gap \in Nat
  BY <1>1 DEF Gap, Abs
<1>3. CASE h = -1
  BY <1>1, <1>2, <1>3 DEF Size, Final, NaN
<1>4. CASE h \in 0..HMax
  BY <1>1, <1>2, <1>4 DEF Size, Final, NaN
<1> QED BY <1>1, <1>3, <1>4

(* The steps an attempt is followed by are cut at hmax. *)
LEMMA FactoredSizes ==
  ASSUME TypeOK, NEW size \in 0..HMax, NEW pass \in BOOLEAN
  PROVE  Factored(size, pass) \subseteq 0..HMax
<1> DEFINE lowest == IF pass /\ restart THEN (9 * size) \div 10 ELSE size \div 5
           highest == IF pass THEN 5 * size ELSE (9 * size) \div 10
<1>1. size \in Nat /\ lowest \in Nat /\ highest \in Int
  BY OdeAssumption
<1>2. t0 \in Int /\ t1 \in Int
  BY DEF TypeOK
<1>3. Factored(size, pass) = {Least(Largest(t0, t1), s) : s \in lowest..highest}
  BY DEF Factored
<1> HIDE DEF lowest, highest
<1>4. \A s \in lowest..highest : s \in Nat
  BY <1>1
<1> QED BY <1>2, <1>3, <1>4, LargestIsSize

(* A clock value u other than v, within half a spacing of v + dir*s/2 with s *)
(* below the way from v to w, lies strictly on the way from v to w.          *)
LEMMA NearestIsBetween ==
  ASSUME NEW u \in Int, NEW v \in Int, NEW w \in Int, NEW z \in Int, NEW s \in Nat,
         z # w, u # v, Sign(w - z) * (w - v) >= 0, s < 2 * Abs(w - v),
         2 * u - (2 * v + Sign(w - z) * s) <= 1, (2 * v + Sign(w - z) * s) - 2 * u <= 1
  PROVE  /\ Sign(w - z) * (u - v) > 0 /\ Sign(w - z) * (w - u) >= 0
         /\ Abs(2 * (u - v) - Sign(w - z) * s) <= 1
<1>1. CASE w - z > 0
  <2>1. Sign(w - z) = 1
    BY <1>1 DEF Sign
  <2> QED BY <2>1 DEF Abs
<1>2. CASE w - z < 0
  <2>1. Sign(w - z) = -1
    BY <1>2 DEF Sign
  <2>2. \A k \in Int : (-1) * k = -k
    OBVIOUS
  <2>3. v - w >= 0 /\ s < 2 * (v - w)
    BY <2>1, <2>2 DEF Abs
  <2>4. 2 * u - (2 * v - s) <= 1 /\ (2 * v - s) - 2 * u <= 1
    BY <2>1, <2>2
  <2>5. u < v /\ u >= w
    BY <2>3, <2>4
  <2>6. Abs(2 * (u - v) + s) <= 1
    BY <2>4 DEF Abs
  <2>7. Sign(w - z) * (u - v) = v - u /\ Sign(w - z) * (w - u) = u - w /\ Sign(w - z) * s = -s
    BY <2>1, <2>2
  <2> QED BY <2>5, <2>6, <2>7
<1> QED BY <1>1, <1>2

(* An accepted step goes strictly toward t1, not past it, and covers what is *)
(* recorded for it up to the rounding of the clock.                          *)
LEMMA AcceptAhead ==
  ASSUME MeshInv, mode = "integrate", Accept
  PROVE  /\ t' \in Int /\ t # t1
         /\ Sign(t1 - t0) * (t' - t) > 0 /\ Sign(t1 - t0) * (t1 - t') >= 0
         /\ Abs(2 * (t' - t) - Sign(t1 - t0) * Recorded) <= 1
         /\ ~Final => Abs(Sign(t1 - t0) * Recorded) < 2 * Abs(t1 - t)
<1>1. running /\ ~Stuck /\ Size # NaN /\ t' = Snap
  BY DEF Accept, Trying
<1>2. TypeOK /\ t0 # t1 /\ Sign(t1 - t0) * (t1 - t) >= 0
  BY <1>1 DEF MeshInv, Recording
<1>3. t \in Int /\ t0 \in Int /\ t1 \in Int
  BY <1>2 DEF TypeOK
<1>4. Size \in Nat /\ Size # 0 /\ Reach(Size) # t
  BY <1>1, <1>2, SizeIsSize, OdeAssumption DEF Stuck, NaN
<1>5. CASE Final
  <2>1. t' = t1 /\ Size = Gap
    BY <1>1, <1>2, <1>5, SizeIsSize DEF Snap
  <2>2. Size = 2 * Abs(t1 - t)
    BY <2>1 DEF Gap
  <2>3. t1 - t # 0
    BY <1>3, <1>4, <2>2 DEF Abs
  <2> QED BY <1>2, <1>3, <1>4, <1>5, <2>1, <2>2, <2>3 DEF Sign, Abs, Recorded
<1>6. CASE ~Final
  <2>1. t' = Reach(Size) /\ Size < Gap
    BY <1>1, <1>2, <1>6, SizeIsSize DEF Snap
  <2>2. Size < 2 * Abs(t1 - t)
    BY <2>1 DEF Gap
  <2> DEFINE x == 2 * t + Sign(t1 - t0) * Size
  <2>3. x \in Int
    BY <1>3, <1>4 DEF Sign
  <2>4. t' = Rounded(x)
    BY <2>1 DEF Reach
  <2>5. t' \in Int /\ 2 * t' - x <= 1 /\ x - 2 * t' <= 1 /\ t' # t
    BY <1>4, <2>1, <2>3, <2>4, RoundedNear
  <2>6. /\ 2 * t' - (2 * t + Sign(t1 - t0) * Size) <= 1
        /\ (2 * t + Sign(t1 - t0) * Size) - 2 * t' <= 1
    BY <2>5
  <2> HIDE DEF x
  <2>7. Abs(Sign(t1 - t0) * Size) = Size
    BY <1>3, <1>4 DEF Sign, Abs
  <2>8. t # t1
    BY <1>3, <1>4, <2>2 DEF Abs
  <2> QED BY <1>2, <1>3, <1>4, <2>2, <2>5, <2>6, <2>7, <2>8, NearestIsBetween DEF Recorded
<1> QED BY <1>5, <1>6

-----------------------------------------------------------------------------
(* The steps of ode_integrate keep MeshInv. *)

(* A call starts the trace again, or is refused and leaves it. *)
LEMMA CallKeepsMesh ==
  ASSUME MeshInv, mode = "integrate", NEW a \in Times, NEW b \in Times, NEW valid \in Validity,
         Call(a, b, valid), UNCHANGED <<mode, eventVars, replayVars>>
  PROVE  MeshInv'
<1> USE Bounds DEF MeshInv, Call
<1>1. a \in Int /\ b \in Int /\ ~running
  BY OdeAssumption
<1>2. Sequential'
  <2>1. scan = "idle" /\ kind = "none" /\ mode' = mode /\ scan' = scan /\ kind' = kind
    BY DEF Sequential, eventVars, replayVars
  <2> QED BY <2>1 DEF Sequential
<1>3. CASE valid
  <2>1. /\ trace' = <<a>> /\ steps' = <<>> /\ t' = a /\ restart' = TRUE
        /\ h' \in 0..Largest(a, b) /\ running' = (a # b) /\ status' = "OK"
    BY <1>3 DEF Started
  <2>2. TypeOK'
    <3>1. Largest(a, b) \in 0..HMax
      BY <1>1, LargestIsSize
    <3>2. trace' \in Seq(Int) /\ steps' \in Seq(Int)
      BY <1>1, <2>1
    <3>3. call' \in 0..Calls /\ {t0, t1, t}' \subseteq Int /\ h' \in 0..HMax
      BY <1>1, <2>1, <3>1 DEF TypeOK
    <3>4. {running, restart, finite}' \subseteq BOOLEAN
      BY <2>1
    <3>5. nsteps' \in 0..MaxSteps /\ nrejected' \in Nat
      BY DEF TypeOK
    <3> QED BY <2>1, <3>2, <3>3, <3>4, <3>5 DEF TypeOK
  <2>3. Len(trace') = 1 /\ trace'[1] = a /\ Len(steps') = 0
    BY <1>1, <2>1
  <2>4. Recording'
    <3>1. Sign(b - a) * (b - a) >= 0
      <4>1. CASE b - a < 0
        BY <1>1, <4>1 DEF Sign
      <4>2. CASE ~(b - a < 0)
        BY <1>1, <4>2 DEF Sign
      <4> QED BY <4>1, <4>2
    <3>2. trace' # <<>> /\ t1' = b /\ t0' = a /\ (running' => a # b)
      BY <2>1, <2>3
    <3> HIDE DEF MeshInv, Call
    <3> QED BY <1>1, <2>1, <2>3, <3>1, <3>2 DEF Recording
  <2>5. TraceIsMesh'
    BY <2>1, <2>3 DEF TraceIsMesh, OnlyRoundingOverlooks
  <2> QED BY <1>2, <2>2, <2>4, <2>5
<1>4. CASE ~valid
  <2>1. /\ status' = "DOMAIN_ERROR" /\ running' = FALSE
        /\ UNCHANGED <<t, h, restart, trace, steps>>
    BY <1>4 DEF Refused
  <2>2. TypeOK'
    <3>1. call' \in 0..Calls /\ {t0, t1, t}' \subseteq Int /\ h' \in {NaN} \cup 0..HMax
      BY <1>1, <2>1 DEF TypeOK
    <3>2. {running, restart, finite}' \subseteq BOOLEAN
      BY <2>1 DEF TypeOK
    <3>3. nsteps' \in 0..MaxSteps /\ nrejected' \in Nat
      OBVIOUS
    <3>4. trace' \in Seq(Int) /\ steps' \in Seq(Int)
      BY <2>1 DEF TypeOK
    <3> QED BY <2>1, <3>1, <3>2, <3>3, <3>4 DEF TypeOK
  <2>3. Recording'
    <3>1. mode' = mode
      OBVIOUS
    <3> QED BY <2>1, <3>1 DEF Recording
  <2>4. TraceIsMesh'
    BY <2>1 DEF TraceIsMesh
  <2> QED BY <1>2, <2>2, <2>3, <2>4
<1> QED BY <1>3, <1>4

(* An accepted step extends the mesh by one point and one step. *)
LEMMA AcceptKeepsMesh ==
  ASSUME MeshInv, mode = "integrate", Accept, UNCHANGED <<mode, eventVars, replayVars>>
  PROVE  MeshInv'
<1> USE Bounds
<1> DEFINE dir == Sign(t1 - t0)
<1>1. /\ running /\ Len(steps) < MaxSteps /\ Size # NaN
      /\ trace' = Append(trace, t') /\ steps' = Append(steps, dir * Recorded)
      /\ UNCHANGED <<call, finite, t0, t1, nrejected>>
  BY DEF Accept, Trying, Spent, accepted, MeshInv, TypeOK
<1>2. /\ t' \in Int /\ dir * (t' - t) > 0 /\ dir * (t1 - t') >= 0
      /\ Abs(2 * (t' - t) - dir * Recorded) <= 1
  BY AcceptAhead
<1>3. /\ trace \in Seq(Int) /\ steps \in Seq(Int) /\ t0 # t1 /\ t = trace[Len(trace)]
      /\ Len(trace) = Len(steps) + 1 /\ status = "OK"
      /\ t0 \in Int /\ t1 \in Int /\ Size \in 0..HMax /\ TypeOK
  BY <1>1, SizeIsSize DEF MeshInv, Recording, TypeOK
<1>4. dir * Recorded \in Int
  BY <1>3 DEF Recorded, Sign
<1>5. /\ trace' \in Seq(Int) /\ Len(trace') = Len(trace) + 1 /\ trace'[Len(trace')] = t'
      /\ \A i \in 1..Len(trace) : trace'[i] = trace[i]
      /\ steps' \in Seq(Int) /\ Len(steps') = Len(steps) + 1
      /\ steps'[Len(steps')] = dir * Recorded
      /\ \A i \in 1..Len(steps) : steps'[i] = steps[i]
      /\ Len(trace) \in Nat /\ Len(steps) \in Nat
  <2> HIDE DEF dir
  <2>1. /\ Append(trace, t') \in Seq(Int) /\ Len(Append(trace, t')) = Len(trace) + 1
        /\ \A i \in 1..Len(trace) : Append(trace, t')[i] = trace[i]
        /\ Append(trace, t')[Len(trace) + 1] = t'
    BY <1>2, <1>3, AppendProperties
  <2>2. /\ Append(steps, dir * Recorded) \in Seq(Int)
        /\ Len(Append(steps, dir * Recorded)) = Len(steps) + 1
        /\ \A i \in 1..Len(steps) : Append(steps, dir * Recorded)[i] = steps[i]
        /\ Append(steps, dir * Recorded)[Len(steps) + 1] = dir * Recorded
    BY <1>3, <1>4, AppendProperties
  <2>3. Len(trace) \in Nat /\ Len(steps) \in Nat
    BY <1>3, LenProperties
  <2> QED BY <1>1, <2>1, <2>2, <2>3
<1>6. \/ /\ running' = FALSE /\ status' = "OK" /\ nsteps' = Len(steps) + 1
         /\ UNCHANGED <<h, restart>>
      \/ /\ h' \in 0..HMax /\ restart' = FALSE
         /\ UNCHANGED <<running, status, nsteps>>
  BY <1>3, FactoredSizes DEF Accept, Exit, accepted
<1>7. TypeOK'
  <2>1. {running, restart, finite}' \subseteq BOOLEAN
    BY <1>1, <1>3, <1>6 DEF TypeOK
  <2>2. call' \in 0..Calls /\ {t0, t1, t}' \subseteq Int /\ h' \in {NaN} \cup 0..HMax
    BY <1>1, <1>2, <1>3, <1>6 DEF TypeOK
  <2>3. nsteps' \in 0..MaxSteps
    <3>1. nsteps \in 0..MaxSteps
      BY <1>3 DEF TypeOK
    <3>2. CASE nsteps' = nsteps
      BY <3>1, <3>2
    <3>3. CASE nsteps' = Len(steps) + 1
      BY <1>1, <1>5, <3>3
    <3> QED BY <1>6, <3>2, <3>3
  <2>4. status' \in {"OK", "DOMAIN_ERROR", "CONVERGENCE_ERROR"} /\ nrejected' \in Nat
    BY <1>1, <1>3, <1>6 DEF TypeOK
  <2> QED BY <1>5, <2>1, <2>2, <2>3, <2>4 DEF TypeOK
<1>8. Sequential'
  <2>1. scan = "idle" /\ kind = "none" /\ mode' = mode /\ scan' = scan /\ kind' = kind
    BY <1>1 DEF MeshInv, Sequential, eventVars, replayVars
  <2> QED BY <2>1 DEF Sequential
<1>9. Recording'
  <2>1. trace' # <<>>
    BY <1>3, <1>5
  <2>2. Sign(t1' - t0') * (t1' - t') >= 0 /\ t0' # t1'
    BY <1>1, <1>2, <1>3
  <2>3. t' = trace'[Len(trace')] /\ Len(trace') = Len(steps') + 1 /\ Len(trace') <= MaxSteps + 1
    BY <1>1, <1>3, <1>5
  <2>4. status' = "OK"
    BY <1>3, <1>6
  <2> HIDE DEF dir
  <2> QED BY <2>1, <2>2, <2>3, <2>4 DEF Recording
<1>10. OnlyRoundingOverlooks'
  <2>1. SUFFICES ASSUME running' \/ status' = "CONVERGENCE_ERROR"
                 PROVE  Abs(steps'[Len(steps')]) < 2 * Abs(t1' - trace'[Len(steps')])
    BY DEF OnlyRoundingOverlooks
  <2>2. ~Final
    BY <1>3, <2>1 DEF Accept, Exit
  <2>3. Abs(dir * Recorded) < 2 * Abs(t1 - t)
    BY <2>2, AcceptAhead
  <2>4. trace'[Len(steps')] = t /\ t1' = t1 /\ steps'[Len(steps')] = dir * Recorded
    BY <1>1, <1>3, <1>5
  <2> HIDE DEF dir
  <2> QED BY <2>3, <2>4, Zenon
<1>11. TraceIsMesh'
  <2>1. TraceIsMesh /\ (status # "DOMAIN_ERROR" /\ call' > 0 => call > 0) /\ Len(trace) >= 1
    BY <1>1, <1>3 DEF MeshInv
  <2>2. SUFFICES ASSUME call' > 0
                 PROVE  /\ trace'[1] = t0'
                        /\ \A i \in 1..Len(steps') :
                             /\ Sign(t1' - t0') * (trace'[i + 1] - trace'[i]) > 0
                             /\ Sign(t1' - t0') * (t1' - trace'[i + 1]) >= 0
                             /\ Abs(2 * (trace'[i + 1] - trace'[i]) - steps'[i]) <= 1
    BY <1>10 DEF TraceIsMesh
  <2>3. /\ trace[1] = t0
        /\ \A i \in 1..Len(steps) :
             /\ dir * (trace[i + 1] - trace[i]) > 0 /\ dir * (t1 - trace[i + 1]) >= 0
             /\ Abs(2 * (trace[i + 1] - trace[i]) - steps[i]) <= 1
    BY <1>1, <1>3, <2>1, <2>2 DEF TraceIsMesh
  <2>4. trace'[1] = t0' /\ t1' = t1 /\ t0' = t0
    BY <1>1, <1>3, <1>5, <2>1, <2>3
  <2>5. ASSUME NEW i \in 1..Len(steps')
        PROVE  /\ dir * (trace'[i + 1] - trace'[i]) > 0
               /\ dir * (t1 - trace'[i + 1]) >= 0
               /\ Abs(2 * (trace'[i + 1] - trace'[i]) - steps'[i]) <= 1
    <3> HIDE DEF dir
    <3>1. CASE i \in 1..Len(steps)
      <4>1. i \in 1..Len(trace) /\ i + 1 \in 1..Len(trace)
        BY <1>3, <3>1
      <4>2. trace'[i] = trace[i] /\ trace'[i + 1] = trace[i + 1] /\ steps'[i] = steps[i]
        BY <1>5, <3>1, <4>1
      <4> QED BY <2>3, <3>1, <4>2
    <3>2. CASE i = Len(steps) + 1
      <4>1. i = Len(trace) /\ i \in 1..Len(trace) /\ i + 1 = Len(trace') /\ i = Len(steps')
        BY <1>3, <1>5, <2>1, <3>2
      <4>2. trace'[i] = t /\ trace'[i + 1] = t' /\ steps'[i] = dir * Recorded
        BY <1>3, <1>5, <4>1
      <4> QED BY <1>2, <4>2
    <3> QED BY <1>3, <1>5, <3>1, <3>2
  <2> QED BY <2>4, <2>5
<1> QED BY <1>7, <1>8, <1>9, <1>11 DEF MeshInv

(* The other steps leave the trace, and may end the call. *)
LEMMA OtherKeepsMesh ==
  ASSUME MeshInv, mode = "integrate", Exhausted \/ Reject \/ RejectNaN,
         UNCHANGED <<mode, eventVars, replayVars>>
  PROVE  /\ MeshInv'
         /\ UNCHANGED <<call, t0, t1, trace>>
         /\ \/ UNCHANGED <<running, nsteps, status>>
            \/ running' = FALSE /\ nsteps' = Len(steps) /\ status' = "CONVERGENCE_ERROR"
<1> USE Bounds
<1>0. /\ TypeOK /\ running /\ Size \in {NaN} \cup 0..HMax
      /\ Len(steps) \in Nat /\ Len(steps) <= MaxSteps /\ Len(trace) = Len(steps) + 1
  <2>1. TypeOK /\ Recording /\ running
    BY DEF MeshInv, Exhausted, Reject, RejectNaN, Trying
  <2>2. Len(trace) = Len(steps) + 1 /\ Len(trace) <= MaxSteps + 1
    BY <2>1 DEF Recording
  <2>3. Len(steps) \in Nat
    BY <2>1, LenProperties DEF TypeOK
  <2> QED BY <2>1, <2>2, <2>3, SizeIsSize
<1>1. ASSUME NEW sizes, sizes \subseteq {NaN} \cup 0..HMax, Rejected(sizes)
      PROVE  /\ UNCHANGED <<call, finite, t0, t1, t, trace, steps>>
             /\ restart' = TRUE /\ nrejected' \in Nat
             /\ h' \in {NaN} \cup 0..HMax
             /\ \/ UNCHANGED <<running, nsteps, status>>
                \/ running' = FALSE /\ nsteps' = Len(steps) /\ status' = "CONVERGENCE_ERROR"
  <2>1. nrejected \in Nat /\ Counter \in Nat \ {0}
    BY <1>0 DEF TypeOK
  <2>2. nrejected' \in Nat
    BY <1>1, <2>1 DEF Rejected
  <2>3. PICK size \in sizes :
          IF BelowMinimum(size)
          THEN Exit("CONVERGENCE_ERROR", accepted) /\ h' = Size
          ELSE h' = size /\ UNCHANGED <<running, status, nsteps>>
    BY <1>1 DEF Rejected
  <2>4. UNCHANGED <<call, finite, t0, t1, t, trace, steps>> /\ restart' = TRUE
    BY <1>1 DEF Rejected
  <2>5. CASE BelowMinimum(size)
    BY <1>0, <2>2, <2>3, <2>4, <2>5 DEF Exit, accepted
  <2>6. CASE ~BelowMinimum(size)
    BY <1>1, <2>2, <2>3, <2>4, <2>6
  <2> QED BY <2>5, <2>6
<1>2. /\ UNCHANGED <<call, finite, t0, t1, t, trace, steps>>
      /\ restart' \in BOOLEAN /\ nrejected' \in Nat
      /\ h' \in {NaN} \cup 0..HMax
      /\ \/ UNCHANGED <<running, nsteps, status>>
         \/ running' = FALSE /\ nsteps' = Len(steps) /\ status' = "CONVERGENCE_ERROR"
  <2>1. CASE Exhausted
    BY <1>0, <2>1 DEF Exhausted, Exit, accepted, TypeOK
  <2>2. CASE Reject
    <3>1. Size \in 0..HMax
      BY <1>0, <2>2 DEF Reject
    <3>2. Factored(Size, FALSE) \subseteq {NaN} \cup 0..HMax
      BY <1>0, <3>1, FactoredSizes
    <3> QED BY <1>1, <2>2, <3>2 DEF Reject
  <2>3. CASE RejectNaN
    <3>1. CASE Size = NaN /\ Rejected({NaN})
      BY <1>1, <3>1
    <3>2. CASE Size # NaN /\ Rejected({Least(Largest(t0, t1), 5 * Size), Size \div 5, NaN})
      <4>1. t0 \in Int /\ t1 \in Int /\ Size \in 0..HMax
        BY <1>0, <3>2 DEF TypeOK
      <4>2. 5 * Size \in Nat /\ Size \div 5 \in 0..HMax
        BY <4>1
      <4>3. Least(Largest(t0, t1), 5 * Size) \in 0..HMax
        BY <4>1, <4>2, LargestIsSize
      <4> QED BY <1>1, <3>2, <4>2, <4>3
    <3> QED BY <2>3, <3>1, <3>2 DEF RejectNaN
  <2> QED BY <2>1, <2>2, <2>3
<1>3. TypeOK'
  <2>1. {running, restart, finite}' \subseteq BOOLEAN
    BY <1>0, <1>2 DEF TypeOK
  <2>2. call' \in 0..Calls /\ {t0, t1, t}' \subseteq Int
    BY <1>0, <1>2 DEF TypeOK
  <2>3. trace' \in Seq(Int) /\ steps' \in Seq(Int)
    BY <1>0, <1>2 DEF TypeOK
  <2>4. nsteps' \in 0..MaxSteps
    <3>1. nsteps \in 0..MaxSteps
      BY <1>0 DEF TypeOK
    <3>2. CASE nsteps' = nsteps
      BY <3>1, <3>2
    <3>3. CASE nsteps' = Len(steps)
      BY <1>0, <3>3
    <3> QED BY <1>2, <3>2, <3>3
  <2>5. status' \in {"OK", "DOMAIN_ERROR", "CONVERGENCE_ERROR"}
    BY <1>0, <1>2 DEF TypeOK
  <2> QED BY <1>2, <2>1, <2>2, <2>3, <2>4, <2>5 DEF TypeOK
<1>4. Sequential'
  <2>1. scan = "idle" /\ kind = "none" /\ mode' = mode /\ scan' = scan /\ kind' = kind
    BY <1>0 DEF MeshInv, Sequential, eventVars, replayVars
  <2> QED BY <2>1 DEF Sequential
<1>5. Recording' /\ TraceIsMesh'
  <2>1. status = "OK" /\ Recording /\ TraceIsMesh /\ mode' = mode
    BY <1>0 DEF MeshInv, Recording
  <2>2. Recording'
    BY <1>2, <2>1 DEF Recording
  <2>3. TraceIsMesh'
    BY <1>0, <1>2, <2>1 DEF TraceIsMesh, OnlyRoundingOverlooks
  <2> QED BY <2>2, <2>3
<1> QED BY <1>2, <1>3, <1>4, <1>5 DEF MeshInv

(* A call in mode "use": the trace starts again, or is left. *)
LEMMA EnterKeepsMesh ==
  ASSUME MeshInv, mode = "use", scan = "idle", kind = "none",
         NEW a \in Times, NEW b \in Times, Promise!Begin(a, b) \/ Promise!Refuse(a, b),
         UNCHANGED <<mode, internal, eventVars, replayVars>>
  PROVE  MeshInv'
<1> USE Bounds
<1>1. /\ a \in Int /\ b \in Int
      /\ TypeOK /\ Recording /\ TraceIsMesh /\ steps = <<>> /\ mode' = mode
      /\ scan' = "idle" /\ kind' = "none"
      /\ UNCHANGED <<finite, t, h, restart, steps, nrejected>>
  BY OdeAssumption DEF MeshInv, Sequential, internal, eventVars, replayVars
<1>2. ~running /\ call < Calls /\ call' = call + 1 /\ t0' = a /\ t1' = b /\ nsteps' = 0
  BY DEF Promise!Begin, Promise!Refuse, Promise!Enter
<1>3. \/ trace' = <<a>> /\ running' = (a # b) /\ status' = "OK"
      \/ trace' = trace /\ running' = FALSE /\ status' = "DOMAIN_ERROR"
  BY DEF Promise!Begin, Promise!Refuse
<1>4. call \in 0..Calls /\ nsteps \in 0..MaxSteps /\ trace \in Seq(Int)
  BY <1>1 DEF TypeOK
<1>5. TypeOK'
  <2>1. call' \in 0..Calls /\ nsteps' \in 0..MaxSteps
    BY <1>2, <1>4
  <2>2. {t0, t1, t}' \subseteq Int /\ h' \in {NaN} \cup 0..HMax /\ nrejected' \in Nat
    BY <1>1, <1>2 DEF TypeOK
  <2>3. trace' \in Seq(Int) /\ steps' \in Seq(Int)
    <3>1. <<a>> \in Seq(Int) /\ steps' = <<>> /\ <<>> \in Seq(Int)
      BY <1>1
    <3> QED BY <1>3, <1>4, <3>1
  <2>4. {running, restart, finite}' \subseteq BOOLEAN
    BY <1>1, <1>3 DEF TypeOK
  <2>5. status' \in {"OK", "DOMAIN_ERROR", "CONVERGENCE_ERROR"}
    BY <1>3
  <2> QED BY <2>1, <2>2, <2>3, <2>4, <2>5 DEF TypeOK
<1>6. Sequential'
  BY <1>1 DEF Sequential
<1>7. Recording' /\ TraceIsMesh'
  <2>1. CASE trace' = <<a>> /\ running' = (a # b) /\ status' = "OK"
    <3>1. trace' # <<>> /\ Len(trace') = 1 /\ trace'[1] = a /\ Len(steps') = 0
      BY <1>1, <2>1
    <3>2. Recording'
      BY <1>1, <2>1, <3>1 DEF Recording
    <3>3. TraceIsMesh'
      BY <1>1, <1>2, <3>1 DEF TraceIsMesh, OnlyRoundingOverlooks
    <3> QED BY <3>2, <3>3
  <2>2. CASE trace' = trace /\ running' = FALSE /\ status' = "DOMAIN_ERROR"
    <3>1. Recording'
      BY <1>1, <2>2 DEF Recording
    <3>2. TraceIsMesh'
      BY <2>2 DEF TraceIsMesh
    <3> QED BY <3>1, <3>2
  <2> QED BY <1>3, <2>1, <2>2
<1> QED BY <1>5, <1>6, <1>7 DEF MeshInv

(* The last point of a trace that has one. *)
LEMMA LastPoint ==
  ASSUME NEW s \in Seq(Int), s # <<>>
  PROVE  Promise!Last(s) = s[Len(s)] /\ s[Len(s)] \in Int /\ Len(s) \in Nat /\ Len(s) >= 1
<1>1. Len(s) \in Nat /\ Len(s) >= 1
  BY EmptySeq, LenProperties
<1> QED BY <1>1, ElementOfSeq DEF Promise!Last

(* Points accepted in mode "use", and the end of the call. *)
LEMMA FillKeepsMesh ==
  ASSUME MeshInv, mode = "use", scan = "idle", kind = "none",
         Promise!Advance \/ Promise!Arrive \/ Promise!Overlook \/ Promise!GiveUp,
         UNCHANGED <<mode, internal, eventVars, replayVars>>
  PROVE  MeshInv'
<1> USE Bounds
<1>1. /\ TypeOK /\ Recording /\ TraceIsMesh /\ steps = <<>> /\ mode' = mode
      /\ scan' = "idle" /\ kind' = "none"
      /\ UNCHANGED <<finite, t, h, restart, steps, nrejected>>
  BY DEF MeshInv, Sequential, internal, eventVars, replayVars
<1>2. running /\ UNCHANGED <<call, t0, t1>>
  BY DEF Promise!Unfinished, Promise!Advance, Promise!Arrive, Promise!Overlook, Promise!GiveUp
<1>3. trace # <<>> /\ status = "OK" /\ trace \in Seq(Int) /\ Len(trace) <= MaxSteps + 1
  BY <1>1, <1>2 DEF Recording, TypeOK
<1>4. /\ trace' \in Seq(Int) /\ Len(trace') \in Nat /\ Len(trace') >= 1
      /\ Len(trace') <= MaxSteps + 1 /\ trace'[1] = trace[1]
  <2>1. CASE Promise!GiveUp
    BY <1>3, <2>1, LastPoint DEF Promise!GiveUp
  <2>2. CASE Promise!Advance \/ Promise!Arrive \/ Promise!Overlook
    <3>1. Promise!Last(trace) \in Int /\ Len(trace) \in Nat /\ Len(trace) >= 1 /\ t1 \in Int
      BY <1>1, <1>3, LastPoint DEF TypeOK
    <3>2. Promise!Ahead \subseteq Int
      BY <3>1 DEF Promise!Ahead
    <3>3. PICK u \in Int : trace' = Append(trace, u)
      BY <2>2, <3>1, <3>2 DEF Promise!Advance, Promise!Arrive, Promise!Overlook
    <3>4. Len(trace) <= MaxSteps
      BY <2>2 DEF Promise!Advance, Promise!Arrive, Promise!Overlook, Promise!Unfinished
    <3>5. trace' \in Seq(Int) /\ Len(trace') = Len(trace) + 1 /\ trace'[1] = trace[1]
      BY <1>3, <3>1, <3>3, AppendProperties
    <3> QED BY <3>1, <3>4, <3>5
  <2> QED BY <2>1, <2>2
<1>5. \/ UNCHANGED <<running, nsteps, status>>
      \/ /\ running' = FALSE /\ nsteps' = Len(trace') - 1
         /\ status' \in {"OK", "CONVERGENCE_ERROR"}
  BY DEF Promise!Advance, Promise!Arrive, Promise!Overlook, Promise!GiveUp, Promise!Close
<1>6. TypeOK'
  <2>1. nsteps' \in 0..MaxSteps
    <3>1. nsteps \in 0..MaxSteps
      BY <1>1 DEF TypeOK
    <3>2. CASE nsteps' = nsteps
      BY <3>1, <3>2
    <3>3. CASE nsteps' = Len(trace') - 1
      BY <1>4, <3>3
    <3> QED BY <1>5, <3>2, <3>3
  <2>2. {t0, t1, t}' \subseteq Int /\ h' \in {NaN} \cup 0..HMax /\ nrejected' \in Nat
    BY <1>1, <1>2 DEF TypeOK
  <2>3. call' \in 0..Calls /\ {running, restart, finite}' \subseteq BOOLEAN
    BY <1>1, <1>2, <1>5 DEF TypeOK
  <2>4. status' \in {"OK", "DOMAIN_ERROR", "CONVERGENCE_ERROR"} /\ steps' \in Seq(Int)
    BY <1>1, <1>3, <1>5 DEF TypeOK
  <2> QED BY <1>4, <2>1, <2>2, <2>3, <2>4 DEF TypeOK
<1>7. Sequential'
  BY <1>1 DEF Sequential
<1>8. trace' # <<>> /\ status' # "DOMAIN_ERROR"
  BY <1>3, <1>4, <1>5
<1>9. Recording'
  <2>1. running' => running' = running /\ status' = "OK"
    BY <1>2, <1>3, <1>5
  <2> QED BY <1>1, <1>4, <1>8, <2>1 DEF Recording
<1>10. TraceIsMesh'
  <2>1. Len(steps') = 0
    BY <1>1
  <2>2. call > 0 => trace[1] = t0
    BY <1>1, <1>3 DEF TraceIsMesh
  <2> QED BY <1>1, <1>2, <1>4, <2>1, <2>2 DEF TraceIsMesh, OnlyRoundingOverlooks
<1> QED BY <1>6, <1>7, <1>9, <1>10 DEF MeshInv

(* Readers of the trace leave it as it is. *)
LEMMA ReadersKeepMesh ==
  ASSUME MeshInv, mode' = mode, UNCHANGED vars,
         (mode = "use" /\ ~running) \/ UNCHANGED <<scan, kind>>
  PROVE  MeshInv'
<1>1. TypeOK'
  BY DEF MeshInv, TypeOK, vars
<1>2. Sequential'
  BY DEF MeshInv, Sequential, vars
<1>3. Recording'
  BY DEF MeshInv, Recording, vars
<1>4. TraceIsMesh'
  BY DEF MeshInv, TraceIsMesh, OnlyRoundingOverlooks, vars
<1> QED BY <1>1, <1>2, <1>3, <1>4 DEF MeshInv

(* MeshInv is an invariant, and every step of OdeIntegrate is a step of what  *)
(* ode_integrate promises, or none.                                          *)
LEMMA MeshInductive ==
  /\ TraceInit => MeshInv
  /\ MeshInv /\ [TraceNext]_traceVars => MeshInv' /\ [Promise!Next]_(Promise!vars)
<1> USE Bounds
<1>1. ASSUME TraceInit PROVE MeshInv
  <2>1. /\ mode \in {"integrate", "use"} /\ scan = "idle" /\ kind = "none" /\ Init
    BY <1>1 DEF TraceInit, Events!Init, Replay!Init
  <2>2. trace = <<>> /\ steps = <<>> /\ Len(<<>>) = 0 /\ <<>> \in Seq(Int)
    BY <2>1 DEF Init
  <2>3. TypeOK
    <3>1. call \in 0..Calls /\ nsteps \in 0..MaxSteps /\ h \in 0..HMax /\ nrejected \in Nat
      BY <2>1 DEF Init
    <3>2. running = FALSE /\ restart = TRUE /\ finite = TRUE /\ {t0, t1, t} \subseteq Int
      BY <2>1 DEF Init
    <3> QED BY <2>1, <2>2, <3>1, <3>2 DEF Init, TypeOK
  <2>4. Recording
    BY <2>1, <2>2 DEF Init, Recording
  <2> QED BY <2>1, <2>3, <2>4 DEF MeshInv, Sequential, TraceIsMesh, Init
<1>2. ASSUME MeshInv, [TraceNext]_traceVars
      PROVE  MeshInv' /\ [Promise!Next]_(Promise!vars)
  <2>1. CASE UNCHANGED traceVars
    <3>1. mode' = mode /\ UNCHANGED vars /\ UNCHANGED <<scan, kind>>
      BY <2>1 DEF traceVars, eventVars, replayVars
    <3> QED BY <1>2, <3>1, ReadersKeepMesh DEF vars, Promise!vars
  <2>2. CASE Integrate
    <3> USE <1>2, <2>2
    <3>1. mode = "integrate" /\ UNCHANGED <<mode, eventVars, replayVars>> /\ Next
      BY DEF Integrate
    <3>2. ASSUME NEW a \in Times, NEW b \in Times, NEW valid \in Validity, Call(a, b, valid)
          PROVE  MeshInv' /\ Promise!Next
      <4>1. Promise!Begin(a, b) \/ Promise!Refuse(a, b)
        BY <3>2 DEF Call, Started, Refused, Promise!Begin, Promise!Refuse, Promise!Enter
      <4> QED BY <3>1, <3>2, <4>1, CallKeepsMesh DEF Promise!Next
    <3>3. CASE Accept
      <4>1. MeshInv'
        BY <3>1, <3>3, AcceptKeepsMesh
      <4>2. /\ t' \in Int /\ Sign(t1 - t0) * (t' - t) > 0 /\ Sign(t1 - t0) * (t1 - t') >= 0
        BY <3>1, <3>3, AcceptAhead
      <4>3. /\ running /\ trace' = Append(trace, t') /\ UNCHANGED <<call, t0, t1>>
            /\ Len(steps) < MaxSteps
            /\ \/ running' = FALSE /\ status' = "OK" /\ nsteps' = Len(steps) + 1 /\ t' = t1
               \/ UNCHANGED <<running, status, nsteps>>
            /\ t # t1
        <5>1. /\ running /\ ~Spent /\ trace' = Append(trace, t') /\ UNCHANGED <<call, t0, t1>>
              /\ \/ Final /\ Exit("OK", accepted + 1) /\ t' = Snap
                 \/ UNCHANGED <<running, status, nsteps>>
          BY <3>3 DEF Accept, Trying
        <5>2. Len(steps) \in Nat
          BY LenProperties DEF MeshInv, TypeOK
        <5>3. Len(steps) < MaxSteps
          BY <5>1, <5>2 DEF Spent, accepted
        <5>4. t # t1
          BY <3>1, <3>3, AcceptAhead
        <5>5. CASE Final /\ Exit("OK", accepted + 1) /\ t' = Snap
          BY <5>1, <5>3, <5>4, <5>5 DEF accepted, Exit, Snap
        <5> QED BY <5>1, <5>3, <5>4, <5>5
      <4>4. /\ trace \in Seq(Int) /\ trace # <<>> /\ t = trace[Len(trace)] /\ t0 # t1
            /\ Len(trace) = Len(steps) + 1 /\ t0 \in Int /\ t1 \in Int
        BY <3>1, <4>3 DEF MeshInv, Recording, TypeOK
      <4>5. Promise!Last(trace) = t /\ t \in Int /\ Len(trace) \in Nat /\ Len(steps) \in Nat
        BY <4>4, LastPoint, LenProperties DEF MeshInv, TypeOK
      <4>6. t' = t1 \/ t' \in Promise!Ahead
        <5>1. CASE t0 < t1
          <6>1. Sign(t1 - t0) = 1
            BY <4>4, <5>1 DEF Sign
          <6> QED BY <4>2, <4>4, <4>5, <5>1, <6>1 DEF Promise!Ahead
        <5>2. CASE t1 < t0
          <6>1. Sign(t1 - t0) = -1
            BY <4>4, <5>2 DEF Sign
          <6>2. \A k \in Int : (-1) * k = -k
            OBVIOUS
          <6>3. t' < t /\ t' >= t1
            BY <4>2, <4>4, <4>5, <6>1, <6>2
          <6> QED BY <4>2, <4>4, <4>5, <5>2, <6>3 DEF Promise!Ahead
        <5> QED BY <4>4, <5>1, <5>2
      <4>7. /\ trace' \in Seq(Int) /\ trace' # <<>> /\ Len(trace') = Len(trace) + 1
            /\ Promise!Last(trace') = t'
        <5>1. /\ trace' \in Seq(Int) /\ Len(trace') = Len(trace) + 1 /\ trace'[Len(trace')] = t'
          <6>1. trace \in Seq(Int) /\ t' \in Int
            BY <4>2, <4>4
          <6>2. /\ Append(trace, t') \in Seq(Int) /\ Len(Append(trace, t')) = Len(trace) + 1
                /\ Append(trace, t')[Len(trace) + 1] = t'
            BY <6>1, AppendProperties
          <6>3. trace' = Append(trace, t')
            BY <4>3
          <6> QED BY <6>2, <6>3, Zenon
        <5>2. trace' # <<>>
          BY <4>5, <5>1, EmptySeq
        <5> QED BY <5>1, <5>2, LastPoint
      <4>8. Promise!Unfinished
        BY <4>3, <4>4, <4>5 DEF Promise!Unfinished
      <4>9. CASE UNCHANGED <<running, status, nsteps>>
        BY <4>1, <4>3, <4>6, <4>8, <4>9
        DEF Promise!Next, Promise!Advance, Promise!Overlook
      <4>10. CASE running' = FALSE /\ status' = "OK" /\ nsteps' = Len(steps) + 1 /\ t' = t1
        <5>1. nsteps' = Len(trace') - 1
          BY <4>4, <4>5, <4>7, <4>10
        <5> QED BY <4>1, <4>3, <4>8, <4>10, <5>1 DEF Promise!Next, Promise!Arrive, Promise!Close
      <4> QED BY <4>3, <4>9, <4>10
    <3>4. CASE Exhausted \/ Reject \/ RejectNaN
      <4>1. /\ MeshInv' /\ UNCHANGED <<call, t0, t1, trace>>
            /\ \/ UNCHANGED <<running, nsteps, status>>
               \/ running' = FALSE /\ nsteps' = Len(steps) /\ status' = "CONVERGENCE_ERROR"
        BY <3>1, <3>4, OtherKeepsMesh
      <4>2. running /\ Len(trace) = Len(steps) + 1 /\ Len(steps) \in Nat
        <5>1. running
          BY <3>4 DEF Exhausted, Reject, RejectNaN, Trying
        <5> QED BY <3>1, <5>1, LenProperties DEF MeshInv, Recording, TypeOK
      <4>3. CASE UNCHANGED <<running, nsteps, status>>
        BY <4>1, <4>3 DEF Promise!vars
      <4>4. CASE running' = FALSE /\ nsteps' = Len(steps) /\ status' = "CONVERGENCE_ERROR"
        <5>1. Promise!Close("CONVERGENCE_ERROR")
          BY <4>1, <4>2, <4>4 DEF Promise!Close
        <5> QED BY <4>1, <4>2, <5>1 DEF Promise!Next, Promise!GiveUp
      <4> QED BY <4>1, <4>3, <4>4
    <3> QED BY <3>1, <3>2, <3>3, <3>4 DEF Next, Step
  <2>3. CASE Fill
    <3>1. /\ mode = "use" /\ scan = "idle" /\ kind = "none" /\ Promise!Next
          /\ UNCHANGED <<mode, internal, eventVars, replayVars>>
      BY <2>3 DEF Fill, Idle
    <3>2. CASE Promise!Advance \/ Promise!Arrive \/ Promise!Overlook \/ Promise!GiveUp
      BY <1>2, <3>1, <3>2, FillKeepsMesh
    <3>3. CASE \E a, b \in Times : Promise!Begin(a, b) \/ Promise!Refuse(a, b)
      BY <1>2, <3>1, <3>3, EnterKeepsMesh
    <3> QED BY <3>1, <3>2, <3>3 DEF Promise!Next
  <2>4. CASE Scan
    <3>1. mode = "use" /\ ~running /\ mode' = mode /\ UNCHANGED vars
      BY <2>4 DEF Scan
    <3> QED BY <1>2, <3>1, ReadersKeepMesh DEF vars, Promise!vars
  <2>5. CASE Sensitivity
    <3>1. mode = "use" /\ ~running /\ mode' = mode /\ UNCHANGED vars
      BY <2>5 DEF Sensitivity
    <3> QED BY <1>2, <3>1, ReadersKeepMesh DEF vars, Promise!vars
  <2> QED BY <1>2, <2>1, <2>2, <2>3, <2>4, <2>5 DEF TraceNext
<1> QED BY <1>1, <1>2

(* The trace is the mesh a sensitivity may replay: it starts at t0, runs      *)
(* strictly toward t1 without passing it, and every recorded step covers its  *)
(* interval up to the rounding of the clock; no more steps than the budget.   *)
(* A call that fails at t1 never tried to end there: its last step was        *)
(* shorter than the interval which the clock made of it.                      *)
THEOREM MeshCorrect == TraceSpec => []MeshInv
<1>1. TraceInit => MeshInv
  BY MeshInductive
<1>2. MeshInv /\ [TraceNext]_traceVars => MeshInv'
  BY MeshInductive
<1> QED BY <1>1, <1>2, PTL DEF TraceSpec

(* ode_integrate implements what it promises: over several calls with one     *)
(* solution object, with any sizes of steps and any number of rejections,     *)
(* every step is an accepted one short of t1, the final one with which the    *)
(* call succeeds, one that rounding carries onto t1 unnoticed, or the failure *)
(* with which a call that has not succeeded ends.                             *)
THEOREM IntegrateImplementsTrace == TraceSpec => ImplementsTrace
<1>1. TraceInit => Promise!Init
  BY DEF TraceInit, Init, Promise!Init
<1>2. MeshInv /\ [TraceNext]_traceVars => [Promise!Next]_(Promise!vars)
  BY MeshInductive
<1> QED BY <1>1, <1>2, MeshCorrect, PTL DEF TraceSpec, ImplementsTrace, Promise!Spec

-----------------------------------------------------------------------------
(* Event scans. *)

\* In the first n intervals g does not leave its sign in the wanted direction.
NoneAdmitted(n) ==
  \A i \in 1..n : gs[i] # 0 /\ gs[i + 1] # gs[i] => ~Events!Admits(-gs[i])

\* In the loop no interval so far has an admissible crossing; the scan ends
\* with the first one that has, or with the trace.
EventInv ==
  /\ Events!TypeOK
  /\ scan = "idle" => gs = <<>> /\ bracketStep = 0
  /\ scan = "loop" =>
       /\ ~found /\ 1 <= Len(gs) /\ Len(gs) < Len(trace)
       /\ NoneAdmitted(Len(gs) - 1)
  /\ scan = "done" /\ trace # <<>> =>
       \/ /\ found /\ 1 <= bracketStep /\ Len(gs) = bracketStep + 1
          /\ NoneAdmitted(bracketStep - 1)
          /\ gs[bracketStep] = -direction /\ gs[bracketStep + 1] # gs[bracketStep]
          /\ Events!Admits(direction) /\ tEvent \in Events!Inside(bracketStep)
       \/ ~found /\ Len(gs) \in {0, Len(trace)} /\ NoneAdmitted(Len(gs) - 1)

(* crossing_direction reports exactly the intervals in which g leaves its     *)
(* sign, in the direction away from it.                                      *)
LEMMA CrossingLeaves ==
  ASSUME NEW ga \in {-1, 0, 1}, NEW gb \in {-1, 0, 1}
  PROVE  /\ Events!Crossing(ga, gb) # 0 <=> ga # 0 /\ gb # ga
         /\ Events!Crossing(ga, gb) # 0 => Events!Crossing(ga, gb) = -ga
         /\ Events!Crossing(ga, gb) \in {-1, 0, 1}
<1>1. CASE ga < 0 /\ gb >= 0
  BY <1>1 DEF Events!Crossing, Events!RISING, Events!FALLING
<1>2. CASE ga > 0 /\ gb <= 0
  BY <1>2 DEF Events!Crossing, Events!RISING, Events!FALLING
<1>3. CASE ~(ga < 0 /\ gb >= 0) /\ ~(ga > 0 /\ gb <= 0)
  BY <1>3 DEF Events!Crossing, Events!RISING, Events!FALLING
<1> QED BY <1>1, <1>2, <1>3

(* An invariant scan has reported the first admissible crossing. *)
LEMMA EventInvFound == EventInv /\ MeshInv => Events!FirstEventFound
<1> SUFFICES ASSUME EventInv, MeshInv, scan = "done", trace # <<>>
             PROVE  /\ \A i, j \in 1..Len(gs) :
                         i < j /\ Events!Changes(i, j) /\ Events!Admits(gs[j]) =>
                           found /\ bracketStep <= i
                    /\ found =>
                         /\ gs[bracketStep] = -direction /\ gs[bracketStep + 1] # gs[bracketStep]
                         /\ Events!Admits(direction)
                         /\ tEvent \in Events!Inside(bracketStep)
                    /\ ~found => Len(gs) \in {0, Len(trace)}
  BY DEF Events!FirstEventFound
<1>1. gs \in Seq({-1, 0, 1}) /\ Len(gs) \in Nat /\ bracketStep \in Int
  BY LenProperties DEF EventInv, Events!TypeOK
<1>2. ASSUME NEW i \in 1..Len(gs), NEW j \in 1..Len(gs),
             i < j, Events!Changes(i, j), Events!Admits(gs[j])
      PROVE  found /\ bracketStep <= i
  <2>1. /\ gs[i] \in {-1, 0, 1} /\ gs[i] # 0 /\ gs[j] = -gs[i]
        /\ \A m \in i + 1..j - 1 : gs[m] = 0
    BY <1>1, <1>2, ElementOfSeq DEF Events!Changes
  <2>2. gs[i + 1] # gs[i]
    <3>1. CASE j = i + 1
      BY <2>1, <3>1
    <3>2. CASE i + 1 < j
      <4>1. i + 1 \in i + 1..j - 1
        BY <1>1, <3>2
      <4> QED BY <2>1, <4>1
    <3> QED BY <1>1, <1>2, <3>1, <3>2
  <2>3. \A n \in Int : NoneAdmitted(n) => ~(i \in 1..n)
    BY <1>2, <2>1, <2>2 DEF NoneAdmitted
  <2>4. CASE found
    <3>1. Len(gs) = bracketStep + 1 /\ NoneAdmitted(bracketStep - 1)
      BY <2>4 DEF EventInv
    <3>2. ~(i \in 1..bracketStep - 1)
      BY <1>1, <2>3, <3>1
    <3> QED BY <1>1, <1>2, <2>4, <3>2
  <2>5. CASE ~found
    <3>1. NoneAdmitted(Len(gs) - 1)
      BY <2>5 DEF EventInv
    <3>2. ~(i \in 1..Len(gs) - 1)
      BY <1>1, <2>3, <3>1
    <3> QED BY <1>1, <1>2, <3>2
  <2> QED BY <2>4, <2>5
<1> QED BY <1>2 DEF EventInv

(* One interval: the crossing in it ends the scan, or it has none to report. *)
LEMMA IntervalKeepsEvent ==
  ASSUME MeshInv, EventInv, NEW gb \in {-1, 0, 1}, Events!Interval(gb), trace' = trace
  PROVE  EventInv'
<1> DEFINE i == Len(gs)
           cross == Events!Crossing(Events!Last(gs), gb)
<1>1. /\ scan = "loop" /\ i < Len(trace) /\ gs' = Append(gs, gb) /\ wanted' = wanted
      /\ IF cross # 0 /\ Events!Admits(cross)
         THEN Events!Located(i, cross)
         ELSE /\ scan' = IF i + 1 = Len(trace) THEN "done" ELSE "loop"
              /\ UNCHANGED <<found, bracketStep, direction, tEvent, transversal, scanStatus>>
  BY DEF Events!Interval, Events!result
<1>2. /\ Events!TypeOK /\ ~found /\ 1 <= i /\ NoneAdmitted(i - 1)
      /\ gs \in Seq({-1, 0, 1}) /\ i \in Nat /\ trace \in Seq(Int) /\ Len(trace) \in Nat
  BY <1>1, LenProperties DEF EventInv, Events!TypeOK, MeshInv, TypeOK
<1>3. /\ gs' \in Seq({-1, 0, 1}) /\ Len(gs') = i + 1 /\ gs'[i + 1] = gb
      /\ \A m \in 1..i : gs'[m] = gs[m]
  BY <1>1, <1>2, AppendProperties
<1>4. Events!Last(gs) = gs[i] /\ gs[i] \in {-1, 0, 1}
  BY <1>2, ElementOfSeq DEF Events!Last
<1>5. /\ cross # 0 <=> gs[i] # 0 /\ gb # gs[i]
      /\ cross # 0 => cross = -gs[i]
      /\ cross \in {-1, 0, 1}
  BY <1>4, CrossingLeaves
<1>6. PICK n \in Nat : n = i
  BY <1>2
<1> HIDE DEF i, cross
<1>7. ASSUME NEW m \in 1..n, gs'[m] # 0, gs'[m + 1] # gs'[m],
             m < n \/ ~(cross # 0 /\ Events!Admits(cross))
      PROVE  ~(Events!Admits(-gs[m])') /\ gs'[m] = gs[m]
  <2>1. gs'[m] = gs[m]
    BY <1>3, <1>6
  <2>2. CASE m < n
    <3>1. m + 1 \in 1..i /\ m \in 1..i - 1
      BY <1>2, <1>6, <2>2
    <3>2. gs'[m + 1] = gs[m + 1]
      BY <1>3, <3>1
    <3>3. ~Events!Admits(-gs[m])
      BY <1>2, <1>7, <2>1, <3>1, <3>2 DEF NoneAdmitted
    <3> QED BY <1>1, <1>3, <2>1, <3>3 DEF Events!Admits
  <2>3. CASE m = n
    <3>1. gs[i] # 0 /\ gb # gs[i] /\ m = i
      BY <1>2, <1>3, <1>6, <1>7, <2>1, <2>3
    <3>2. ~Events!Admits(-gs[m])
      BY <1>5, <1>7, <2>3, <3>1
    <3> QED BY <1>1, <1>3, <2>1, <3>2 DEF Events!Admits
  <2> QED BY <1>6, <2>1, <2>2, <2>3
<1>8. CASE cross # 0 /\ Events!Admits(cross)
  <2>1. /\ found' = TRUE /\ bracketStep' = n /\ direction' = cross
        /\ tEvent' \in Events!Inside(n) /\ transversal' \in BOOLEAN
        /\ scanStatus' \in {"OK", "DOMAIN_ERROR"} /\ scan' = "done"
    BY <1>1, <1>6, <1>8 DEF Events!Located
  <2>2. Events!Inside(n) \subseteq Int
    <3>1. trace[n] \in Int /\ trace[n + 1] \in Int
      <4>1. n \in 1..Len(trace) /\ n + 1 \in 1..Len(trace)
        BY <1>1, <1>2, <1>6
      <4> QED BY <1>2, <4>1, ElementOfSeq
    <3> QED BY <3>1 DEF Events!Inside
  <2>3. Events!TypeOK'
    <3>1. wanted' \in {1, -1, 0} /\ direction' \in {1, -1, 0}
      BY <1>1, <1>2, <1>5, <2>1 DEF Events!TypeOK, Events!RISING, Events!FALLING, Events!ANY
    <3>2. Len(gs') <= Len(trace') /\ bracketStep' \in 0..Len(trace')
      BY <1>1, <1>2, <1>3, <1>6, <2>1
    <3>3. tEvent' \in Int /\ found' \in BOOLEAN
      BY <2>1, <2>2
    <3> QED BY <1>3, <2>1, <3>1, <3>2, <3>3
         DEF Events!TypeOK, Events!RISING, Events!FALLING, Events!ANY
  <2>4. NoneAdmitted(bracketStep - 1)'
    BY <1>7, <2>1 DEF NoneAdmitted
  <2>5. /\ gs'[n] = -direction' /\ gs'[n + 1] # gs'[n]
    BY <1>2, <1>3, <1>5, <1>6, <1>8, <2>1
  <2>6. Events!Admits(direction)'
    BY <1>1, <1>8, <2>1 DEF Events!Admits
  <2>7. (tEvent \in Events!Inside(bracketStep))'
    BY <2>1 DEF Events!Inside
  <2> QED BY <1>2, <1>3, <1>6, <2>1, <2>3, <2>4, <2>5, <2>6, <2>7 DEF EventInv
<1>9. CASE ~(cross # 0 /\ Events!Admits(cross))
  <2>1. /\ scan' = IF i + 1 = Len(trace) THEN "done" ELSE "loop"
        /\ UNCHANGED <<found, bracketStep, direction, tEvent, transversal, scanStatus>>
    BY <1>1, <1>9
  <2>2. Events!TypeOK'
    <3>1. Len(gs') <= Len(trace') /\ scan' \in {"loop", "done"}
      BY <1>1, <1>2, <1>3, <2>1
    <3> QED BY <1>1, <1>2, <1>3, <2>1, <3>1 DEF Events!TypeOK
  <2>3. NoneAdmitted(Len(gs) - 1)'
    <3>1. Len(gs') - 1 = n
      BY <1>2, <1>3, <1>6
    <3> QED BY <1>7, <1>9, <3>1 DEF NoneAdmitted
  <2>4. ~found' /\ 1 <= Len(gs') /\ (scan' = "loop" => Len(gs') < Len(trace')) /\ scan' # "idle"
    BY <1>1, <1>2, <1>3, <2>1
  <2>5. scan' = "done" => Len(gs') = Len(trace')
    BY <1>2, <1>3, <2>1
  <2> QED BY <2>2, <2>3, <2>4, <2>5 DEF EventInv
<1> QED BY <1>8, <1>9

(* Every other step of a scan, and every step while none runs. *)
LEMMA EventInductive ==
  /\ TraceInit => EventInv
  /\ MeshInv /\ EventInv /\ [TraceNext]_traceVars => EventInv'
<1> USE DEF Events!RISING, Events!FALLING, Events!ANY
<1>1. ASSUME TraceInit PROVE EventInv
  <2>1. /\ scan = "idle" /\ wanted = 0 /\ gs = <<>> /\ scanStatus = "OK"
        /\ found = FALSE /\ bracketStep = 0 /\ direction = 0 /\ tEvent = 0
        /\ transversal = FALSE /\ trace = <<>>
    BY <1>1 DEF TraceInit, Init, Events!Init
  <2>2. Len(<<>>) = 0 /\ <<>> \in Seq({-1, 0, 1})
    OBVIOUS
  <2>3. Events!TypeOK
    <3>1. Len(gs) <= Len(trace) /\ bracketStep \in 0..Len(trace) /\ gs \in Seq({-1, 0, 1})
      BY <2>1, <2>2
    <3>2. found \in BOOLEAN /\ transversal \in BOOLEAN
      BY <2>1
    <3>3. tEvent \in Int /\ direction \in {1, -1, 0} /\ wanted \in {1, -1, 0}
      BY <2>1
    <3> QED BY <2>1, <3>1, <3>2, <3>3 DEF Events!TypeOK
  <2> QED BY <2>1, <2>3 DEF EventInv
<1>2. ASSUME MeshInv, EventInv, Scan PROVE EventInv'
  <2>1. trace' = trace /\ ~running /\ Events!Next
    BY <1>2 DEF Scan, vars
  <2>2. trace \in Seq(Int) /\ Len(trace) \in Nat
    BY <1>2, LenProperties DEF MeshInv, TypeOK
  <2>3. CASE Events!Read
    <3>1. /\ scan' = "idle" /\ wanted' = 0 /\ gs' = <<>> /\ scanStatus' = "OK"
          /\ found' = FALSE /\ bracketStep' = 0 /\ direction' = 0 /\ tEvent' = 0
          /\ transversal' = FALSE
      BY <2>3 DEF Events!Read, Events!Cleared
    <3>2. Len(<<>>) = 0 /\ <<>> \in Seq({-1, 0, 1})
      OBVIOUS
    <3>3. Events!TypeOK'
      <4>1. Len(gs') <= Len(trace') /\ bracketStep' \in 0..Len(trace') /\ gs' \in Seq({-1, 0, 1})
        BY <2>1, <2>2, <3>1, <3>2
      <4>2. found' \in BOOLEAN /\ transversal' \in BOOLEAN
        BY <3>1
      <4>3. tEvent' \in Int /\ direction' \in {1, -1, 0} /\ wanted' \in {1, -1, 0}
        BY <3>1
      <4> QED BY <3>1, <4>1, <4>2, <4>3 DEF Events!TypeOK
    <3> QED BY <3>1, <3>3 DEF EventInv
  <2>4. ASSUME NEW dir \in {1, -1, 0}, Events!Begin(dir) PROVE EventInv'
    <3>1. /\ found' = FALSE /\ bracketStep' = 0 /\ direction' = 0 /\ tEvent' = 0
          /\ transversal' = FALSE /\ wanted' = dir
      BY <2>4 DEF Events!Begin, Events!Cleared
    <3>2. \/ /\ scan' = "done" /\ scanStatus' \in {"OK", "DOMAIN_ERROR"} /\ gs' = <<>>
          \/ /\ Len(trace) >= 2 /\ scan' = "loop" /\ scanStatus' = "OK"
             /\ \E g \in {-1, 0, 1} : gs' = <<g>>
      BY <2>4 DEF Events!Begin
    <3>3. CASE scan' = "done" /\ scanStatus' \in {"OK", "DOMAIN_ERROR"} /\ gs' = <<>>
      <4>1. Len(gs') = 0 /\ gs' \in Seq({-1, 0, 1})
        BY <3>3
      <4>2. Events!TypeOK'
        <5>1. Len(gs') <= Len(trace') /\ bracketStep' \in 0..Len(trace')
          BY <2>1, <2>2, <3>1, <3>3, <4>1
        <5>2. found' \in BOOLEAN /\ transversal' \in BOOLEAN
          BY <3>1
        <5>3. tEvent' \in Int /\ direction' \in {1, -1, 0} /\ wanted' \in {1, -1, 0}
          BY <3>1
        <5> QED BY <3>3, <4>1, <5>1, <5>2, <5>3 DEF Events!TypeOK
      <4>3. NoneAdmitted(Len(gs) - 1)'
        BY <4>1 DEF NoneAdmitted
      <4> QED BY <3>1, <3>3, <4>1, <4>2, <4>3 DEF EventInv
    <3>4. CASE /\ Len(trace) >= 2 /\ scan' = "loop" /\ scanStatus' = "OK"
               /\ \E g \in {-1, 0, 1} : gs' = <<g>>
      <4>1. Len(gs') = 1 /\ gs' \in Seq({-1, 0, 1})
        BY <3>4
      <4>2. Events!TypeOK'
        <5>1. Len(gs') <= Len(trace') /\ bracketStep' \in 0..Len(trace')
          BY <2>1, <2>2, <3>1, <3>4, <4>1
        <5>2. found' \in BOOLEAN /\ transversal' \in BOOLEAN
          BY <3>1
        <5>3. tEvent' \in Int /\ direction' \in {1, -1, 0} /\ wanted' \in {1, -1, 0}
          BY <3>1
        <5> QED BY <3>4, <4>1, <5>1, <5>2, <5>3 DEF Events!TypeOK
      <4>3. NoneAdmitted(Len(gs) - 1)'
        BY <4>1 DEF NoneAdmitted
      <4>4. Len(gs') < Len(trace')
        BY <2>1, <2>2, <3>4, <4>1
      <4> QED BY <3>1, <3>4, <4>1, <4>2, <4>3, <4>4 DEF EventInv
    <3> QED BY <3>2, <3>3, <3>4
  <2>5. ASSUME NEW gb \in {-1, 0, 1}, Events!Interval(gb) PROVE EventInv'
    BY <1>2, <2>1, <2>5, IntervalKeepsEvent
  <2> QED BY <2>1, <2>3, <2>4, <2>5 DEF Events!Next
<1>3. ASSUME MeshInv', EventInv, UNCHANGED eventVars, scan = "idle" \/ trace' = trace
      PROVE  EventInv'
  <2>1. /\ scan' = scan /\ wanted' = wanted /\ gs' = gs /\ found' = found
        /\ bracketStep' = bracketStep /\ direction' = direction /\ tEvent' = tEvent
        /\ transversal' = transversal /\ scanStatus' = scanStatus
    BY <1>3 DEF eventVars
  <2>2. CASE scan = "idle"
    <3>1. gs = <<>> /\ bracketStep = 0 /\ Events!TypeOK
      BY <1>3, <2>2 DEF EventInv
    <3>2. Len(trace') \in Nat
      BY <1>3, LenProperties DEF MeshInv, TypeOK
    <3>3. Len(gs') <= Len(trace') /\ bracketStep' \in 0..Len(trace')
      <4>1. Len(gs') = 0
        BY <2>1, <3>1
      <4> QED BY <2>1, <3>1, <3>2, <4>1
    <3>4. Events!TypeOK'
      BY <2>1, <3>1, <3>3 DEF Events!TypeOK
    <3> QED BY <2>1, <2>2, <3>1, <3>4 DEF EventInv
  <2>3. CASE trace' = trace
    BY <1>3, <2>1, <2>3
       DEF EventInv, Events!TypeOK, NoneAdmitted, Events!Admits, Events!Inside
  <2> QED BY <1>3, <2>2, <2>3
<1>4. ASSUME MeshInv, EventInv, [TraceNext]_traceVars PROVE EventInv'
  <2>1. MeshInv'
    BY <1>4, MeshInductive
  <2>2. CASE UNCHANGED traceVars
    BY <1>3, <1>4, <2>1, <2>2 DEF traceVars, vars
  <2>3. CASE Integrate
    <3>1. scan = "idle" /\ UNCHANGED eventVars
      BY <1>4, <2>3 DEF Integrate, MeshInv, Sequential
    <3> QED BY <1>3, <1>4, <2>1, <3>1
  <2>4. CASE Fill
    BY <1>3, <1>4, <2>1, <2>4 DEF Fill, Idle
  <2>5. CASE Sensitivity
    BY <1>3, <1>4, <2>1, <2>5 DEF Sensitivity
  <2> QED BY <1>2, <1>4, <2>2, <2>3, <2>4, <2>5 DEF TraceNext
<1> QED BY <1>1, <1>4

(* A change of sign of g on the mesh is reported once, in the first interval  *)
(* in which g leaves its old sign in the wanted direction, and the event lies *)
(* inside it; where nothing is reported g has not changed sign that way.      *)
THEOREM FirstEventCorrect == TraceSpec => []FirstEventFound
<1>1. TraceInit => EventInv
  BY EventInductive
<1>2. MeshInv /\ EventInv /\ [TraceNext]_traceVars => EventInv'
  BY EventInductive
<1>3. MeshInv /\ EventInv => FirstEventFound
  BY EventInvFound DEF FirstEventFound, TypesOK, MeshInv, EventInv
<1> QED BY <1>1, <1>2, <1>3, MeshCorrect, PTL DEF TraceSpec

-----------------------------------------------------------------------------
(* The checkpoints of ode_build_checkpoints. *)

\* Checkpoint steps run from 0 to the last step of the trace they were built
\* from, each strictly after the one before and at most a stride later.
CheckpointsSpan ==
  kept # Replay!Nothing =>
    /\ kept.nsteps \in Nat /\ kept.stride \in Nat
    /\ kept.step \in Seq(Nat) /\ Len(kept.step) >= 1
    /\ kept.step[1] = 0 /\ kept.step[Len(kept.step)] = kept.nsteps
    /\ \A c \in 1..Len(kept.step) - 1 :
         kept.step[c] < kept.step[c + 1] /\ kept.step[c + 1] <= kept.step[c] + kept.stride

(* n steps in pieces of at most s: one more than (n + s - 1) / s end points. *)
LEMMA Pieces ==
  ASSUME NEW n \in Nat, NEW s \in Nat, s >= 1
  PROVE  LET q == (n + s - 1) \div s
         IN  q \in Nat /\ n <= q * s /\ (q - 1) * s < n
<1> DEFINE q == (n + s - 1) \div s
<1>1. n + s - 1 \in Nat
  OBVIOUS
<1>2. q \in Int /\ q * s <= n + s - 1 /\ n + s - 1 < q * s + s
  BY <1>1, SMT
<1> HIDE DEF q
<1>3. (q - 1) * s = q * s - s
  BY <1>2, SMT
<1>4. q * s \in Int
  BY <1>2
<1>5. q >= 0
  <2>1. CASE q <= -1
    <3>1. q * s <= (-1) * s
      BY <1>2, <2>1, SMT
    <3> QED BY <1>2, <1>4, <3>1
  <2> QED BY <1>2, <2>1
<1>6. n <= q * s /\ (q - 1) * s < n
  BY <1>2, <1>3, <1>4
<1> QED BY <1>2, <1>5, <1>6 DEF q

(* Multiples of s grow by s and keep the order. *)
LEMMA Multiples ==
  ASSUME NEW s \in Nat, NEW a \in Int, NEW b \in Int, a <= b
  PROVE  a * s \in Int /\ b * s \in Int /\ a * s <= b * s /\ (a + 1) * s = a * s + s
BY SMT

(* What Build keeps spans the trace it was built from. *)
LEMMA BuildSpans ==
  ASSUME nsteps \in Nat, NEW s \in Strides, Replay!Build(s)
  PROVE  CheckpointsSpan'
<1>1. s \in Nat /\ s >= 1
  BY StridesAssumption DEF Replay!Build
<1> DEFINE n == nsteps
           q == (n + s - 1) \div s
           points == [c \in 1..q + 1 |-> Replay!Checkpoint(c, s)]
<1>2. q \in Nat /\ n <= q * s /\ (q - 1) * s < n
  BY <1>1, Pieces
<1>3. kept' = [nsteps |-> n, stride |-> s, step |-> points]
  <2>1. Replay!Count(s) = q + 1
    BY <1>2 DEF Replay!Count
  <2> QED BY <2>1 DEF Replay!Build
<1>4. ASSUME NEW c \in 1..q
      PROVE  Replay!Checkpoint(c, s) = (c - 1) * s /\ (c - 1) * s < n /\ (c - 1) * s \in Nat
  <2>1. (c - 1) * s <= (q - 1) * s /\ (c - 1) * s \in Int /\ (q - 1) * s \in Int
    BY <1>1, <1>2, Multiples
  <2>2. 0 * s <= (c - 1) * s
    BY <1>1, <1>2, Multiples
  <2>3. (c - 1) * s \in Nat /\ (c - 1) * s < n
    BY <1>1, <1>2, <2>1, <2>2
  <2> QED BY <2>3 DEF Replay!Checkpoint
<1>5. Replay!Checkpoint(q + 1, s) = n
  <2>1. (q + 1) - 1 = q /\ q * s \in Int
    BY <1>1, <1>2, Multiples
  <2> QED BY <1>2, <2>1 DEF Replay!Checkpoint
<1> HIDE DEF q
<1>6. points \in Seq(Nat) /\ Len(points) = q + 1 /\ DOMAIN points = 1..q + 1
  <2>1. \A c \in 1..q + 1 : Replay!Checkpoint(c, s) \in Nat
    <3> TAKE c \in 1..q + 1
    <3>1. c \in 1..q \/ c = q + 1
      BY <1>2
    <3> QED BY <1>4, <1>5, <3>1
  <2>2. points \in [1..q + 1 -> Nat]
    BY <2>1
  <2> QED BY <1>2, <2>2, SeqDef, LenProperties
<1>7. points[1] = 0 /\ points[q + 1] = n
  <2>1. CASE q = 0
    <3>1. n = 0
      BY <1>1, <1>2, <2>1
    <3> QED BY <1>2, <1>5, <2>1, <3>1
  <2>2. CASE q >= 1
    <3>1. points[1] = (1 - 1) * s
      BY <1>2, <1>4, <2>2
    <3> QED BY <1>1, <1>2, <1>5, <3>1
  <2> QED BY <1>2, <2>1, <2>2
<1>8. ASSUME NEW c \in 1..q
      PROVE  points[c] < points[c + 1] /\ points[c + 1] <= points[c] + s
  <2>1. points[c] = (c - 1) * s /\ (c - 1) * s < n /\ (c - 1) * s \in Nat
    BY <1>2, <1>4
  <2>2. c * s = (c - 1) * s + s
    <3>1. (c - 1) + 1 = c /\ c - 1 \in Int
      BY <1>2
    <3> QED BY <1>1, <3>1, Multiples
  <2>3. CASE c + 1 \in 1..q
    <3>1. points[c + 1] = c * s
      <4>1. (c + 1) - 1 = c
        BY <1>2
      <4> QED BY <1>2, <1>4, <2>3, <4>1
    <3> QED BY <1>1, <2>1, <2>2, <3>1
  <2>4. CASE c = q
    <3>1. points[c + 1] = n
      BY <1>5, <1>6, <2>4
    <3>2. n <= (c - 1) * s + s
      BY <1>2, <2>2, <2>4
    <3> QED BY <2>1, <3>1, <3>2
  <2> QED BY <1>2, <2>3, <2>4
<1>9. /\ kept'.nsteps = n /\ kept'.stride = s /\ kept'.step = points
  BY <1>3
<1> HIDE DEF points
<1> QED BY <1>1, <1>2, <1>6, <1>7, <1>8, <1>9 DEF CheckpointsSpan

-----------------------------------------------------------------------------
(* Sequences written as functions of the index. *)

(* A sequence of n + 1 members is its first n and the last one. *)
LEMMA AppendNext ==
  ASSUME NEW S, NEW n \in Nat, NEW f \in [1..n + 1 -> S]
  PROVE  /\ Append([i \in 1..n |-> f[i]], f[n + 1]) = f
         /\ [i \in 1..n |-> f[i]] \in Seq(S) /\ Len([i \in 1..n |-> f[i]]) = n
         /\ f \in Seq(S) /\ Len(f) = n + 1
<1> DEFINE g == [i \in 1..n |-> f[i]]
<1>1. \A i \in 1..n : f[i] \in S
  OBVIOUS
<1>2. g \in [1..n -> S]
  BY <1>1
<1>3. g \in Seq(S) /\ Len(g) = n /\ f \in Seq(S) /\ Len(f) = n + 1
  BY <1>2, SeqDef, LenProperties
<1>4. f[n + 1] \in S
  OBVIOUS
<1>5. /\ Append(g, f[n + 1]) \in Seq(S) /\ Len(Append(g, f[n + 1])) = n + 1
      /\ \A i \in 1..n : Append(g, f[n + 1])[i] = g[i]
      /\ Append(g, f[n + 1])[n + 1] = f[n + 1]
  BY <1>3, <1>4, AppendProperties
<1>6. \A i \in 1..n + 1 : Append(g, f[n + 1])[i] = f[i]
  <2> TAKE i \in 1..n + 1
  <2>1. CASE i \in 1..n
    BY <1>5, <2>1
  <2>2. CASE i = n + 1
    BY <1>5, <2>2
  <2> QED BY <2>1, <2>2
<1> HIDE DEF g
<1>7. Append(g, f[n + 1]) = f
  BY <1>3, <1>5, <1>6, SeqEqual
<1> QED BY <1>3, <1>7 DEF g

\* The first m steps, forward; the last m of n steps, backward; m states from a.
Forward(m) == [i \in 1..m |-> <<i, i - 1>>]
Backward(n, m) == [i \in 1..m |-> <<n + 1 - i, n - i>>]
StatesFrom(a, m) == [i \in 1..m |-> a + i - 1]

(* Each of them grows by the step or state that comes next. *)
LEMMA Grown ==
  ASSUME NEW n \in Int, NEW m \in Nat
  PROVE  /\ Append(Forward(m), <<m + 1, m>>) = Forward(m + 1)
         /\ Append(Backward(n, m), <<n - m, n - m - 1>>) = Backward(n, m + 1)
         /\ Append(StatesFrom(n, m), n + m) = StatesFrom(n, m + 1)
         /\ StatesFrom(n, m) \in Seq(Int) /\ Len(StatesFrom(n, m)) = m
<1>1. Append(Forward(m), <<m + 1, m>>) = Forward(m + 1)
  <2> DEFINE f == Forward(m + 1)
  <2>1. f \in [1..m + 1 -> Int \X Int]
    BY DEF Forward
  <2>2. Forward(m) = [i \in 1..m |-> f[i]] /\ f[m + 1] = <<m + 1, m>>
    BY DEF Forward
  <2> HIDE DEF f
  <2>3. Append([i \in 1..m |-> f[i]], f[m + 1]) = f
    BY <2>1, AppendNext
  <2> QED BY <2>2, <2>3 DEF f
<1>2. Append(Backward(n, m), <<n - m, n - m - 1>>) = Backward(n, m + 1)
  <2> DEFINE f == Backward(n, m + 1)
  <2>1. f \in [1..m + 1 -> Int \X Int]
    BY DEF Backward
  <2>2. Backward(n, m) = [i \in 1..m |-> f[i]] /\ f[m + 1] = <<n - m, n - m - 1>>
    BY DEF Backward
  <2> HIDE DEF f
  <2>3. Append([i \in 1..m |-> f[i]], f[m + 1]) = f
    BY <2>1, AppendNext
  <2> QED BY <2>2, <2>3 DEF f
<1>3. /\ Append(StatesFrom(n, m), n + m) = StatesFrom(n, m + 1)
      /\ StatesFrom(n, m) \in Seq(Int) /\ Len(StatesFrom(n, m)) = m
  <2> DEFINE f == StatesFrom(n, m + 1)
  <2>1. f \in [1..m + 1 -> Int]
    BY DEF StatesFrom
  <2>2. StatesFrom(n, m) = [i \in 1..m |-> f[i]] /\ f[m + 1] = n + m
    BY DEF StatesFrom
  <2> HIDE DEF f
  <2>3. /\ Append([i \in 1..m |-> f[i]], f[m + 1]) = f
        /\ [i \in 1..m |-> f[i]] \in Seq(Int) /\ Len([i \in 1..m |-> f[i]]) = m
    BY <2>1, AppendNext
  <2> QED BY <2>2, <2>3 DEF f
<1> QED BY <1>1, <1>2, <1>3

-----------------------------------------------------------------------------
(* Replays. *)

\* The tangent has linearised the steps before its own, forward.
JvpInv == step \in 1..nsteps + 1 /\ seen = Forward(step - 1)

\* The adjoints have linearised the steps after their own, backward.
VjpInv == step \in 0..nsteps /\ seen = Backward(nsteps, nsteps - step)

\* Recomputing has gone forward from the start, at most to the start of its step.
RecomputeInv ==
  \E m \in Nat : m >= 1 /\ (m = 1 \/ m <= step) /\ states = StatesFrom(0, m)

\* A replay from checkpoints stands in a segment of them, whose states it holds:
\* all of them once it goes back.
SegmentInv ==
  /\ kept # Replay!Nothing
  /\ step \in 0..kept.nsteps /\ seen = Backward(kept.nsteps, kept.nsteps - step)
  /\ segment \in 0..Len(kept.step) - 1
  /\ segment = 0 => step = 0 /\ states = <<>>
  /\ segment >= 1 =>
       /\ Replay!StartStep < step /\ step <= Replay!EndStep
       /\ \E m \in Nat :
            /\ 1 <= m /\ m <= Replay!EndStep - Replay!StartStep + 1
            /\ states = StatesFrom(Replay!StartStep, m)
            /\ step < Replay!EndStep => m = Replay!EndStep - Replay!StartStep + 1

ReplayInv ==
  /\ CheckpointsSpan
  /\ kind \in {"none", "jvp", "vjp", "segment", "recompute"}
  /\ kind = "jvp" => JvpInv
  /\ kind \in {"vjp", "recompute"} => VjpInv
  /\ kind = "recompute" => RecomputeInv
  /\ kind = "segment" => SegmentInv

(* The ends of a segment. *)
LEMMA SegmentEnds ==
  ASSUME CheckpointsSpan, kept # Replay!Nothing, segment \in 1..Len(kept.step) - 1
  PROVE  /\ Replay!StartStep \in Nat /\ Replay!EndStep \in Nat /\ kept.stride \in Nat
         /\ kept.nsteps \in Nat
         /\ Replay!StartStep < Replay!EndStep
         /\ Replay!EndStep <= Replay!StartStep + kept.stride
<1>1. kept.step \in Seq(Nat) /\ Len(kept.step) \in Nat
  BY LenProperties DEF CheckpointsSpan
<1>2. segment \in 1..Len(kept.step) /\ segment + 1 \in 1..Len(kept.step)
  BY <1>1
<1>3. kept.step[segment] \in Nat /\ kept.step[segment + 1] \in Nat
  BY <1>1, <1>2, ElementOfSeq
<1> QED BY <1>3 DEF CheckpointsSpan, Replay!StartStep, Replay!EndStep

(* The state recomputed last, and the one a step further. *)
LEMMA NextState ==
  ASSUME NEW a \in Int, NEW m \in Nat, m >= 1, states = StatesFrom(a, m)
  PROVE  /\ Replay!Last(states) = a + m - 1
         /\ \A j \in 1..m : states[j] = a + j - 1
         /\ Append(states, Replay!CashKarp(Replay!Last(states), a + m)) = StatesFrom(a, m + 1)
         /\ Len(states) = m
<1>1. Len(states) = m /\ states \in Seq(Int) /\ Append(states, a + m) = StatesFrom(a, m + 1)
  BY Grown
<1>2. \A j \in 1..m : states[j] = a + j - 1
  BY DEF StatesFrom
<1>3. m \in 1..m
  OBVIOUS
<1>4. Replay!Last(states) = a + m - 1
  BY <1>1, <1>2, <1>3 DEF Replay!Last
<1>5. Replay!CashKarp(Replay!Last(states), a + m) = a + m
  BY <1>4 DEF Replay!CashKarp
<1> QED BY <1>1, <1>2, <1>4, <1>5

(* A complete replay has linearised every step once, in order, at its state. *)
LEMMA ReplayInvExact == nsteps \in Nat /\ ReplayInv => Replay!ReplayIsExact
<1> SUFFICES ASSUME nsteps \in Nat, ReplayInv PROVE Replay!ReplayIsExact
  OBVIOUS
<1>1. CASE kind = "jvp"
  <2>1. Replay!Complete => step - 1 = nsteps
    BY <1>1 DEF ReplayInv, JvpInv, Replay!Complete
  <2>2. Replay!Complete => seen = [i \in 1..nsteps |-> <<i, i - 1>>]
    BY <1>1, <2>1 DEF ReplayInv, JvpInv, Forward
  <2> QED BY <1>1, <2>2 DEF Replay!ReplayIsExact
<1>2. CASE kind \in {"vjp", "recompute"}
  <2>1. Replay!Complete => nsteps - step = nsteps
    BY <1>2 DEF ReplayInv, VjpInv, Replay!Complete
  <2>2. Replay!Complete => seen = [i \in 1..nsteps |-> <<nsteps + 1 - i, nsteps - i>>]
    BY <1>2, <2>1 DEF ReplayInv, VjpInv, Backward
  <2> QED BY <1>2, <2>2 DEF Replay!ReplayIsExact
<1>3. CASE kind = "segment"
  <2>1. /\ SegmentInv /\ CheckpointsSpan
        /\ kept.nsteps \in Nat /\ kept.stride \in Nat /\ Len(kept.step) \in Nat
    BY <1>3, LenProperties DEF ReplayInv, SegmentInv, CheckpointsSpan
  <2>2. Replay!Complete => step = 0
    BY <1>3, <2>1 DEF SegmentInv, Replay!Complete
  <2>3. Replay!Complete =>
          seen = [i \in 1..kept.nsteps |-> <<kept.nsteps + 1 - i, kept.nsteps - i>>]
    <3>1. kept.nsteps - 0 = kept.nsteps
      BY <2>1
    <3> QED BY <2>1, <2>2, <3>1 DEF SegmentInv, Backward
  <2>4. Len(states) <= kept.stride + 1
    <3>1. CASE segment = 0
      <4>1. Len(states) = 0
        BY <2>1, <3>1 DEF SegmentInv
      <4> QED BY <2>1, <4>1
    <3>2. CASE segment >= 1
      <4>1. segment \in 1..Len(kept.step) - 1
        BY <2>1, <3>2 DEF SegmentInv
      <4>2. PICK m \in Nat : m <= Replay!EndStep - Replay!StartStep + 1
                             /\ states = StatesFrom(Replay!StartStep, m)
        BY <2>1, <3>2 DEF SegmentInv
      <4>3. /\ Replay!StartStep \in Nat /\ Replay!EndStep \in Nat
            /\ Replay!EndStep <= Replay!StartStep + kept.stride
        BY <2>1, <4>1, SegmentEnds DEF SegmentInv
      <4>4. Len(states) = m
        BY <4>2, <4>3, Grown
      <4> QED BY <2>1, <4>2, <4>3, <4>4
    <3> QED BY <2>1, <3>1, <3>2 DEF SegmentInv
  <2> QED BY <1>3, <2>3, <2>4 DEF Replay!ReplayIsExact
<1>4. CASE kind = "none"
  BY <1>4 DEF Replay!Complete, Replay!ReplayIsExact
<1> QED BY <1>1, <1>2, <1>3, <1>4 DEF ReplayInv

(* The tangent goes one step forward. *)
LEMMA JvpKeepsReplay ==
  ASSUME nsteps \in Nat, ReplayInv, Replay!Jvp, nsteps' = nsteps
  PROVE  ReplayInv'
<1>1. /\ kind = "jvp" /\ step <= nsteps /\ seen' = Append(seen, <<step, step - 1>>)
      /\ step' = step + 1 /\ UNCHANGED <<kept, kind, segment, states>>
  BY DEF Replay!Jvp, Replay!Linearise
<1>2. step \in 1..nsteps + 1 /\ seen = Forward(step - 1)
  BY <1>1 DEF ReplayInv, JvpInv
<1>3. PICK m \in Nat : m = step - 1
  BY <1>2
<1>4. seen' = Append(Forward(m), <<m + 1, m>>) /\ step' - 1 = m + 1
  BY <1>1, <1>2, <1>3
<1>5. seen' = Forward(m + 1)
  <2>1. 0 \in Int
    OBVIOUS
  <2>2. Append(Forward(m), <<m + 1, m>>) = Forward(m + 1)
    BY <2>1, Grown
  <2> QED BY <1>4, <2>2
<1>6. JvpInv'
  <2>1. step' \in 1..nsteps' + 1
    BY <1>1, <1>2
  <2>2. Forward(m + 1) = Forward(step' - 1)
    BY <1>4
  <2> QED BY <1>5, <2>1, <2>2 DEF JvpInv, Forward
<1> QED BY <1>1, <1>6 DEF ReplayInv, CheckpointsSpan

(* An adjoint on recorded states goes one step back. *)
LEMMA VjpKeepsReplay ==
  ASSUME nsteps \in Nat, ReplayInv, kind \in {"vjp", "recompute"}, step >= 1,
         Replay!Linearise(step, step - 1), step' = step - 1, nsteps' = nsteps
  PROVE  VjpInv'
<1>1. step \in 0..nsteps /\ seen = Backward(nsteps, nsteps - step)
  BY DEF ReplayInv, VjpInv
<1>2. PICK n \in Nat, m \in Nat : n = nsteps /\ m = nsteps - step
  BY <1>1
<1>3. step = n - m /\ step - 1 = n - m - 1 /\ nsteps' - step' = m + 1
  BY <1>1, <1>2
<1>4. seen' = Append(Backward(n, m), <<n - m, n - m - 1>>)
  BY <1>1, <1>2, <1>3 DEF Replay!Linearise
<1>5. seen' = Backward(n, m + 1)
  <2>1. n \in Int
    OBVIOUS
  <2>2. Append(Backward(n, m), <<n - m, n - m - 1>>) = Backward(n, m + 1)
    BY <2>1, Grown
  <2> QED BY <1>4, <2>2
<1>6. step' \in 0..nsteps'
  BY <1>1
<1> QED BY <1>2, <1>3, <1>5, <1>6 DEF VjpInv, Backward

(* Recomputing: one step forward, or one back at the state reached. *)
LEMMA RecomputeKeepsReplay ==
  ASSUME nsteps \in Nat, ReplayInv, Replay!Recompute, nsteps' = nsteps
  PROVE  ReplayInv'
<1>1. kind = "recompute" /\ step >= 1 /\ UNCHANGED <<kept, kind, segment>>
  BY DEF Replay!Recompute
<1>2. VjpInv /\ RecomputeInv /\ CheckpointsSpan /\ step \in 1..nsteps
  BY <1>1 DEF ReplayInv, VjpInv
<1>3. PICK m \in Nat : m >= 1 /\ (m = 1 \/ m <= step) /\ states = StatesFrom(0, m)
  BY <1>2 DEF RecomputeInv
<1>4. /\ Replay!Last(states) = m - 1 /\ Len(states) = m
      /\ Append(states, Replay!CashKarp(Replay!Last(states), Len(states))) = StatesFrom(0, m + 1)
  <2>1. 0 \in Int /\ 0 + m = m /\ 0 + m - 1 = m - 1
    OBVIOUS
  <2> QED BY <1>3, <2>1, NextState
<1>5. CASE Len(states) < step
  <2>1. states' = StatesFrom(0, m + 1) /\ UNCHANGED <<step, seen>>
    BY <1>4, <1>5 DEF Replay!Recompute
  <2>2. RecomputeInv'
    <3>1. m + 1 \in Nat /\ m + 1 >= 1 /\ m + 1 <= step'
      BY <1>2, <1>4, <1>5, <2>1
    <3>2. states' = StatesFrom(0, m + 1)
      BY <2>1
    <3> QED BY <3>1, <3>2 DEF RecomputeInv, StatesFrom
  <2>3. VjpInv'
    BY <1>2, <2>1 DEF VjpInv, Backward
  <2> QED BY <1>1, <1>2, <2>2, <2>3 DEF ReplayInv, CheckpointsSpan
<1>6. CASE ~(Len(states) < step)
  <2>1. m = step
    BY <1>2, <1>3, <1>4, <1>6
  <2>2. Replay!Linearise(step, step - 1) /\ step' = step - 1 /\ states' = <<0>>
    BY <1>4, <1>6, <2>1 DEF Replay!Recompute
  <2>3. VjpInv'
    BY <1>1, <2>2, VjpKeepsReplay
  <2>4. RecomputeInv'
    <3>1. states' = StatesFrom(0, 1)
      <4>1. StatesFrom(0, 1) \in Seq(Int) /\ Len(StatesFrom(0, 1)) = 1 /\ StatesFrom(0, 1)[1] = 0
        BY Grown DEF StatesFrom
      <4>2. <<0>> \in Seq(Int) /\ Len(<<0>>) = 1 /\ <<0>>[1] = 0
        OBVIOUS
      <4>3. \A i \in 1..1 : StatesFrom(0, 1)[i] = <<0>>[i]
        BY <4>1, <4>2
      <4> QED BY <2>2, <4>1, <4>2, <4>3, SeqEqual
    <3> QED BY <3>1 DEF RecomputeInv, StatesFrom
  <2> QED BY <1>1, <1>2, <2>3, <2>4 DEF ReplayInv, CheckpointsSpan
<1> QED BY <1>5, <1>6
(* A segment forward: one more state from its checkpoint. *)
LEMMA SegmentForwardKeepsReplay ==
  ASSUME ReplayInv, Replay!SegmentForward
  PROVE  ReplayInv'
<1>1. /\ kind = "segment" /\ segment >= 1 /\ step = Replay!EndStep
      /\ Len(states) <= Replay!EndStep - Replay!StartStep
      /\ states' = Append(states, Replay!CashKarp(Replay!Last(states), Replay!StartStep + Len(states)))
      /\ UNCHANGED <<kept, kind, segment, step, seen>>
  BY DEF Replay!SegmentForward
<1>2. SegmentInv /\ CheckpointsSpan /\ Len(kept.step) \in Nat /\ kept # Replay!Nothing
  BY <1>1, LenProperties DEF ReplayInv, SegmentInv, CheckpointsSpan
<1>3. segment \in 1..Len(kept.step) - 1
  BY <1>1, <1>2 DEF SegmentInv
<1>4. Replay!StartStep \in Nat /\ Replay!EndStep \in Nat
  BY <1>2, <1>3, SegmentEnds
<1>5. PICK m \in Nat : 1 <= m /\ states = StatesFrom(Replay!StartStep, m)
  BY <1>1, <1>2 DEF SegmentInv
<1>6. PICK a \in Nat : a = Replay!StartStep
  BY <1>4
<1>7. Len(states) = m /\ states' = StatesFrom(a, m + 1)
  <2>1. a \in Int
    OBVIOUS
  <2> QED BY <1>1, <1>5, <1>6, <2>1, NextState
<1>8. m + 1 \in Nat /\ 1 <= m + 1 /\ m + 1 <= Replay!EndStep - Replay!StartStep + 1
  BY <1>1, <1>4, <1>7
<1>9. Replay!StartStep' = a /\ Replay!EndStep' = Replay!EndStep
  BY <1>1, <1>6 DEF Replay!StartStep, Replay!EndStep
<1>10. SegmentInv'
  <2>1. \E k \in Nat :
          /\ 1 <= k /\ k <= Replay!EndStep' - Replay!StartStep' + 1
          /\ states' = StatesFrom(a, k)
          /\ step' < Replay!EndStep' => k = Replay!EndStep' - Replay!StartStep' + 1
    <3>1. ~(step' < Replay!EndStep')
      BY <1>1, <1>4, <1>9
    <3> QED BY <1>6, <1>7, <1>8, <1>9, <3>1
  <2>2. Replay!StartStep' < step' /\ step' <= Replay!EndStep'
    BY <1>1, <1>2, <1>6, <1>9 DEF SegmentInv
  <2>3. \A k \in Nat : StatesFrom(a, k) = StatesFrom(Replay!StartStep, k)'
    BY <1>9 DEF StatesFrom
  <2> QED BY <1>1, <1>2, <2>1, <2>2, <2>3 DEF SegmentInv, Backward
<1> QED BY <1>1, <1>2, <1>10 DEF ReplayInv, CheckpointsSpan

(* A segment backward: one step, and at its start the segment before it. *)
LEMMA SegmentBackKeepsReplay ==
  ASSUME ReplayInv, Replay!SegmentBack
  PROVE  ReplayInv'
<1>1. /\ kind = "segment" /\ segment >= 1
      /\ Len(states) = Replay!EndStep - Replay!StartStep + 1
      /\ seen' = Append(seen, <<step, states[Replay!Local]>>) /\ step' = step - 1
      /\ IF step - 1 = Replay!StartStep
         THEN /\ segment' = segment - 1
              /\ states' = IF segment > 1 THEN <<kept.step[segment - 1]>> ELSE <<>>
         ELSE UNCHANGED <<segment, states>>
      /\ UNCHANGED <<kept, kind>>
  BY DEF Replay!SegmentBack, Replay!Linearise
<1>2. /\ SegmentInv /\ CheckpointsSpan /\ Len(kept.step) \in Nat /\ kept # Replay!Nothing
      /\ kept.nsteps \in Nat
  BY <1>1, LenProperties DEF ReplayInv, SegmentInv, CheckpointsSpan
<1>3. segment \in 1..Len(kept.step) - 1
  BY <1>1, <1>2 DEF SegmentInv
<1>4. /\ Replay!StartStep \in Nat /\ Replay!EndStep \in Nat
      /\ Replay!StartStep < step /\ step <= Replay!EndStep /\ step \in 0..kept.nsteps
  BY <1>1, <1>2, <1>3, SegmentEnds DEF SegmentInv
<1>5. PICK m \in Nat : 1 <= m /\ states = StatesFrom(Replay!StartStep, m)
  BY <1>1, <1>2 DEF SegmentInv
<1>6. PICK a \in Nat, e \in Nat, n \in Nat :
        a = Replay!StartStep /\ e = Replay!EndStep /\ n = kept.nsteps
  BY <1>2, <1>4
<1>7. m = e - a + 1 /\ (\A j \in 1..m : states[j] = a + j - 1)
  <2>1. a \in Int
    OBVIOUS
  <2> QED BY <1>1, <1>5, <1>6, <2>1, NextState
<1>8. states[Replay!Local] = step - 1
  <2>1. Replay!Local \in 1..m /\ Replay!Local = step - a
    BY <1>4, <1>6, <1>7 DEF Replay!Local
  <2> QED BY <1>4, <1>6, <1>7, <2>1
<1>9. seen' = Backward(n, n - step')
  <2>1. PICK k \in Nat : k = n - step
    BY <1>4, <1>6
  <2>2. seen = Backward(n, k) /\ step = n - k /\ step - 1 = n - k - 1 /\ n - step' = k + 1
    <3>1. seen = Backward(kept.nsteps, kept.nsteps - step)
      BY <1>2 DEF SegmentInv
    <3>2. seen = Backward(n, k)
      BY <1>6, <2>1, <3>1
    <3>3. step = n - k /\ step - 1 = n - k - 1 /\ n - step' = k + 1
      <4>1. step \in Int /\ step' = step - 1
        BY <1>1, <1>2 DEF SegmentInv
      <4> QED BY <2>1, <4>1
    <3> QED BY <3>2, <3>3
  <2>3. n \in Int
    OBVIOUS
  <2>4. Append(Backward(n, k), <<n - k, n - k - 1>>) = Backward(n, k + 1)
    BY <2>3, Grown
  <2> QED BY <1>1, <1>8, <2>2, <2>4
<1>10. step' \in 0..n
  BY <1>1, <1>4, <1>6
<1>11. CASE step - 1 # Replay!StartStep
  <2>1. UNCHANGED <<kept, kind, segment, states>>
    BY <1>1, <1>11
  <2>2. Replay!StartStep' = a /\ Replay!EndStep' = e
    BY <1>6, <2>1 DEF Replay!StartStep, Replay!EndStep
  <2>3. a < step' /\ step' <= e
    BY <1>1, <1>4, <1>6, <1>11
  <2>4. states' = StatesFrom(a, m)
    BY <1>5, <1>6, <2>1
  <2>5. SegmentInv'
    <3>1. 1 <= m /\ m <= e - a + 1 /\ m = e - a + 1
      BY <1>5, <1>7
    <3>2. kept'.nsteps = n /\ kept' # Replay!Nothing
      BY <1>2, <1>6, <2>1
    <3>3. segment' >= 1 /\ segment' \in 0..Len(kept'.step) - 1
      BY <1>3, <2>1
    <3>4. ~(segment' = 0)
      BY <3>3
    <3>5. \E k \in Nat :
            /\ 1 <= k /\ k <= Replay!EndStep' - Replay!StartStep' + 1
            /\ states' = StatesFrom(Replay!StartStep, k)'
            /\ step' < Replay!EndStep' => k = Replay!EndStep' - Replay!StartStep' + 1
      <4>1. StatesFrom(a, m) = StatesFrom(Replay!StartStep, m)'
        BY <2>2 DEF StatesFrom
      <4> QED BY <2>2, <2>4, <3>1, <4>1
    <3>6. seen' = Backward(kept'.nsteps, kept'.nsteps - step')
      BY <1>9, <3>2
    <3> QED BY <1>10, <2>2, <2>3, <3>2, <3>3, <3>4, <3>5, <3>6 DEF SegmentInv, Backward
  <2> QED BY <1>1, <1>2, <2>1, <2>5 DEF ReplayInv, CheckpointsSpan
<1>12. CASE step - 1 = Replay!StartStep
  <2>1. /\ UNCHANGED <<kept, kind>> /\ segment' = segment - 1
        /\ states' = IF segment > 1 THEN <<kept.step[segment - 1]>> ELSE <<>>
        /\ step' = a
    BY <1>1, <1>4, <1>6, <1>12
  <2>2. seen' = Backward(kept'.nsteps, kept'.nsteps - step') /\ kept' # Replay!Nothing
        /\ step' \in 0..kept'.nsteps /\ segment' \in 0..Len(kept'.step) - 1
    BY <1>2, <1>3, <1>6, <1>9, <1>10, <2>1
  <2>3. CASE segment = 1
    <3>1. a = 0
      BY <1>2, <1>6, <2>3 DEF CheckpointsSpan, Replay!StartStep
    <3>2. segment' = 0 /\ step' = 0 /\ states' = <<>>
      BY <2>1, <2>3, <3>1
    <3>3. SegmentInv'
      BY <2>2, <3>2 DEF SegmentInv, Backward
    <3> QED BY <1>1, <1>2, <2>1, <3>3 DEF ReplayInv, CheckpointsSpan
  <2>4. CASE segment > 1
    <3>1. segment' >= 1 /\ segment' + 1 = segment /\ segment - 1 \in 1..Len(kept.step) - 1
      BY <1>3, <2>1, <2>4
    <3>2. Replay!StartStep' = kept.step[segment - 1] /\ Replay!EndStep' = a
      BY <1>6, <2>1, <3>1 DEF Replay!StartStep, Replay!EndStep
    <3>3. kept.step[segment - 1] < kept.step[(segment - 1) + 1] /\ (segment - 1) + 1 = segment
      <4>1. \A c \in 1..Len(kept.step) - 1 : kept.step[c] < kept.step[c + 1]
        BY <1>2 DEF CheckpointsSpan
      <4>2. (segment - 1) + 1 = segment
        BY <1>3
      <4> QED BY <3>1, <4>1, <4>2
    <3>4. PICK b \in Nat : b = kept.step[segment - 1]
      <4>1. segment - 1 \in 1..Len(kept.step) /\ kept.step \in Seq(Nat)
        BY <1>2, <3>1 DEF CheckpointsSpan
      <4> QED BY <4>1, ElementOfSeq
    <3>5. b < a
      BY <1>6, <3>3, <3>4 DEF Replay!StartStep
    <3>6. states' = StatesFrom(b, 1)
      <4>1. states' = <<b>> /\ b \in Int
        BY <2>1, <2>4, <3>4
      <4>2. StatesFrom(b, 1) \in Seq(Int) /\ Len(StatesFrom(b, 1)) = 1 /\ StatesFrom(b, 1)[1] = b
        BY <4>1, Grown DEF StatesFrom
      <4>3. <<b>> \in Seq(Int) /\ Len(<<b>>) = 1 /\ <<b>>[1] = b
        BY <4>1
      <4>4. \A i \in 1..1 : StatesFrom(b, 1)[i] = <<b>>[i]
        BY <4>2, <4>3
      <4> QED BY <4>1, <4>2, <4>3, <4>4, SeqEqual
    <3>7. SegmentInv'
      <4>1. ~(segment' = 0)
        BY <3>1
      <4>2. \E k \in Nat :
              /\ 1 <= k /\ k <= Replay!EndStep' - Replay!StartStep' + 1
              /\ states' = StatesFrom(Replay!StartStep, k)'
              /\ step' < Replay!EndStep' => k = Replay!EndStep' - Replay!StartStep' + 1
        <5>1. StatesFrom(b, 1) = StatesFrom(Replay!StartStep, 1)'
          BY <3>2, <3>4 DEF StatesFrom
        <5>2. 1 <= 1 /\ 1 <= a - b + 1 /\ ~(step' < a)
          BY <2>1, <3>5
        <5> QED BY <3>2, <3>4, <3>6, <5>1, <5>2
      <4>3. Replay!StartStep' < step' /\ step' <= Replay!EndStep'
        BY <2>1, <3>2, <3>4, <3>5
      <4> QED BY <2>2, <3>1, <4>1, <4>2, <4>3 DEF SegmentInv, Backward
    <3> QED BY <1>1, <1>2, <2>1, <3>7 DEF ReplayInv, CheckpointsSpan
  <2> QED BY <1>3, <2>3, <2>4
<1> QED BY <1>11, <1>12
(* A replay begins, with nothing linearised yet. *)
LEMMA BeginKeepsReplay ==
  ASSUME nsteps \in Nat, ReplayInv, nsteps' = nsteps,
         Replay!BeginJvp \/ Replay!BeginVjp \/ Replay!BeginRecompute \/ Replay!BeginSegments
  PROVE  ReplayInv'
<1>0. CheckpointsSpan' /\ seen' = <<>> /\ kept' = kept
  <2>1. seen' = <<>> /\ kept' = kept
    BY DEF Replay!BeginJvp, Replay!BeginVjp, Replay!BeginRecompute, Replay!BeginSegments,
           Replay!Start
  <2> QED BY <2>1 DEF ReplayInv, CheckpointsSpan
<1>1. Forward(0) = <<>> /\ \A n \in Int : Backward(n, 0) = <<>>
  <2>1. 1..0 = {}
    OBVIOUS
  <2>2. Forward(0) = <<>>
    BY <2>1 DEF Forward
  <2>3. \A n \in Int : Backward(n, 0) = <<>>
    BY <2>1 DEF Backward
  <2> QED BY <2>2, <2>3
<1>2. CASE Replay!BeginJvp
  <2>1. kind' = "jvp" /\ step' = 1
    BY <1>2 DEF Replay!BeginJvp, Replay!Start
  <2>2. JvpInv'
    <3>1. step' - 1 = 0 /\ step' \in 1..nsteps' + 1
      BY <2>1
    <3> QED BY <1>0, <1>1, <3>1 DEF JvpInv, Forward
  <2> QED BY <1>0, <2>1, <2>2 DEF ReplayInv
<1>3. ASSUME step' = nsteps PROVE VjpInv'
  <2>1. nsteps' - step' = 0 /\ step' \in 0..nsteps'
    BY <1>3
  <2>2. Backward(nsteps, 0) = <<>>
    BY <1>1
  <2> QED BY <1>0, <2>1, <2>2 DEF VjpInv, Backward
<1>4. CASE Replay!BeginVjp
  <2>1. kind' = "vjp" /\ step' = nsteps
    BY <1>4 DEF Replay!BeginVjp, Replay!Start
  <2> QED BY <1>0, <1>3, <2>1 DEF ReplayInv
<1>5. ASSUME NEW a \in Int PROVE <<a>> = StatesFrom(a, 1)
  <2>1. StatesFrom(a, 1) \in Seq(Int) /\ Len(StatesFrom(a, 1)) = 1 /\ StatesFrom(a, 1)[1] = a
    BY Grown DEF StatesFrom
  <2>2. <<a>> \in Seq(Int) /\ Len(<<a>>) = 1 /\ <<a>>[1] = a
    OBVIOUS
  <2>3. \A i \in 1..1 : StatesFrom(a, 1)[i] = <<a>>[i]
    BY <2>1, <2>2
  <2> QED BY <2>1, <2>2, <2>3, SeqEqual
<1>6. CASE Replay!BeginRecompute
  <2>1. kind' = "recompute" /\ step' = nsteps /\ states' = <<0>>
    BY <1>6 DEF Replay!BeginRecompute, Replay!Start
  <2>2. RecomputeInv'
    <3>1. states' = StatesFrom(0, 1)
      BY <1>5, <2>1
    <3> QED BY <3>1 DEF RecomputeInv, StatesFrom
  <2> QED BY <1>0, <1>3, <2>1, <2>2 DEF ReplayInv
<1>7. CASE Replay!BeginSegments
  <2>1. /\ kept # Replay!Nothing /\ kind' = "segment" /\ step' = kept.nsteps
        /\ segment' = Len(kept.step) - 1
        /\ states' = IF segment' > 0 THEN <<kept.step[segment']>> ELSE <<>>
    BY <1>7 DEF Replay!BeginSegments, Replay!Start
  <2>2. /\ kept.nsteps \in Nat /\ kept.step \in Seq(Nat) /\ Len(kept.step) \in Nat
        /\ Len(kept.step) >= 1 /\ kept.step[1] = 0
        /\ kept.step[Len(kept.step)] = kept.nsteps
        /\ \A c \in 1..Len(kept.step) - 1 : kept.step[c] < kept.step[c + 1]
    BY <2>1, LenProperties DEF ReplayInv, CheckpointsSpan
  <2>3. seen' = Backward(kept'.nsteps, kept'.nsteps - step')
    <3>1. kept'.nsteps - step' = 0
      BY <1>0, <2>1, <2>2
    <3> QED BY <1>0, <1>1, <2>2, <3>1
  <2>4. step' \in 0..kept'.nsteps /\ segment' \in 0..Len(kept'.step) - 1 /\ kept' # Replay!Nothing
    BY <1>0, <2>1, <2>2
  <2>5. CASE Len(kept.step) = 1
    <3>1. segment' = 0 /\ step' = 0 /\ states' = <<>>
      BY <2>1, <2>2, <2>5
    <3>2. SegmentInv'
      BY <2>3, <2>4, <3>1 DEF SegmentInv, Backward
    <3> QED BY <1>0, <2>1, <3>2 DEF ReplayInv
  <2>6. CASE Len(kept.step) > 1
    <3>1. PICK c \in Nat : c = segment'
      BY <2>1, <2>2
    <3>2. c \in 1..Len(kept.step) - 1 /\ c + 1 = Len(kept.step) /\ c >= 1
      BY <2>1, <2>2, <2>6, <3>1
    <3>3. PICK a \in Nat, e \in Nat : a = kept.step[c] /\ e = kept.step[c + 1]
      <4>1. c \in 1..Len(kept.step) /\ c + 1 \in 1..Len(kept.step)
        BY <2>2, <3>2
      <4> QED BY <2>2, <4>1, ElementOfSeq
    <3>4. a < e /\ step' = e
      BY <2>1, <2>2, <3>2, <3>3
    <3>5. Replay!StartStep' = a /\ Replay!EndStep' = e
      BY <1>0, <3>1, <3>3 DEF Replay!StartStep, Replay!EndStep
    <3>6. states' = StatesFrom(a, 1)
      <4>1. states' = <<a>>
        BY <2>1, <3>1, <3>2, <3>3
      <4> QED BY <1>5, <4>1
    <3>7. SegmentInv'
      <4>1. ~(segment' = 0)
        BY <3>1, <3>2
      <4>2. \E k \in Nat :
              /\ 1 <= k /\ k <= Replay!EndStep' - Replay!StartStep' + 1
              /\ states' = StatesFrom(Replay!StartStep, k)'
              /\ step' < Replay!EndStep' => k = Replay!EndStep' - Replay!StartStep' + 1
        <5>1. StatesFrom(a, 1) = StatesFrom(Replay!StartStep, 1)'
          BY <3>5 DEF StatesFrom
        <5>2. 1 <= 1 /\ 1 <= e - a + 1 /\ ~(step' < e)
          BY <3>4
        <5> QED BY <3>5, <3>6, <5>1, <5>2
      <4>3. Replay!StartStep' < step' /\ step' <= Replay!EndStep'
        BY <3>4, <3>5
      <4> QED BY <2>3, <2>4, <4>1, <4>2, <4>3 DEF SegmentInv, Backward
    <3> QED BY <1>0, <2>1, <3>7 DEF ReplayInv
  <2>7. Len(kept.step) = 1 \/ Len(kept.step) > 1
    <3>1. \A k \in Nat : k >= 1 => k = 1 \/ k > 1
      OBVIOUS
    <3> QED BY <2>2, <3>1, Zenon
  <2> QED BY <2>5, <2>6, <2>7
<1> QED BY <1>2, <1>4, <1>6, <1>7

(* Every step of a replay, and every step while none runs. *)
LEMMA ReplayInductive ==
  /\ TraceInit => ReplayInv
  /\ MeshInv /\ ReplayInv /\ [TraceNext]_traceVars => ReplayInv'
<1>1. ASSUME TraceInit PROVE ReplayInv
  <2>1. kept = Replay!Nothing /\ kind = "none"
    BY <1>1 DEF TraceInit, Replay!Init
  <2> QED BY <2>1 DEF ReplayInv, CheckpointsSpan
<1>2. ASSUME MeshInv, ReplayInv, Sensitivity PROVE ReplayInv'
  <2>1. nsteps' = nsteps /\ Replay!Next /\ nsteps \in Nat
    BY <1>2, Bounds DEF Sensitivity, vars, MeshInv, TypeOK
  <2>2. ASSUME NEW stride \in Strides, Replay!Build(stride) \/ Replay!RefuseStride(stride)
        PROVE  ReplayInv'
    <3>1. kind' = "none"
      BY <2>2 DEF Replay!Build, Replay!RefuseStride
    <3>2. CASE Replay!Build(stride)
      BY <2>1, <3>1, <3>2, BuildSpans DEF ReplayInv
    <3>3. CASE Replay!RefuseStride(stride)
      BY <3>1, <3>3 DEF ReplayInv, CheckpointsSpan, Replay!RefuseStride
    <3> QED BY <2>2, <3>2, <3>3
  <2>3. CASE Replay!BeginJvp \/ Replay!BeginVjp \/ Replay!BeginRecompute \/ Replay!BeginSegments
    BY <1>2, <2>1, <2>3, BeginKeepsReplay
  <2>4. CASE Replay!Jvp
    BY <1>2, <2>1, <2>4, JvpKeepsReplay
  <2>5. CASE Replay!Vjp
    <3>1. /\ kind = "vjp" /\ step >= 1 /\ Replay!Linearise(step, step - 1) /\ step' = step - 1
          /\ UNCHANGED <<kept, kind, segment, states>>
      BY <2>5 DEF Replay!Vjp
    <3>2. VjpInv'
      BY <1>2, <2>1, <3>1, VjpKeepsReplay
    <3> QED BY <1>2, <3>1, <3>2 DEF ReplayInv, CheckpointsSpan
  <2>6. CASE Replay!Recompute
    BY <1>2, <2>1, <2>6, RecomputeKeepsReplay
  <2>7. CASE Replay!SegmentForward
    BY <1>2, <2>7, SegmentForwardKeepsReplay
  <2>8. CASE Replay!SegmentBack
    BY <1>2, <2>8, SegmentBackKeepsReplay
  <2>9. CASE Replay!End
    <3>1. kind' = "none" /\ kept' = kept
      BY <2>9 DEF Replay!End
    <3> QED BY <1>2, <3>1 DEF ReplayInv, CheckpointsSpan
  <2> QED BY <2>1, <2>2, <2>3, <2>4, <2>5, <2>6, <2>7, <2>8, <2>9 DEF Replay!Next
<1>3. ASSUME ReplayInv, UNCHANGED replayVars, kind = "none" \/ nsteps' = nsteps
      PROVE  ReplayInv'
  <2>1. /\ kept' = kept /\ kind' = kind /\ segment' = segment /\ states' = states
        /\ step' = step /\ seen' = seen
    BY <1>3 DEF replayVars
  <2>2. CASE kind = "none"
    BY <1>3, <2>1, <2>2 DEF ReplayInv, CheckpointsSpan
  <2>3. CASE nsteps' = nsteps
    <3>1. CheckpointsSpan' /\ (JvpInv => JvpInv') /\ (VjpInv => VjpInv')
      BY <1>3, <2>1, <2>3 DEF ReplayInv, CheckpointsSpan, JvpInv, VjpInv, Forward, Backward
    <3>2. RecomputeInv => RecomputeInv'
      BY <2>1 DEF RecomputeInv, StatesFrom
    <3>3. SegmentInv => SegmentInv'
      BY <2>1 DEF SegmentInv, StatesFrom, Backward, Replay!StartStep, Replay!EndStep
    <3> QED BY <1>3, <2>1, <3>1, <3>2, <3>3 DEF ReplayInv
  <2> QED BY <1>3, <2>2, <2>3
<1>4. ASSUME MeshInv, ReplayInv, [TraceNext]_traceVars PROVE ReplayInv'
  <2>1. CASE UNCHANGED traceVars
    BY <1>3, <1>4, <2>1 DEF traceVars, vars
  <2>2. CASE Integrate
    <3>1. kind = "none" /\ UNCHANGED replayVars
      BY <1>4, <2>2 DEF Integrate, MeshInv, Sequential
    <3> QED BY <1>3, <1>4, <3>1
  <2>3. CASE Fill
    BY <1>3, <1>4, <2>3 DEF Fill, Idle
  <2>4. CASE Scan
    BY <1>3, <1>4, <2>4 DEF Scan, vars
  <2> QED BY <1>2, <1>4, <2>1, <2>2, <2>3, <2>4 DEF TraceNext
<1> QED BY <1>1, <1>4

(* Every sensitivity is made of each step of its trace once, in its order, at *)
(* the state the trace passed through, whatever the stride of the checkpoints *)
(* and whatever ran between their building and their use; and the mesh itself *)
(* is one that can be replayed.                                              *)
THEOREM ReplayCorrect == TraceSpec => []ReplayIsExact
<1>1. TraceInit => ReplayInv
  BY ReplayInductive
<1>2. MeshInv /\ ReplayInv /\ [TraceNext]_traceVars => ReplayInv'
  BY ReplayInductive
<1>3. MeshInv /\ ReplayInv => ReplayIsExact
  <2>1. MeshInv => nsteps \in Nat /\ TraceIsMesh
    BY Bounds DEF MeshInv, TypeOK
  <2> QED BY <2>1, ReplayInvExact DEF ReplayIsExact
<1> QED BY <1>1, <1>2, <1>3, MeshCorrect, PTL DEF TraceSpec
=============================================================================
