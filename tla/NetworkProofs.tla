---------------------------- MODULE NetworkProofs ----------------------------
(***************************************************************************)
(* Theorems about what lies between a worker and a mirror: RateLimiter,    *)
(* for any callers, rates and amounts, ProxyTunnel, for answers of any     *)
(* length however the stream cuts them; and about what is measured there:  *)
(* Telemetry, for any recorders and buckets, and NetworkMetrics, for any   *)
(* window, limits and samples.                                             *)
(***************************************************************************)
EXTENDS RateLimiter, ProxyTunnel, Telemetry, NetworkMetrics, DataLemmas, SequenceTheorems, TLAPS

-----------------------------------------------------------------------------
(* The token bucket of RateLimiter: its inductive invariant *)

\* The invariants below are inductive together.
RateInv == GrantsAreEarned /\ WakesWhenEarned

-----------------------------------------------------------------------------
(* Arithmetic of the bucket *)

\* A sleep earns at least the debt it is for.
LEMMA DelayRepays ==
    ASSUME NEW r \in Nat \ {0}, NEW debt \in Nat
    PROVE  /\ (debt + r - 1) \div r \in Nat
           /\ debt =< ((debt + r - 1) \div r) * r
<1>. DEFINE q == (debt + r - 1) \div r
<1>1. debt + r - 1 \in Nat
  OBVIOUS
<1>2. q \in Nat /\ debt + r - 1 < r * q + r
  BY <1>1, DivIs
<1>. QED  BY <1>2

\* Multiplication by a rate is monotonic.
LEMMA MoreEarns ==
    ASSUME NEW n \in Nat, NEW r \in Nat, NEW s \in Nat, r =< s
    PROVE  n * r \in Nat /\ n * r =< n * s /\ (n + 1) * r = n * r + r
OBVIOUS

LEMMA RefilledType ==
    ASSUME RateTypeOK
    PROVE  /\ since * rate \in Nat
           /\ Refilled \in Int /\ Refilled =< capacity /\ Refilled =< tokens + since * rate
<1>1. since * rate \in Nat
  BY DEF RateTypeOK
<1>. QED  BY <1>1 DEF RateTypeOK, Refilled, Least

\* What acquire leaves in the bucket, and how long its caller sleeps.
LEMMA AcquireLeaves ==
    ASSUME RateTypeOK, NEW c \in Callers, Acquire(c)
    PROVE  \E n \in Nat :
               /\ n =< want[c]
               /\ tokens' = Refilled - n /\ granted' = granted + n
               /\ upTo' = [upTo EXCEPT ![c] = granted + n]
               /\ want' = [want EXCEPT ![c] = @ - n]
               /\ sleep' = [sleep EXCEPT ![c] = sleep'[c]]
               /\ sleep'[c] \in Nat
               /\ tokens' < 0 => -tokens' =< sleep'[c] * rate
<1>. DEFINE n == Least(step[c], want[c])
<1>1. n \in Nat /\ n =< want[c]
  BY DEF RateTypeOK, Least
<1>2. Refilled \in Int
  BY RefilledType
<1>3. tokens' = Refilled - n /\ tokens' \in Int
  BY <1>1, <1>2 DEF Acquire
<1>. DEFINE s == IF tokens' >= 0 THEN 0 ELSE Delay(-tokens')
<1>4. s \in Nat /\ (tokens' < 0 => -tokens' =< s * rate)
  <2>1. CASE tokens' >= 0
    BY <2>1, <1>3
  <2>2. CASE tokens' < 0
    <3>1. -tokens' \in Nat /\ rate \in Nat \ {0}
      BY <2>2, <1>3 DEF RateTypeOK
    <3>2. s = (-tokens' + rate - 1) \div rate
      BY <2>2, <1>3 DEF Delay
    <3>. QED  BY <3>1, <3>2, DelayRepays
  <2>. QED  BY <2>1, <2>2, <1>3
<1>5. sleep' = [sleep EXCEPT ![c] = s]
  BY DEF Acquire
<1>6. sleep'[c] = s
  BY <1>5 DEF RateTypeOK
<1>. HIDE DEF s
<1>7. /\ granted' = granted + n
      /\ upTo' = [upTo EXCEPT ![c] = granted + n]
      /\ want' = [want EXCEPT ![c] = @ - n]
  BY DEF Acquire
<1>. QED  BY <1>1, <1>3, <1>4, <1>5, <1>6, <1>7

-----------------------------------------------------------------------------
(* Types *)

LEMMA RateInitType == RateInit => RateTypeOK
<1>. SUFFICES ASSUME RateInit PROVE RateTypeOK
  OBVIOUS
<1>1. FirstRate \in Nat \ {0}
  BY RateAssumption
<1>2. callerPc \in [Callers -> {"idle", "asking", "asleep", "raised"}]
  BY DEF RateInit
<1>3. /\ want \in [Callers -> Nat] /\ step \in [Callers -> Nat]
      /\ sleep \in [Callers -> Nat] /\ upTo \in [Callers -> Nat]
  BY DEF RateInit
<1>4. /\ rate = FirstRate /\ capacity = FirstRate /\ tokens = FirstRate /\ budget = FirstRate
      /\ since = 0 /\ granted = 0 /\ now = 0 /\ lowered = FALSE
  BY DEF RateInit
<1>5. tokens \in Int /\ tokens =< capacity /\ rate \in Nat \ {0} /\ capacity \in Nat \ {0}
  BY <1>1, <1>4
<1>6. lowered \in BOOLEAN
  BY <1>4
<1>7. since \in Nat /\ granted \in Nat /\ now \in Nat /\ budget \in Nat
  BY <1>1, <1>4
<1>. QED  BY <1>2, <1>3, <1>5, <1>6, <1>7 DEF RateTypeOK

LEMMA RateTypeStep == RateTypeOK /\ [RateNext]_rateVars => RateTypeOK'
<1>. SUFFICES ASSUME RateTypeOK, [RateNext]_rateVars PROVE RateTypeOK'
  OBVIOUS
<1>. USE RateAssumption
<1>1. ASSUME NEW c \in Callers, Throttle(c) PROVE RateTypeOK'
  <2>1. want' \in [Callers -> Nat] /\ step' \in [Callers -> Nat]
    BY <1>1 DEF Throttle, RateTypeOK
  <2>2. callerPc' \in [Callers -> {"idle", "asking", "asleep", "raised"}]
    BY <1>1 DEF Throttle, RateTypeOK
  <2>. QED  BY <1>1, <2>1, <2>2 DEF Throttle, RateTypeOK
<1>2. ASSUME NEW c \in Callers, Acquire(c) PROVE RateTypeOK'
  <2>1. PICK n \in Nat :
               /\ n =< want[c]
               /\ tokens' = Refilled - n /\ granted' = granted + n
               /\ upTo' = [upTo EXCEPT ![c] = granted + n]
               /\ want' = [want EXCEPT ![c] = @ - n]
               /\ sleep' = [sleep EXCEPT ![c] = sleep'[c]]
               /\ sleep'[c] \in Nat
    BY <1>2, AcquireLeaves
  <2>2. tokens' \in Int /\ tokens' =< capacity
    BY <2>1, RefilledType DEF RateTypeOK
  <2>3. /\ want' \in [Callers -> Nat] /\ upTo' \in [Callers -> Nat]
        /\ sleep' \in [Callers -> Nat] /\ granted' \in Nat
    BY <2>1 DEF RateTypeOK
  <2>. QED  BY <1>2, <2>2, <2>3 DEF Acquire, RateTypeOK
<1>3. ASSUME NEW c \in Callers, AcquireRaises(c) \/ Awake(c) \/ Cancel(c) PROVE RateTypeOK'
  BY <1>3 DEF AcquireRaises, Awake, Cancel, RateTypeOK
<1>4. ASSUME NEW c \in Callers, TakeNow(c) PROVE RateTypeOK'
  <2>1. PICK n \in Amounts :
               /\ tokens' = Refilled - n /\ since' = 0
               /\ granted' = granted + n
               /\ upTo' = [upTo EXCEPT ![c] = granted + n]
    BY <1>4 DEF TakeNow
  <2>2. tokens' \in Int /\ tokens' =< capacity
    BY <2>1, RefilledType DEF RateTypeOK
  <2>. QED  BY <1>4, <2>1, <2>2 DEF TakeNow, RateTypeOK
<1>5. CASE UpdateRate
  <2>1. PICK r \in OtherRates \ {rate} :
               rate' = r /\ capacity' = r /\ tokens' = Least(Refilled, r) /\ since' = 0
    BY <1>5 DEF UpdateRate
  <2>2. tokens' \in Int /\ tokens' =< capacity'
    BY <2>1, RefilledType DEF Least
  <2>3. lowered' \in BOOLEAN /\ UNCHANGED <<granted, now, budget, callerVars>>
    BY <1>5 DEF UpdateRate, RateTypeOK
  <2>. QED  BY <2>1, <2>2, <2>3 DEF callerVars, RateTypeOK
<1>6. CASE Reset
  BY <1>6 DEF Reset, RateTypeOK
<1>7. CASE TimePasses
  BY <1>7 DEF TimePasses, RateTypeOK
<1>8. CASE UNCHANGED rateVars
  BY <1>8 DEF rateVars, callerVars, RateTypeOK
<1>. QED
  BY <1>1, <1>2, <1>3, <1>4, <1>5, <1>6, <1>7, <1>8 DEF RateNext, Caller

\* The bucket never holds more than its capacity, and whoever asks, sleeps or
\* leaves waits for a whole number of units.
THEOREM RateTypeCorrect == RateSpec => []RateTypeOK
<1>. QED  BY RateInitType, RateTypeStep, PTL DEF RateSpec

-----------------------------------------------------------------------------
(* Grants are earned *)

\* The tokens never understate what was given out.
LEMMA GrantsStep ==
    RateTypeOK /\ GrantsAreEarned /\ [RateNext]_rateVars => GrantsAreEarned'
<1>. SUFFICES ASSUME RateTypeOK, GrantsAreEarned, [RateNext]_rateVars PROVE GrantsAreEarned'
  OBVIOUS
<1>0. /\ tokens \in Int /\ granted \in Nat /\ budget \in Nat /\ since \in Nat
      /\ rate \in Nat \ {0} /\ capacity \in Nat \ {0} /\ tokens =< capacity
      /\ granted + tokens + since * rate =< budget
  BY DEF RateTypeOK, GrantsAreEarned
<1>1. since * rate \in Nat /\ Refilled \in Int /\ granted + Refilled =< budget
  BY <1>0, RefilledType
<1>2. ASSUME NEW n \in Nat, tokens' = Refilled - n, granted' = granted + n, since' = 0,
             UNCHANGED <<rate, budget>>
      PROVE  GrantsAreEarned'
  <2>1. since' * rate' = 0
    BY <1>0, <1>2
  <2>. QED  BY <1>0, <1>1, <1>2, <2>1 DEF GrantsAreEarned
<1>3. ASSUME NEW c \in Callers, Acquire(c) PROVE GrantsAreEarned'
  BY <1>2, <1>3, AcquireLeaves DEF Acquire
<1>4. ASSUME NEW c \in Callers, TakeNow(c) PROVE GrantsAreEarned'
  BY <1>2, <1>4, RateAssumption DEF TakeNow
<1>5. ASSUME UNCHANGED <<granted, tokens, since, rate, budget>> PROVE GrantsAreEarned'
  BY <1>5 DEF GrantsAreEarned
<1>6. CASE UpdateRate
  <2>1. PICK r \in Nat \ {0} : rate' = r /\ tokens' = Least(Refilled, r) /\ since' = 0
    BY <1>6, RateAssumption DEF UpdateRate
  <2>2. since' * rate' = 0 /\ tokens' \in Int /\ tokens' =< Refilled
    BY <1>1, <2>1 DEF Least
  <2>. QED  BY <1>0, <1>1, <1>6, <2>2 DEF UpdateRate, GrantsAreEarned
<1>7. CASE Reset
  <2>1. since' * rate' = 0
    BY <1>0, <1>7 DEF Reset
  <2>. QED  BY <1>0, <1>7, <2>1 DEF Reset, GrantsAreEarned
<1>8. CASE TimePasses
  <2>1. since' * rate' = since * rate + rate
    BY <1>0, <1>8 DEF TimePasses
  <2>. QED  BY <1>0, <1>1, <1>8, <2>1 DEF TimePasses, GrantsAreEarned
<1>. QED
  BY <1>3, <1>4, <1>5, <1>6, <1>7, <1>8
  DEF RateNext, Caller, Throttle, AcquireRaises, Awake, Cancel, rateVars

-----------------------------------------------------------------------------
(* Nobody wakes too early *)

\* Of one caller: unless a rate was lowered, its sleep earns what is missing.
Earned(c) == ~lowered => upTo[c] =< budget + sleep[c] * rate

LEMMA AddZero ==
    ASSUME NEW g \in Nat, NEW t \in Int, NEW b \in Nat, g + t + 0 =< b PROVE g + t =< b
OBVIOUS

LEMMA WakesStep ==
    RateTypeOK /\ RateInv /\ [RateNext]_rateVars => WakesWhenEarned'
<1>. SUFFICES ASSUME RateTypeOK, RateInv, [RateNext]_rateVars, NEW d \in Callers PROVE Earned(d)'
  BY DEF WakesWhenEarned, Earned
<1>0. /\ budget \in Nat /\ rate \in Nat \ {0} /\ sleep[d] \in Nat /\ upTo[d] \in Nat
  BY DEF RateTypeOK
<1>e. Earned(d)
  BY DEF RateInv, WakesWhenEarned, Earned
<1>1. ASSUME NEW c \in Callers, Acquire(c) PROVE Earned(d)'
  <2>1. PICK n \in Nat :
               /\ tokens' = Refilled - n /\ granted' = granted + n
               /\ upTo' = [upTo EXCEPT ![c] = granted + n]
               /\ sleep' = [sleep EXCEPT ![c] = sleep'[c]]
               /\ sleep'[c] \in Nat
               /\ tokens' < 0 => -tokens' =< sleep'[c] * rate
    BY <1>1, AcquireLeaves
  <2>2. UNCHANGED <<rate, budget, lowered>>
    BY <1>1 DEF Acquire
  <2>3. CASE c # d
    <3>1. upTo'[d] = upTo[d] /\ sleep'[d] = sleep[d]
      BY <2>1, <2>3 DEF RateTypeOK
    <3>. QED  BY <1>0, <1>e, <2>2, <3>1 DEF Earned
  <2>4. CASE c = d
    <3>1. upTo'[d] = granted'
      BY <2>1, <2>4 DEF RateTypeOK
    <3>2. GrantsAreEarned' /\ since' = 0 /\ RateTypeOK'
      BY <1>1, GrantsStep, RateTypeStep DEF RateInv, Acquire
    <3>3. granted' + tokens' =< budget
      <4>1. granted' \in Nat /\ tokens' \in Int /\ since' = 0
        BY <3>2 DEF RateTypeOK
      <4>2. granted' + tokens' + 0 * rate =< budget
        BY <2>2, <3>2 DEF GrantsAreEarned
      <4>3. 0 * rate = 0
        BY <1>0
      <4>4. granted' + tokens' + 0 =< budget
        BY <4>2, <4>3
      <4>. QED  BY <4>1, <4>4, <1>0, AddZero
    <3>4. sleep'[d] * rate \in Nat /\ tokens' \in Int /\ granted' \in Nat
      BY <1>0, <2>1, <2>4, <3>2 DEF RateTypeOK
    <3>5. granted' =< budget + sleep'[d] * rate
      BY <1>0, <2>1, <2>4, <3>3, <3>4
    <3>. QED  BY <2>2, <3>1, <3>5 DEF Earned
  <2>. QED  BY <2>3, <2>4
<1>2. ASSUME NEW c \in Callers, TakeNow(c) PROVE Earned(d)'
  <2>1. GrantsAreEarned' /\ RateTypeOK'
    BY <1>2, GrantsStep, RateTypeStep DEF RateInv
  <2>2. PICK n \in Amounts : /\ n =< Refilled /\ tokens' = Refilled - n
                             /\ granted' = granted + n
                             /\ upTo' = [upTo EXCEPT ![c] = granted + n]
    BY <1>2 DEF TakeNow
  <2>3. UNCHANGED <<rate, budget, lowered, sleep>> /\ since' = 0
    BY <1>2 DEF TakeNow
  <2>4. CASE c # d
    BY <1>0, <1>e, <2>2, <2>3, <2>4 DEF Earned, RateTypeOK
  <2>5. CASE c = d
    <3>1. upTo'[d] = granted' /\ tokens' >= 0
      BY <2>2, <2>5, RefilledType, RateAssumption DEF RateTypeOK
    <3>2. granted' \in Nat /\ tokens' \in Int
      BY <2>1 DEF RateTypeOK
    <3>3. granted' + tokens' + since' * rate' =< budget'
      BY <2>1 DEF GrantsAreEarned
    <3>4. granted' =< budget
      <4>1. since' * rate' = 0 /\ budget' = budget
        BY <1>0, <2>3
      <4>. QED  BY <1>0, <3>1, <3>2, <3>3, <4>1
    <3>5. sleep[d] * rate \in Nat
      BY <1>0
    <3>6. granted' =< budget + sleep[d] * rate
      BY <1>0, <3>2, <3>4, <3>5
    <3>. QED  BY <2>3, <3>1, <3>6 DEF Earned
  <2>. QED  BY <2>4, <2>5
<1>3. ASSUME NEW c \in Callers, Cancel(c) PROVE Earned(d)'
  <2>1. UNCHANGED <<rate, budget, lowered>>
    BY <1>3 DEF Cancel
  <2>2. CASE c = d
    BY <1>0, <1>e, <1>3, <2>1, <2>2 DEF Cancel, Earned, RateTypeOK
  <2>3. CASE c # d
    BY <1>0, <1>e, <1>3, <2>1, <2>3 DEF Cancel, Earned, RateTypeOK
  <2>. QED  BY <2>2, <2>3
<1>4. CASE UpdateRate
  <2>1. PICK r \in Nat \ {0} :
               /\ rate' = r
               /\ ~lowered' => ~lowered /\ (r < rate => ~(sleep[d] > 0))
    BY <1>4, RateAssumption DEF UpdateRate
  <2>2. UNCHANGED <<budget, upTo, sleep>>
    BY <1>4 DEF UpdateRate, callerVars
  <2>3. CASE rate =< r
    <3>1. sleep[d] * rate =< sleep[d] * r /\ sleep[d] * rate \in Nat /\ sleep[d] * r \in Nat
      BY <1>0, <2>1, <2>3, MoreEarns
    <3>2. ~lowered' => upTo'[d] =< budget' + sleep'[d] * rate'
      BY <1>0, <1>e, <2>1, <2>2, <3>1 DEF Earned
    <3>. QED  BY <3>2 DEF Earned
  <2>4. CASE ~(rate =< r) /\ sleep[d] = 0
    <3>1. sleep[d] * rate = 0 /\ sleep[d] * r = 0
      BY <1>0, <2>1, <2>4
    <3>2. ~lowered' => upTo'[d] =< budget' + sleep'[d] * rate'
      BY <1>0, <1>e, <2>1, <2>2, <3>1 DEF Earned
    <3>. QED  BY <3>2 DEF Earned
  <2>5. CASE ~(rate =< r) /\ sleep[d] # 0
    <3>1. r < rate /\ sleep[d] > 0
      BY <1>0, <2>1, <2>5
    <3>. QED  BY <2>1, <3>1 DEF Earned
  <2>. QED  BY <2>3, <2>4, <2>5
<1>5. CASE Reset
  <2>1. upTo'[d] = 0 /\ budget' = capacity /\ UNCHANGED <<rate, sleep>>
    BY <1>5 DEF Reset
  <2>2. capacity \in Nat /\ sleep[d] * rate \in Nat
    BY <1>0 DEF RateTypeOK
  <2>. QED  BY <2>1, <2>2 DEF Earned
<1>6. CASE TimePasses
  <2>1. budget' = budget + rate /\ UNCHANGED <<rate, lowered, upTo>>
        /\ sleep'[d] = IF sleep[d] > 0 THEN sleep[d] - 1 ELSE 0
    BY <1>6 DEF TimePasses
  <2>2. CASE sleep[d] > 0
    <3>1. sleep'[d] * rate + rate = sleep[d] * rate
      BY <1>0, <2>1, <2>2
    <3>2. sleep[d] * rate \in Int /\ sleep'[d] * rate \in Int
      BY <1>0, <2>1, <2>2
    <3>. QED  BY <1>0, <1>e, <2>1, <3>1, <3>2 DEF Earned
  <2>3. CASE sleep[d] = 0
    BY <1>0, <1>e, <2>1, <2>3 DEF Earned
  <2>. QED  BY <1>0, <2>2, <2>3
<1>7. ASSUME UNCHANGED <<lowered, upTo, budget, sleep, rate>> PROVE Earned(d)'
  BY <1>0, <1>e, <1>7 DEF Earned
<1>. QED
  BY <1>1, <1>2, <1>3, <1>4, <1>5, <1>6, <1>7
  DEF RateNext, Caller, Throttle, AcquireRaises, Awake, rateVars, callerVars

LEMMA RateAlways == RateSpec => []RateInv
<1>1. RateInit => RateInv
  BY RateAssumption DEF RateInit, RateInv, GrantsAreEarned, WakesWhenEarned
<1>2. RateTypeOK /\ RateInv /\ [RateNext]_rateVars => RateInv'
  BY GrantsStep, WakesStep DEF RateInv
<1>. QED  BY <1>1, <1>2, RateTypeCorrect, PTL DEF RateSpec

-----------------------------------------------------------------------------
(* Theorems *)

\* For all callers, rates and amounts, through changes of rate, cancellations
\* and debts: no more is given out than was earned.
THEOREM EveryGrantIsEarned == RateSpec => []GrantsAreEarned
BY RateAlways, PTL DEF RateInv

\* And unless a rate is lowered over somebody asleep, a caller that wakes finds
\* all that was granted up to its own bytes earned.
THEOREM SleepersWakeInTime == RateSpec => []WakesWhenEarned
BY RateAlways, PTL DEF RateInv

-----------------------------------------------------------------------------
(* The tunnel of ProxyTunnel: its inductive invariant *)

\* The bytes that arrived since the last answer began, read or not.
Arrived == Len(got) + Len(wire)
ByteAt(i) == IF i =< Len(got) THEN got[i] ELSE wire[i - Len(got)]

\* Bytes that a phase and those after it read of an answer of which they see the first.
AddressLength(kind, first) ==
    CASE kind = 1 -> 4 [] kind = 4 -> 16 [] kind = 3 -> 1 + first [] OTHER -> 0

AnswerIs(m) ==
    CASE tunnelPc \in {"method", "auth", "port"} -> m = 2
      [] tunnelPc = "ipv4" -> m = 6
      [] tunnelPc = "ipv6" -> m = 18
      [] tunnelPc \in {"length", "domain"} -> m >= 3 /\ m = 1 + ByteAt(1) + 2
      [] tunnelPc = "reply" -> m >= 6 /\ m = 4 + AddressLength(ByteAt(4), ByteAt(5)) + 2
      [] tunnelPc = "response" -> /\ m >= 1 /\ ByteAt(m) = Blank
                                  /\ \A i \in 1..(m - 1) : ByteAt(i) # Blank
      [] OTHER -> m = 0

\* The answer ends after m bytes, and what follows it is of the destination.
Cut(m) ==
    /\ Arrived = m + payload
    /\ Len(got) =< m
    /\ \A i \in (m + 1)..Arrived : ByteAt(i) = Payload

EndsAt(m) == AnswerIs(m) /\ Cut(m)

Turns == {"response", "method", "auth", "reply"}
TurnOf(phase) == IF phase = "response" THEN "http" ELSE phase

NothingArrived == got = <<>> /\ wire = <<>> /\ payload = 0

TunnelInv ==
    /\ tunnelPc = "new" => awaited = "none" /\ NothingArrived
    /\ tunnelPc \in Reading /\ awaited # "none" =>
           tunnelPc \in Turns /\ awaited = TurnOf(tunnelPc) /\ NothingArrived
    /\ tunnelPc \in Reading /\ awaited = "none" => \E m \in 0..Arrived : EndsAt(m)
    /\ tunnelPc \in {"method", "auth"} => payload = 0
    /\ tunnelPc \in Reading \ {"response"} => Len(got) =< Needed
    /\ tunnelPc = "domain" => Len(got) >= 1
    /\ tunnelPc = "open" => awaited = "none" /\ EndsAt(0)

LEMMA Padding ==
    ASSUME NEW n \in Nat
    PROVE  /\ [i \in 1..n |-> Other] \in Seq(Nat) /\ Len([i \in 1..n |-> Other]) = n
           /\ \A i \in 1..n : [j \in 1..n |-> Other][i] = Other
           /\ [i \in 1..n |-> Payload] \in Seq(Nat) /\ Len([i \in 1..n |-> Payload]) = n
           /\ \A i \in 1..n : [j \in 1..n |-> Payload][i] = Payload
BY DEF Other, Payload

TunnelTyped ==
    /\ tunnelPc \in Reading \cup {"new", "open", "secured", "closed", "leaked"}
    /\ awaited \in {"http", "method", "auth", "reply", "none"}
    /\ got \in Seq(Nat) /\ wire \in Seq(Nat) /\ payload \in Nat

\* What the proxy may answer, whatever it means, is as long as it says it is.
LEMMA AnswerShape ==
    ASSUME NEW turn \in {"http", "method", "auth", "reply"}, NEW a \in Answers(turn)
    PROVE  /\ a \in Seq(Nat) /\ Len(a) >= 1
           /\ turn \in {"method", "auth"} => Len(a) = 2
           /\ turn = "reply" => Len(a) >= 6 /\ Len(a) = 4 + AddressLength(a[4], a[5]) + 2
           /\ turn = "http" => /\ a[Len(a)] = Blank
                               /\ \A i \in 1..(Len(a) - 1) : a[i] # Blank
<1>. USE ProxyAssumption
<1>1. CASE turn \in {"method", "auth"}
  <2>1. PICK v, w \in Nat : a = <<v, w>>
    <3>1. CASE turn = "method"
      <4>1. Answers(turn) = {<<v, m>> : v \in {5, 4}, m \in {0, 1, 2, 255}}
        BY <3>1 DEF Answers
      <4>. QED  BY <4>1
    <3>2. CASE turn = "auth"
      <4>1. Answers(turn) = {<<v, s>> : v \in {1, 2}, s \in {0, 1}}
        BY <3>2 DEF Answers
      <4>. QED  BY <4>1
    <3>. QED  BY <1>1, <3>1, <3>2
  <2>. QED  BY <1>1, <2>1
<1>2. CASE turn = "http"
  <2>1. PICK status \in {200, 407, 502, 0}, n \in 0..MaxHeaders :
            a = <<status>> \o [i \in 1..n |-> Other] \o <<Blank>>
    <3>. DEFINE e(status, n) == <<status>> \o [i \in 1..n |-> Other] \o <<Blank>>
    <3>1. Answers(turn) = {e(status, n) : status \in {200, 407, 502, 0}, n \in 0..MaxHeaders}
      BY <1>2 DEF Answers
    <3>2. \E status \in {200, 407, 502, 0}, n \in 0..MaxHeaders : a = e(status, n)
      <4>. HIDE DEF e
      <4>. QED  BY <3>1
    <3>. QED  BY <3>2
  <2>. DEFINE h == [i \in 1..n |-> Other]
  <2>2. h \in Seq(Nat) /\ Len(h) = n /\ \A i \in 1..n : h[i] = Other
    BY Padding
  <2>. HIDE DEF h
  <2>3. <<status>> \in Seq(Nat) /\ Len(<<status>>) = 1 /\ <<status>>[1] = status
        /\ <<Blank>> \in Seq(Nat) /\ Len(<<Blank>>) = 1 /\ <<Blank>>[1] = Blank
    BY DEF Blank
  <2>. DEFINE b == <<status>> \o h
  <2>4. /\ b \in Seq(Nat) /\ Len(b) = 1 + n
        /\ \A i \in 1..(1 + n) : b[i] = IF i =< 1 THEN <<status>>[i] ELSE h[i - 1]
    BY <2>2, <2>3, ConcatProperties
  <2>5. \A i \in 1..(1 + n) : b[i] # Blank
    BY <2>2, <2>3, <2>4 DEF Blank, Other
  <2>. HIDE DEF b
  <2>6. /\ b \o <<Blank>> \in Seq(Nat) /\ Len(b \o <<Blank>>) = 1 + n + 1
        /\ \A i \in 1..(1 + n + 1) :
               (b \o <<Blank>>)[i] = IF i =< 1 + n THEN b[i] ELSE <<Blank>>[i - (1 + n)]
    BY <2>3, <2>4, ConcatProperties
  <2>7. a = b \o <<Blank>>
    BY <2>1 DEF b, h
  <2>8. n \in Nat
    OBVIOUS
  <2>9. Len(a) = n + 2 /\ a \in Seq(Nat)
    BY <2>6, <2>7, <2>8
  <2>10. a[n + 2] = Blank
    BY <2>3, <2>6, <2>7, <2>8
  <2>11. \A i \in 1..(n + 1) : a[i] # Blank
    BY <2>5, <2>6, <2>7, <2>8
  <2>. QED  BY <1>2, <2>8, <2>9, <2>10, <2>11
<1>3. CASE turn = "reply"
  <2>1. PICK v \in {5, 4}, r \in {0, 1}, kind \in {1, 3, 4, 9} :
            a \in {<<v, r, 0, kind>> \o addr \o <<Other, Other>> : addr \in Address(kind)}
    <3>. DEFINE e(v, r, kind) ==
                    {<<v, r, 0, kind>> \o addr \o <<Other, Other>> : addr \in Address(kind)}
    <3>1. Answers(turn) = UNION {e(v, r, kind) : v \in {5, 4}, r \in {0, 1}, kind \in {1, 3, 4, 9}}
      BY <1>3 DEF Answers
    <3>2. \E v \in {5, 4}, r \in {0, 1}, kind \in {1, 3, 4, 9} : a \in e(v, r, kind)
      <4>. HIDE DEF e
      <4>. QED  BY <3>1
    <3>. QED  BY <3>2
  <2>2. PICK addr \in Address(kind) : a = <<v, r, 0, kind>> \o addr \o <<Other, Other>>
    BY <2>1
  <2>3. /\ addr \in Seq(Nat)
        /\ Len(addr) = AddressLength(kind, IF addr = <<>> THEN 0 ELSE addr[1])
        /\ kind # 9 => addr # <<>>
    <3>1. CASE kind = 1
      <4>1. addr = [i \in 1..4 |-> Other] /\ 4 \in Nat
        BY <3>1 DEF Address
      <4>2. addr \in Seq(Nat) /\ Len(addr) = 4
        BY <4>1, Padding
      <4>3. addr # <<>>
        <5>1. ASSUME addr = <<>> PROVE Len(addr) = 0
          BY <5>1
        <5>. QED  BY <4>2, <5>1
      <4>4. \A first : AddressLength(kind, first) = 4
        BY <3>1 DEF AddressLength
      <4>. QED  BY <4>2, <4>3, <4>4
    <3>2. CASE kind = 4
      <4>1. addr = [i \in 1..16 |-> Other] /\ 16 \in Nat
        BY <3>2 DEF Address
      <4>2. addr \in Seq(Nat) /\ Len(addr) = 16
        BY <4>1, Padding
      <4>3. addr # <<>>
        <5>1. ASSUME addr = <<>> PROVE Len(addr) = 0
          BY <5>1
        <5>. QED  BY <4>2, <5>1
      <4>4. \A first : AddressLength(kind, first) = 16
        BY <3>2 DEF AddressLength
      <4>. QED  BY <4>2, <4>3, <4>4
    <3>3. CASE kind = 3
      <4>1. PICK n \in 0..2 : addr = <<n>> \o [i \in 1..n |-> Other]
        BY <3>3 DEF Address
      <4>. DEFINE h == [i \in 1..n |-> Other]
      <4>2. h \in Seq(Nat) /\ Len(h) = n /\ n \in Nat
        BY Padding
      <4>. HIDE DEF h
      <4>3. <<n>> \in Seq(Nat) /\ Len(<<n>>) = 1 /\ <<n>>[1] = n
        BY <4>2
      <4>4. /\ <<n>> \o h \in Seq(Nat) /\ Len(<<n>> \o h) = 1 + n
            /\ \A i \in 1..(1 + n) : (<<n>> \o h)[i] = IF i =< 1 THEN <<n>>[i] ELSE h[i - 1]
        BY <4>2, <4>3, ConcatProperties
      <4>5. addr \in Seq(Nat) /\ Len(addr) = 1 + n /\ addr[1] = n
        BY <4>1, <4>2, <4>3, <4>4 DEF h
      <4>. QED  BY <3>3, <4>2, <4>5 DEF AddressLength
    <3>4. CASE kind = 9
      BY <3>4 DEF Address, AddressLength
    <3>. QED  BY <3>1, <3>2, <3>3, <3>4
  <2>. DEFINE head == <<v, r, 0, kind>>
              tail == <<Other, Other>>
  <2>4. /\ head \in Seq(Nat) /\ Len(head) = 4 /\ head[4] = kind
        /\ tail \in Seq(Nat) /\ Len(tail) = 2
    BY DEF Other
  <2>. HIDE DEF head, tail
  <2>5. /\ head \o addr \in Seq(Nat) /\ Len(head \o addr) = 4 + Len(addr)
        /\ \A i \in 1..(4 + Len(addr)) :
               (head \o addr)[i] = IF i =< 4 THEN head[i] ELSE addr[i - 4]
    <3>1. addr \in Seq(Nat)
      BY <2>3
    <3>2. /\ head \o addr \in Seq(Nat) /\ Len(head \o addr) = Len(head) + Len(addr)
          /\ \A i \in 1..(Len(head) + Len(addr)) :
                 (head \o addr)[i] = IF i =< Len(head) THEN head[i] ELSE addr[i - Len(head)]
      BY <2>4, <3>1, ConcatProperties
    <3>. QED  BY <2>4, <3>2
  <2>6. /\ (head \o addr) \o tail \in Seq(Nat) /\ Len((head \o addr) \o tail) = 4 + Len(addr) + 2
        /\ \A i \in 1..(4 + Len(addr) + 2) :
               ((head \o addr) \o tail)[i] =
                   IF i =< 4 + Len(addr) THEN (head \o addr)[i] ELSE tail[i - (4 + Len(addr))]
    <3>1. head \o addr \in Seq(Nat) /\ tail \in Seq(Nat)
      BY <2>4, <2>5
    <3>2. /\ (head \o addr) \o tail \in Seq(Nat)
          /\ Len((head \o addr) \o tail) = Len(head \o addr) + Len(tail)
          /\ \A i \in 1..(Len(head \o addr) + Len(tail)) :
                 ((head \o addr) \o tail)[i] =
                     IF i =< Len(head \o addr) THEN (head \o addr)[i]
                     ELSE tail[i - Len(head \o addr)]
      BY <3>1, ConcatProperties
    <3>. QED  BY <2>4, <2>5, <3>2
  <2>7. a = (head \o addr) \o tail
    BY <2>2 DEF head, tail
  <2>8. Len(addr) \in Nat
    BY <2>3
  <2>9. a \in Seq(Nat) /\ Len(a) = 4 + Len(addr) + 2 /\ a[4] = kind
    BY <2>4, <2>5, <2>6, <2>7, <2>8
  <2>10. addr # <<>> => a[5] = addr[1]
    <3>1. SUFFICES ASSUME addr # <<>> PROVE a[5] = addr[1]
      OBVIOUS
    <3>2. Len(addr) >= 1
      BY <2>3, <3>1
    <3>. QED  BY <2>5, <2>6, <2>7, <2>8, <3>2
  <2>11. Len(addr) = AddressLength(kind, a[5])
    BY <2>3, <2>10 DEF AddressLength
  <2>12. Len(a) >= 6
    BY <2>8, <2>9
  <2>. QED  BY <1>3, <2>9, <2>11, <2>12
<1>. QED  BY <1>1, <1>2, <1>3

\* Reading moves bytes from the wire and changes none.
LEMMA TakeKeeps ==
    ASSUME got \in Seq(Nat), wire \in Seq(Nat), NEW n \in 1..Len(wire), Take(n)
    PROVE  /\ got' \in Seq(Nat) /\ wire' \in Seq(Nat)
           /\ Len(got') = Len(got) + n /\ Len(wire') = Len(wire) - n
           /\ Arrived' = Arrived
           /\ \A i \in 1..Arrived : ByteAt(i)' = ByteAt(i)
           /\ \A i \in 1..Len(got) : got'[i] = got[i]
<1>. DEFINE front == SubSeq(wire, 1, n)
            back == SubSeq(wire, n + 1, Len(wire))
<1>1. Len(got) \in Nat /\ Len(wire) \in Nat /\ n \in Nat
  OBVIOUS
<1>2. front \in Seq(Nat) /\ Len(front) = n /\ \A i \in 1..n : front[i] = wire[i]
  <2>1. \A i \in 1..n : wire[i] \in Nat
    BY ElementOfSeq
  <2>2. /\ front \in Seq(Nat) /\ Len(front) = IF 1 =< n THEN n - 1 + 1 ELSE 0
        /\ \A i \in 1..(n - 1 + 1) : front[i] = wire[1 + i - 1]
    BY <1>1, <2>1, SubSeqProperties
  <2>. HIDE DEF front
  <2>3. n - 1 + 1 = n /\ \A i \in Int : 1 + i - 1 = i
    BY <1>1
  <2>4. Len(front) = n
    BY <1>1, <2>2, <2>3
  <2>. QED  BY <2>2, <2>3, <2>4
<1>3. /\ back \in Seq(Nat) /\ Len(back) = Len(wire) - n
      /\ \A i \in 1..(Len(wire) - n) : back[i] = wire[n + i]
  <2>1. \A i \in (n + 1)..Len(wire) : wire[i] \in Nat
    BY <1>1, ElementOfSeq
  <2>. DEFINE k == Len(wire)
  <2>2. k \in Int /\ n + 1 \in Int /\ \A i \in (n + 1)..k : wire[i] \in Nat
    BY <1>1, <2>1
  <2>. HIDE DEF k
  <2>3. /\ SubSeq(wire, n + 1, k) \in Seq(Nat)
        /\ Len(SubSeq(wire, n + 1, k)) = IF n + 1 =< k THEN k - (n + 1) + 1 ELSE 0
        /\ \A i \in 1..(k - (n + 1) + 1) : SubSeq(wire, n + 1, k)[i] = wire[n + 1 + i - 1]
    BY <2>2, SubSeqProperties
  <2>4. k - (n + 1) + 1 = k - n /\ (\A i \in Int : n + 1 + i - 1 = n + i) /\ k >= n
    BY <1>1, <2>2 DEF k
  <2>. DEFINE u == SubSeq(wire, n + 1, k)
  <2>5. u \in Seq(Nat) /\ Len(u) = k - n
    <3>1. Len(u) = IF n + 1 =< k THEN k - n ELSE 0
      BY <2>3, <2>4
    <3>. QED  BY <1>1, <2>2, <2>3, <2>4, <3>1
  <2>6. \A i \in 1..(k - n) : u[i] = wire[n + i]
    BY <2>3, <2>4
  <2>. QED  BY <2>5, <2>6 DEF k
<1>. HIDE DEF front, back
<1>4. got' = got \o front /\ wire' = back
  BY DEF Take, front, back
<1>5. /\ got' \in Seq(Nat) /\ Len(got') = Len(got) + n
      /\ \A i \in 1..(Len(got) + n) :
             got'[i] = IF i =< Len(got) THEN got[i] ELSE front[i - Len(got)]
  <2>1. got \o front \in Seq(Nat) /\ Len(got \o front) = Len(got) + Len(front)
        /\ \A i \in 1..(Len(got) + Len(front)) :
               (got \o front)[i] = IF i =< Len(got) THEN got[i] ELSE front[i - Len(got)]
    BY <1>2, ConcatProperties
  <2>. QED  BY <1>2, <1>4, <2>1
<1>6. Len(wire') = Len(wire) - n /\ wire' \in Seq(Nat) /\ Arrived' = Arrived
  <2>1. Len(wire') = Len(wire) - n /\ wire' \in Seq(Nat)
    BY <1>3, <1>4
  <2>. QED  BY <1>1, <1>5, <2>1 DEF Arrived
<1>7. ASSUME NEW i \in 1..Arrived PROVE ByteAt(i)' = ByteAt(i)
  <2>1. i \in Nat /\ i =< Len(got) + Len(wire)
    BY <1>1 DEF Arrived
  <2>2. CASE i =< Len(got)
    <3>1. i \in 1..(Len(got) + n) /\ i =< Len(got')
      BY <1>1, <1>5, <2>1, <2>2
    <3>2. got'[i] = got[i]
      BY <1>5, <2>2, <3>1
    <3>3. ByteAt(i) = got[i] /\ ByteAt(i)' = got'[i]
      BY <2>2, <3>1 DEF ByteAt
    <3>. QED  BY <3>2, <3>3
  <2>3. CASE i > Len(got) /\ i =< Len(got) + n
    <3>1. i - Len(got) \in 1..n /\ i \in 1..(Len(got) + n)
      BY <1>1, <2>1, <2>3
    <3>2. got'[i] = wire[i - Len(got)]
      <4>1. got'[i] = front[i - Len(got)]
        <5>1. ~(i =< Len(got))
          BY <1>1, <2>1, <2>3
        <5>. QED  BY <1>5, <3>1, <5>1
      <4>. QED  BY <1>2, <3>1, <4>1
    <3>. QED  BY <1>1, <1>5, <2>1, <2>3, <3>2 DEF ByteAt
  <2>4. CASE i > Len(got) + n
    <3>1. i - (Len(got) + n) \in 1..(Len(wire) - n) /\ n + (i - (Len(got) + n)) = i - Len(got)
      BY <1>1, <2>1, <2>4
    <3>2. wire'[i - (Len(got) + n)] = wire[i - Len(got)]
      BY <1>3, <1>4, <3>1
    <3>. QED  BY <1>1, <1>5, <2>1, <2>4, <3>2 DEF ByteAt
  <2>. QED  BY <1>1, <2>1, <2>2, <2>3, <2>4
<1>8. \A i \in 1..Len(got) : got'[i] = got[i]
  <2>1. TAKE i \in 1..Len(got)
  <2>2. i \in 1..(Len(got) + n) /\ i =< Len(got)
    BY <1>1
  <2>. QED  BY <1>5, <2>2
<1>. QED  BY <1>1, <1>3, <1>4, <1>5, <1>6, <1>7, <1>8

\* Consuming what was read leaves the wire.
LEMMA ConsumeKeeps ==
    ASSUME got \in Seq(Nat), wire \in Seq(Nat), got' = <<>>, wire' = wire
    PROVE  /\ got' \in Seq(Nat) /\ Len(got') = 0 /\ Arrived' = Arrived - Len(got)
           /\ \A i \in 1..Len(wire) : ByteAt(i)' = ByteAt(Len(got) + i)
<1>1. Len(got) \in Nat /\ Len(wire) \in Nat /\ Len(got') = 0
  OBVIOUS
<1>2. ASSUME NEW i \in 1..Len(wire) PROVE ByteAt(i)' = ByteAt(Len(got) + i)
  <2>1. ~(i =< 0) /\ ~(Len(got) + i =< Len(got)) /\ Len(got) + i - Len(got) = i /\ i - 0 = i
    BY <1>1
  <2>. QED  BY <1>1, <2>1 DEF ByteAt
<1>. QED  BY <1>1, <1>2 DEF Arrived

LEMMA TunnelInitInv == TunnelInit => TunnelTyped /\ TunnelInv
BY DEF TunnelInit, TunnelTyped, TunnelInv, NothingArrived, Reading

\* The proxy's answer fills an empty stream.
LEMMA AnswerStep ==
    ASSUME TunnelTyped, TunnelInv, Answer
    PROVE  TunnelTyped' /\ TunnelInv'
<1>. USE DEF TunnelTyped
<1>0. PICK answer \in Answers(awaited) :
          \E n \in IF Opens(awaited, answer) THEN 0..2 ELSE {0} :
              /\ wire' = wire \o answer \o [i \in 1..n |-> Payload]
              /\ payload' = payload + n
  BY DEF Answer
<1>1. PICK n \in IF Opens(awaited, answer) THEN 0..2 ELSE {0} :
          /\ wire' = wire \o answer \o [i \in 1..n |-> Payload]
          /\ payload' = payload + n
  BY <1>0
<1>2. /\ awaited \in {"http", "method", "auth", "reply"} /\ awaited' = "none"
      /\ UNCHANGED <<proxyType, credentials, tunnelPc, got, hungUp>>
  BY DEF Answer
<1>. DEFINE k == Len(answer)
            tail == [i \in 1..n |-> Payload]
<1>13. n \in Nat /\ (awaited \in {"method", "auth"} => n = 0)
  BY DEF Opens
<1>3. answer \in Seq(Nat) /\ k \in Nat /\ k >= 1 /\ n \in Nat
  BY <1>2, <1>13, AnswerShape
<1>4. tail \in Seq(Nat) /\ Len(tail) = n /\ \A i \in 1..n : tail[i] = Payload
  BY <1>3, Padding
<1>. HIDE DEF tail
<1>5. wire \o answer \in Seq(Nat)
  BY <1>3, ConcatProperties
<1>6. (wire \o answer) \o tail \in Seq(Nat)
  BY <1>4, <1>5, ConcatProperties
<1>7. TunnelTyped'
  BY <1>1, <1>2, <1>3, <1>6 DEF tail
<1>8. CASE tunnelPc \notin Reading
  <2>1. tunnelPc # "open" /\ tunnelPc # "new"
    BY <1>2 DEF TunnelInv
  <2>. QED  BY <1>2, <1>7, <1>8, <2>1 DEF TunnelInv
<1>9. CASE tunnelPc \in Reading
  <2>1. tunnelPc \in Turns /\ awaited = TurnOf(tunnelPc) /\ got = <<>> /\ wire = <<>> /\ payload = 0
    BY <1>2, <1>9 DEF TunnelInv, NothingArrived
  <2>2. wire \o answer = answer
    BY <1>3, <2>1
  <2>3. /\ wire' = answer \o tail /\ Len(answer \o tail) = k + n
        /\ \A i \in 1..(k + n) :
               (answer \o tail)[i] = IF i =< k THEN answer[i] ELSE tail[i - k]
    <3>1. /\ Len(answer \o tail) = Len(answer) + Len(tail)
          /\ \A i \in 1..(Len(answer) + Len(tail)) :
                 (answer \o tail)[i] = IF i =< Len(answer) THEN answer[i] ELSE tail[i - Len(answer)]
      BY <1>3, <1>4, ConcatProperties
    <3>. QED  BY <1>1, <1>4, <2>2, <3>1 DEF tail
  <2>4. Arrived' = k + n /\ Len(got') = 0 /\ payload' = n
    BY <1>1, <1>2, <1>3, <2>1, <2>3 DEF Arrived
  <2>5. \A i \in 1..(k + n) : ByteAt(i)' = IF i =< k THEN answer[i] ELSE Payload
    <3>1. TAKE i \in 1..(k + n)
    <3>2. ByteAt(i)' = wire'[i]
      <4>1. ~(i =< Len(got')) /\ i - Len(got') = i
        BY <1>3, <2>4
      <4>. QED  BY <4>1 DEF ByteAt
    <3>3. CASE i =< k
      BY <2>3, <3>2, <3>3
    <3>4. CASE i > k
      <4>1. i - k \in 1..n
        BY <1>3, <3>4
      <4>. QED  BY <1>3, <1>4, <2>3, <3>2, <3>4, <4>1
    <3>. QED  BY <1>3, <3>3, <3>4
  <2>6. AnswerIs(k)'
    <3>1. CASE tunnelPc = "response"
      <4>1. awaited = "http"
        BY <2>1, <3>1 DEF TurnOf
      <4>2. answer[k] = Blank /\ \A i \in 1..(k - 1) : answer[i] # Blank
        BY <4>1, AnswerShape
      <4>3. ByteAt(k)' = Blank /\ \A i \in 1..(k - 1) : ByteAt(i)' # Blank
        <5>1. k \in 1..(k + n) /\ \A i \in 1..(k - 1) : i \in 1..(k + n) /\ i =< k
          BY <1>3
        <5>2. ByteAt(k)' = answer[k] /\ \A i \in 1..(k - 1) : ByteAt(i)' = answer[i]
          <6>. HIDE DEF k
          <6>. QED  BY <1>3, <2>5, <5>1
        <5>. HIDE DEF k
        <5>. QED  BY <4>2, <5>2
      <4>. HIDE DEF k
      <4>. QED  BY <1>2, <1>3, <3>1, <4>3 DEF AnswerIs
    <3>2. CASE tunnelPc \in {"method", "auth"}
      <4>1. awaited \in {"method", "auth"}
        BY <2>1, <3>2 DEF TurnOf
      <4>2. k = 2
        BY <4>1, AnswerShape
      <4>. HIDE DEF k
      <4>. QED  BY <1>2, <3>2, <4>2 DEF AnswerIs
    <3>3. CASE tunnelPc = "reply"
      <4>1. awaited = "reply"
        BY <2>1, <3>3 DEF TurnOf
      <4>2. k >= 6 /\ k = 4 + AddressLength(answer[4], answer[5]) + 2
        BY <4>1, AnswerShape
      <4>4. ByteAt(4)' = answer[4] /\ ByteAt(5)' = answer[5]
        <5>0. k \in Nat /\ n \in Nat /\ k >= 6
          BY <1>3, <4>2
        <5>. HIDE DEF k
        <5>1. 4 \in 1..(k + n) /\ 5 \in 1..(k + n) /\ 4 =< k /\ 5 =< k
          BY <5>0
        <5>. QED  BY <2>5, <5>1
      <4>. HIDE DEF k
      <4>. QED  BY <1>2, <3>3, <4>2, <4>4 DEF AnswerIs
    <3>. QED  BY <2>1, <3>1, <3>2, <3>3 DEF Turns
  <2>7. EndsAt(k)' /\ k \in 0..Arrived'
    <3>1. \A i \in (k + 1)..(k + n) : ByteAt(i)' = Payload
      <4>1. \A i \in (k + 1)..(k + n) : i \in 1..(k + n) /\ ~(i =< k)
        BY <1>3
      <4>. HIDE DEF k
      <4>. QED  BY <2>5, <4>1
    <3>. HIDE DEF k
    <3>. QED  BY <1>3, <2>4, <2>6, <3>1 DEF EndsAt, Cut
  <2>8. tunnelPc' \in Reading \ {"response"} => Len(got') =< Needed'
    BY <1>2, <2>1, <2>4 DEF Needed, BytesOf, Turns
  <2>9. \E m \in 0..Arrived' : EndsAt(m)'
    BY <2>7
  <2>10. tunnelPc' \in {"method", "auth"} => payload' = 0
    BY <1>2, <1>13, <2>1, <2>4 DEF TurnOf
  <2>. HIDE DEF k
  <2>. QED  BY <1>2, <1>7, <2>1, <2>8, <2>9, <2>10 DEF TunnelInv, Reading, Turns
<1>. QED  BY <1>8, <1>9

\* Reading some of what is still missing of an answer.
LEMMA TakeStep ==
    ASSUME TunnelTyped, TunnelInv, tunnelPc \in Reading, NEW n \in 1..Len(wire), Take(n),
           UNCHANGED <<tunnelPc, awaited, payload>>,
           \A m \in 0..Arrived : EndsAt(m) => Len(got) + n =< m,
           tunnelPc # "response" => n =< Needed - Len(got)
    PROVE  TunnelTyped' /\ TunnelInv'
<1>. USE DEF TunnelTyped
<1>1. /\ got' \in Seq(Nat) /\ wire' \in Seq(Nat)
      /\ Len(got') = Len(got) + n /\ Len(wire') = Len(wire) - n /\ Arrived' = Arrived
      /\ \A i \in 1..Arrived : ByteAt(i)' = ByteAt(i)
      /\ \A i \in 1..Len(got) : got'[i] = got[i]
      /\ Len(got) \in Nat /\ Len(wire) \in Nat /\ n \in Nat
  <2>1. got \in Seq(Nat) /\ wire \in Seq(Nat)
    OBVIOUS
  <2>2. Len(got) \in Nat /\ Len(wire) \in Nat /\ n \in Nat
    BY <2>1
  <2>. HIDE DEF TunnelTyped
  <2>. QED  BY <2>1, <2>2, TakeKeeps
<1>0. payload \in Nat /\ payload' \in Nat
  OBVIOUS
<1>. HIDE DEF TunnelTyped
<1>2. awaited = "none"
  BY <1>1 DEF TunnelInv, NothingArrived
<1>3. PICK m \in 0..Arrived : EndsAt(m)
  BY <1>2 DEF TunnelInv
<1>4. Arrived = m + payload /\ Len(got) + n =< m /\ AnswerIs(m) /\ m \in Nat
      /\ Arrived \in Nat /\ \A i \in (m + 1)..Arrived : ByteAt(i) = Payload
  <2>1. Arrived \in Nat
    BY <1>1 DEF Arrived
  <2>2. m \in Nat
    BY <1>3, <2>1
  <2>3. Len(got) + n =< m
    BY <1>3
  <2>4. AnswerIs(m) /\ Arrived = m + payload /\ \A i \in (m + 1)..Arrived : ByteAt(i) = Payload
    BY <1>3 DEF EndsAt, Cut
  <2>. QED  BY <2>1, <2>2, <2>3, <2>4
<1>5. AnswerIs(m)'
  <2>1. CASE tunnelPc = "response"
    <3>1. m >= 1 /\ ByteAt(m) = Blank /\ \A i \in 1..(m - 1) : ByteAt(i) # Blank
      BY <1>4, <2>1 DEF AnswerIs
    <3>2. m \in 1..Arrived /\ \A i \in 1..(m - 1) : i \in 1..Arrived
      BY <1>0, <1>4, <3>1
    <3>3. ByteAt(m)' = ByteAt(m) /\ \A i \in 1..(m - 1) : ByteAt(i)' = ByteAt(i)
      BY <1>1, <3>2
    <3>4. ByteAt(m)' = Blank /\ \A i \in 1..(m - 1) : ByteAt(i)' # Blank
      BY <3>1, <3>3
    <3>. QED  BY <2>1, <3>1, <3>4 DEF AnswerIs
  <2>2. CASE tunnelPc = "reply"
    <3>1. m >= 6
      BY <1>4, <2>2 DEF AnswerIs
    <3>2. ByteAt(4)' = ByteAt(4) /\ ByteAt(5)' = ByteAt(5)
      <4>1. 4 \in 1..Arrived /\ 5 \in 1..Arrived
        BY <1>0, <1>4, <3>1
      <4>. QED  BY <1>1, <4>1
    <3>. QED  BY <1>4, <2>2, <3>2 DEF AnswerIs
  <2>3. CASE tunnelPc \in {"length", "domain"}
    <3>0. m >= 3
      BY <1>4, <2>3 DEF AnswerIs
    <3>1. ByteAt(1)' = ByteAt(1)
      <4>1. 1 \in 1..Arrived
        BY <1>0, <1>4, <3>0
      <4>. QED  BY <1>1, <4>1
    <3>. QED  BY <1>4, <2>3, <3>1 DEF AnswerIs
  <2>4. CASE tunnelPc \in {"method", "auth", "port", "ipv4", "ipv6"}
    BY <1>4, <2>4 DEF AnswerIs
  <2>. QED  BY <2>1, <2>2, <2>3, <2>4 DEF Reading
<1>6. EndsAt(m)'
  <2>1. Len(got') =< m
    BY <1>1, <1>4
  <2>2. \A i \in (m + 1)..Arrived : ByteAt(i)' = Payload
    <3>1. \A i \in (m + 1)..Arrived : i \in 1..Arrived
      BY <1>4
    <3>. QED  BY <1>1, <1>4, <3>1
  <2>. QED  BY <1>1, <1>4, <1>5, <2>1, <2>2 DEF EndsAt, Cut
<1>7. tunnelPc \in Reading \ {"response"} => Len(got') =< Needed'
  <2>1. tunnelPc = "domain" => got'[1] = got[1] /\ got[1] \in Nat
    <3>1. SUFFICES ASSUME tunnelPc = "domain" PROVE got'[1] = got[1] /\ got[1] \in Nat
      OBVIOUS
    <3>2. 1 \in 1..Len(got)
      BY <1>1, <3>1 DEF TunnelInv
    <3>. QED  BY <1>1, <3>2, ElementOfSeq
  <2>2. tunnelPc \in Reading \ {"response"} => Needed' = Needed /\ Needed \in Nat
    <3>1. CASE tunnelPc = "domain"
      <4>. DEFINE x == got[1]
                  y == got'[1]
      <4>1. Needed = x + 1 /\ Needed' = y + 1
        BY <3>1 DEF Needed
      <4>2. y = x /\ x \in Nat
        BY <2>1, <3>1
      <4>. HIDE DEF x, y
      <4>. QED  BY <4>1, <4>2
    <3>2. CASE tunnelPc # "domain"
      <4>1. Needed = BytesOf(tunnelPc) /\ Needed' = BytesOf(tunnelPc)
        BY <3>2 DEF Needed
      <4>2. BytesOf(tunnelPc) \in Nat
        BY DEF BytesOf
      <4>. QED  BY <4>1, <4>2
    <3>. QED  BY <3>1, <3>2
  <2>. QED  BY <1>1, <2>2
<1>8. m \in 0..Arrived'
  BY <1>1, <1>4
<1>9. TunnelTyped'
  BY <1>0, <1>1 DEF TunnelTyped
<1>. QED  BY <1>1, <1>2, <1>6, <1>7, <1>8, <1>9 DEF TunnelInv, Reading

\* No answer is shorter than what its phase asks for.
LEMMA NeededIsThere ==
    ASSUME TunnelTyped, TunnelInv, tunnelPc \in Reading \ {"response"},
           NEW m \in Nat, EndsAt(m)
    PROVE  Needed \in Nat \ {0} /\ Needed =< m
<1>. USE DEF TunnelTyped
<1>1. CASE tunnelPc = "domain"
  <2>1. Len(got) \in Nat /\ Len(got) >= 1
    BY <1>1 DEF TunnelInv
  <2>2. got[1] \in Nat /\ ByteAt(1) = got[1]
    BY <2>1, ElementOfSeq DEF ByteAt
  <2>3. m = 1 + ByteAt(1) + 2
    BY <1>1 DEF EndsAt, AnswerIs
  <2>. QED  BY <1>1, <2>2, <2>3 DEF Needed
<1>2. CASE tunnelPc # "domain"
  <2>1. Needed = BytesOf(tunnelPc)
    BY <1>2 DEF Needed
  <2>2. AnswerIs(m)
    BY DEF EndsAt
  <2>. QED  BY <1>2, <2>1, <2>2 DEF BytesOf, AnswerIs, Reading
<1>. QED  BY <1>1, <1>2

LEMMA ReadByteStep ==
    ASSUME TunnelTyped, TunnelInv, ReadByte
    PROVE  TunnelTyped' /\ TunnelInv'
<1>. USE DEF TunnelTyped
<1>1. /\ tunnelPc = "response" /\ wire # <<>> /\ ~Terminated /\ Take(1)
      /\ tunnelPc' \in {"closed", tunnelPc} /\ UNCHANGED <<awaited, payload>>
  BY DEF ReadByte
<1>2. Len(wire) \in Nat /\ 1 \in 1..Len(wire) /\ Len(got) \in Nat
  BY <1>1, EmptySeq
<1>3. CASE tunnelPc' = "closed"
  <2>1. got' \in Seq(Nat) /\ wire' \in Seq(Nat)
    BY <1>1, <1>2, TakeKeeps
  <2>. QED  BY <1>1, <1>3, <2>1 DEF TunnelInv, Reading
<1>4. CASE tunnelPc' = tunnelPc
  <2>1. ASSUME NEW m \in 0..Arrived, EndsAt(m) PROVE Len(got) + 1 =< m
    <3>1. m \in Nat /\ m >= 1 /\ ByteAt(m) = Blank /\ Len(got) =< m
      BY <1>1, <1>2, <2>1 DEF EndsAt, Cut, AnswerIs, Arrived
    <3>2. Len(got) # m
      BY <1>1, <1>2, <3>1 DEF Terminated, ByteAt
    <3>. QED  BY <1>2, <3>1, <3>2
  <2>. QED  BY <1>1, <1>2, <1>4, <2>1, TakeStep DEF Reading
<1>. QED  BY <1>1, <1>3, <1>4

LEMMA ReadSomeStep ==
    ASSUME TunnelTyped, TunnelInv, ReadSome
    PROVE  TunnelTyped' /\ TunnelInv'
<1>. USE DEF TunnelTyped
<1>1. PICK n \in 1..Len(wire) : n =< Needed - Len(got) /\ Take(n)
  BY DEF ReadSome
<1>2. /\ tunnelPc \in Reading \ {"response"} /\ UNCHANGED <<tunnelPc, awaited, payload>>
      /\ Len(got) \in Nat /\ Len(wire) \in Nat
  BY DEF ReadSome
<1>3. ASSUME NEW m \in 0..Arrived, EndsAt(m) PROVE Len(got) + n =< m
  <2>1. m \in Nat
    BY <1>2 DEF Arrived
  <2>2. Needed \in Nat /\ Needed =< m
    BY <1>2, <1>3, <2>1, NeededIsThere
  <2>. QED  BY <1>1, <1>2, <2>1, <2>2
<1>. QED  BY <1>1, <1>2, <1>3, TakeStep

\* What is left of an answer once a phase consumed what it read.
LEMMA RestIsCut ==
    ASSUME TunnelTyped, NEW m \in Nat, Cut(m), got' = <<>>, UNCHANGED <<wire, payload>>
    PROVE  /\ \E r \in 0..Arrived' : r = m - Len(got) /\ Cut(r)'
           /\ \A i \in 1..Len(wire) : ByteAt(i)' = ByteAt(Len(got) + i)
           /\ got' \in Seq(Nat) /\ wire' \in Seq(Nat) /\ Len(got') = 0
<1>. USE DEF TunnelTyped
<1>1. /\ got' \in Seq(Nat) /\ Len(got') = 0 /\ Arrived' = Arrived - Len(got)
      /\ \A i \in 1..Len(wire) : ByteAt(i)' = ByteAt(Len(got) + i)
  BY ConsumeKeeps
<1>2. /\ Len(got) \in Nat /\ Len(wire) \in Nat /\ Arrived = Len(got) + Len(wire)
      /\ Arrived = m + payload /\ Len(got) =< m
      /\ \A i \in (m + 1)..Arrived : ByteAt(i) = Payload
  BY DEF Arrived, Cut
<1>10. m - Len(got) \in Nat
  BY <1>2
<1>0. PICK r \in Nat : r = m - Len(got)
  BY <1>10
<1>3. ASSUME NEW i \in (r + 1)..Arrived' PROVE ByteAt(i)' = Payload
  <2>1. i \in 1..Len(wire) /\ Len(got) + i \in (m + 1)..Arrived
    BY <1>0, <1>1, <1>2, <1>3
  <2>. QED  BY <1>1, <1>2, <2>1
<1>4. r \in 0..Arrived' /\ Arrived' = r + payload'
  <2>1. Arrived' = r + payload
    <3>1. Arrived' = Arrived - Len(got) /\ Arrived = m + payload
      BY <1>1, <1>2
    <3>2. Len(got) \in Int /\ payload \in Int /\ m \in Int
      BY <1>2
    <3>. QED  BY <1>0, <3>1, <3>2
  <2>. QED  BY <2>1
<1>5. Cut(r)'
  <2>1. \A i \in (r + 1)..Arrived' : ByteAt(i)' = Payload
    BY <1>3
  <2>2. Len(got') =< r
    BY <1>1
  <2>. QED  BY <1>4, <2>1, <2>2 DEF Cut
<1>. QED  BY <1>0, <1>1, <1>4, <1>5

\* A phase that read all it asked for is not waiting for the proxy.
LEMMA AnswerIsHere ==
    ASSUME TunnelTyped, TunnelInv, tunnelPc \in Reading, Len(got) > 0
    PROVE  awaited = "none" /\ \E m \in Nat : EndsAt(m)
<1>. USE DEF TunnelTyped
<1>1. awaited = "none"
  BY DEF TunnelInv, NothingArrived
<1>2. PICK m \in 0..Arrived : EndsAt(m)
  BY <1>1 DEF TunnelInv
<1>3. m \in Nat
  BY DEF Arrived
<1>. QED  BY <1>1, <1>2, <1>3

LEMMA StatusStep ==
    ASSUME TunnelTyped, TunnelInv, Status
    PROVE  TunnelTyped' /\ TunnelInv'
<1>. USE DEF TunnelTyped
<1>1. /\ tunnelPc = "response" /\ got' = <<>> /\ UNCHANGED <<wire, awaited, payload>>
      /\ tunnelPc' \in {"open", "closed", "leaked"} /\ Len(got) \in Nat
  BY DEF Status, Verdict
<1>2. PICK i \in 1..Len(got) : got[i] = Blank
  BY DEF Status, Terminated
<1>3. awaited = "none" /\ \E m \in Nat : EndsAt(m)
  BY <1>1, <1>2, AnswerIsHere DEF Reading
<1>4. PICK m \in Nat : EndsAt(m)
  BY <1>3
<1>5. m = Len(got)
  <2>1. Len(got) =< m /\ \A j \in 1..(m - 1) : ByteAt(j) # Blank
    BY <1>1, <1>4 DEF EndsAt, Cut, AnswerIs
  <2>2. ByteAt(i) = Blank /\ i \in Nat /\ i >= 1
    BY <1>1, <1>2 DEF ByteAt
  <2>. QED  BY <1>1, <1>2, <2>1, <2>2
<1>6. /\ \E r \in 0..Arrived' : r = m - Len(got) /\ Cut(r)'
      /\ got' \in Seq(Nat) /\ wire' \in Seq(Nat)
  BY <1>1, <1>4, RestIsCut DEF EndsAt
<1>7. Cut(0)'
  BY <1>1, <1>5, <1>6
<1>8. tunnelPc' = "open" => EndsAt(0)'
  BY <1>7 DEF EndsAt, AnswerIs
<1>. QED  BY <1>1, <1>3, <1>6, <1>8 DEF TunnelInv, Reading

\* The method and the answer to the credentials are of two bytes, and after
\* them the proxy waits to be asked.
LEMMA TurnsStep ==
    ASSUME TunnelTyped, TunnelInv, Method \/ Authenticated
    PROVE  TunnelTyped' /\ TunnelInv'
<1>. USE DEF TunnelTyped
<1>1. /\ tunnelPc \in {"method", "auth"} /\ Len(got) = 2 /\ got' = <<>>
      /\ UNCHANGED <<wire, payload>>
      /\ \/ tunnelPc' \in {"reply", "auth"} /\ awaited' = tunnelPc'
         \/ tunnelPc' = "closed" /\ awaited' = "none"
  BY DEF Method, Authenticated, Continue, Needed, BytesOf
<1>2. PICK m \in Nat : EndsAt(m)
  BY <1>1, AnswerIsHere DEF Reading
<1>3. m = 2 /\ payload = 0 /\ Len(wire) = 0
  BY <1>1, <1>2 DEF EndsAt, AnswerIs, Cut, Arrived, TunnelInv
<1>4. wire' = <<>> /\ payload' = 0
  BY <1>1, <1>3, EmptySeq
<1>. QED  BY <1>1, <1>4 DEF TunnelInv, NothingArrived, Turns, TurnOf, Needed, BytesOf, Reading

LEMMA ReplyStep ==
    ASSUME TunnelTyped, TunnelInv, Reply
    PROVE  TunnelTyped' /\ TunnelInv'
<1>. USE DEF TunnelTyped
<1>1. /\ tunnelPc = "reply" /\ Len(got) = 4 /\ got' = <<>> /\ UNCHANGED <<wire, awaited, payload>>
      /\ \/ tunnelPc' = "closed"
         \/ tunnelPc' = "ipv4" /\ got[4] = 1
         \/ tunnelPc' = "ipv6" /\ got[4] = 4
         \/ tunnelPc' = "length" /\ got[4] = 3
  BY DEF Reply, Needed, BytesOf
<1>2. awaited = "none" /\ \E m \in Nat : EndsAt(m)
  BY <1>1, AnswerIsHere DEF Reading
<1>3. PICK m \in Nat : EndsAt(m)
  BY <1>2
<1>14. /\ \E r \in 0..Arrived' : r = m - Len(got) /\ Cut(r)'
      /\ \A i \in 1..Len(wire) : ByteAt(i)' = ByteAt(Len(got) + i)
      /\ got' \in Seq(Nat) /\ wire' \in Seq(Nat) /\ Len(got') = 0
  BY <1>1, <1>3, RestIsCut DEF EndsAt
<1>4. PICK r \in 0..Arrived' : r = m - Len(got) /\ Cut(r)'
  BY <1>14
<1>5. m >= 6 /\ m = 4 + AddressLength(got[4], ByteAt(5)) + 2
  <2>1. ByteAt(4) = got[4]
    BY <1>1 DEF ByteAt
  <2>. QED  BY <1>1, <1>3, <2>1 DEF EndsAt, AnswerIs
<1>6. CASE tunnelPc' = "closed"
  BY <1>1, <1>14, <1>6 DEF TunnelInv, Reading
<1>7. CASE tunnelPc' \in {"ipv4", "ipv6"}
  <2>1. AnswerIs(r)'
    <3>1. r = AddressLength(got[4], ByteAt(5)) + 2
      BY <1>1, <1>3, <1>4, <1>5, <1>7 DEF AddressLength
    <3>. QED  BY <1>1, <1>7, <3>1 DEF AnswerIs, AddressLength
  <2>2. \E k \in 0..Arrived' : EndsAt(k)'
    BY <1>4, <2>1 DEF EndsAt
  <2>. QED  BY <1>1, <1>2, <1>14, <1>7, <2>2 DEF TunnelInv, Reading, Needed, BytesOf
<1>8. CASE tunnelPc' = "length"
  <2>1. m = 4 + (1 + ByteAt(5)) + 2
    BY <1>1, <1>5, <1>8 DEF AddressLength
  <2>2. 1 \in 1..Len(wire)
    BY <1>1, <1>3, <1>5 DEF EndsAt, Cut, Arrived
  <2>3. ByteAt(1)' = ByteAt(5) /\ ByteAt(5) \in Nat
    <3>1. ByteAt(5) = wire[1]
      BY <1>1 DEF ByteAt
    <3>2. wire[1] \in Nat
      BY <2>2, ElementOfSeq
    <3>3. Len(got) + 1 = 5
      BY <1>1
    <3>. QED  BY <1>14, <2>2, <3>1, <3>2, <3>3
  <2>4. AnswerIs(r)'
    <3>1. r >= 3 /\ r = 1 + ByteAt(5) + 2
      BY <1>1, <1>4, <2>1, <2>3
    <3>. QED  BY <1>8, <2>3, <3>1 DEF AnswerIs
  <2>5. \E k \in 0..Arrived' : EndsAt(k)'
    BY <1>4, <2>4 DEF EndsAt
  <2>. QED  BY <1>1, <1>2, <1>14, <1>8, <2>5 DEF TunnelInv, Reading, Needed, BytesOf
<1>. QED  BY <1>1, <1>6, <1>7, <1>8

LEMMA BoundStep ==
    ASSUME TunnelTyped, TunnelInv, Bound
    PROVE  TunnelTyped' /\ TunnelInv'
<1>. USE DEF TunnelTyped
<1>1. /\ tunnelPc \in {"ipv4", "ipv6", "length", "domain"} /\ Len(got) = Needed
      /\ UNCHANGED <<wire, awaited, payload>>
  BY DEF Bound
<1>2. Needed \in Nat /\ Needed > 0
  <2>1. tunnelPc = "domain" => got[1] \in Nat
    BY ElementOfSeq DEF TunnelInv
  <2>. QED  BY <1>1, <2>1 DEF Needed, BytesOf
<1>3. awaited = "none" /\ \E m \in Nat : EndsAt(m)
  BY <1>1, <1>2, AnswerIsHere DEF Reading
<1>4. PICK m \in Nat : EndsAt(m)
  BY <1>3
<1>5. CASE tunnelPc = "length"
  <2>1. tunnelPc' = "domain" /\ got' = got /\ Len(got) = 1
    BY <1>1, <1>5 DEF Bound, Needed, BytesOf
  <2>2. EndsAt(m)' /\ m \in 0..Arrived'
    <3>1. Arrived' = Arrived /\ \A i : ByteAt(i)' = ByteAt(i)
      BY <1>1, <2>1 DEF Arrived, ByteAt
    <3>2. Cut(m)'
      BY <1>1, <1>4, <2>1, <3>1 DEF EndsAt, Cut
    <3>3. AnswerIs(m)'
      BY <1>4, <1>5, <2>1, <3>1 DEF EndsAt, AnswerIs
    <3>4. m \in 0..Arrived'
      BY <1>4, <3>1 DEF EndsAt, Cut
    <3>. QED  BY <3>2, <3>3, <3>4 DEF EndsAt
  <2>3. got[1] \in Nat /\ Needed' = got[1] + 1
    <3>1. 1 \in 1..Len(got)
      BY <2>1
    <3>2. got[1] \in Nat
      BY <3>1, ElementOfSeq
    <3>. QED  BY <2>1, <3>2 DEF Needed
  <2>4. \E k \in 0..Arrived' : EndsAt(k)'
    BY <2>2
  <2>5. Len(got') =< Needed' /\ Len(got') >= 1
    BY <2>1, <2>3
  <2>. QED  BY <1>1, <1>3, <2>1, <2>4, <2>5 DEF TunnelInv, Reading
<1>6. CASE tunnelPc # "length"
  <2>1. tunnelPc' = "port" /\ got' = <<>>
    BY <1>1, <1>6 DEF Bound
  <2>2. /\ \E r \in 0..Arrived' : r = m - Len(got) /\ Cut(r)'
        /\ got' \in Seq(Nat) /\ wire' \in Seq(Nat) /\ Len(got') = 0
    BY <1>1, <1>4, <2>1, RestIsCut DEF EndsAt
  <2>3. m - Len(got) = 2
    <3>1. CASE tunnelPc = "domain"
      <4>1. Len(got) >= 1 /\ Len(got) = got[1] + 1
        BY <1>1, <3>1 DEF TunnelInv, Needed
      <4>2. ByteAt(1) = got[1] /\ got[1] \in Nat
        BY <4>1, ElementOfSeq DEF ByteAt
      <4>3. m = 1 + ByteAt(1) + 2
        BY <1>4, <3>1 DEF EndsAt, AnswerIs
      <4>. QED  BY <4>1, <4>2, <4>3
    <3>2. CASE tunnelPc \in {"ipv4", "ipv6"}
      BY <1>1, <1>4, <3>2 DEF EndsAt, AnswerIs, Needed, BytesOf
    <3>. QED  BY <1>1, <1>6, <3>1, <3>2
  <2>4. AnswerIs(2)'
    BY <2>1 DEF AnswerIs
  <2>5. \E k \in 0..Arrived' : EndsAt(k)'
    BY <2>2, <2>3, <2>4 DEF EndsAt
  <2>. QED  BY <1>1, <1>3, <2>1, <2>2, <2>5 DEF TunnelInv, Reading, Needed, BytesOf
<1>. QED  BY <1>5, <1>6

LEMMA PortStep ==
    ASSUME TunnelTyped, TunnelInv, Port
    PROVE  TunnelTyped' /\ TunnelInv'
<1>. USE DEF TunnelTyped
<1>1. /\ tunnelPc = "port" /\ Len(got) = 2 /\ tunnelPc' = "open" /\ got' = <<>>
      /\ UNCHANGED <<wire, awaited, payload>>
  BY DEF Port, Needed, BytesOf
<1>2. awaited = "none" /\ \E m \in Nat : EndsAt(m)
  BY <1>1, AnswerIsHere DEF Reading
<1>3. PICK m \in Nat : EndsAt(m)
  BY <1>2
<1>4. m - Len(got) = 0
  BY <1>1, <1>3 DEF EndsAt, AnswerIs
<1>5. (\E r \in 0..Arrived' : r = m - Len(got) /\ Cut(r)') /\ got' \in Seq(Nat) /\ wire' \in Seq(Nat)
  BY <1>1, <1>3, RestIsCut DEF EndsAt
<1>6. EndsAt(0)'
  <2>1. AnswerIs(0)'
    BY <1>1 DEF AnswerIs
  <2>. QED  BY <1>4, <1>5, <2>1 DEF EndsAt
<1>. QED  BY <1>1, <1>2, <1>5, <1>6 DEF TunnelInv, Reading

LEMMA TunnelStep == TunnelTyped /\ TunnelInv /\ [TunnelNext]_tunnelVars => TunnelTyped' /\ TunnelInv'
<1>. SUFFICES ASSUME TunnelTyped, TunnelInv, [TunnelNext]_tunnelVars
              PROVE  TunnelTyped' /\ TunnelInv'
  OBVIOUS
<1>1. CASE Connect
  BY <1>1 DEF Connect, TunnelTyped, TunnelInv, NothingArrived, Turns, TurnOf, Reading, Needed, BytesOf
<1>2. CASE HangUp \/ UNCHANGED tunnelVars
  <2>1. UNCHANGED <<tunnelPc, got, wire, awaited, payload>>
    BY <1>2 DEF HangUp, tunnelVars
  <2>2. Arrived' = Arrived /\ Needed' = Needed /\ \A m : EndsAt(m)' = EndsAt(m)
    BY <2>1 DEF Arrived, Needed, EndsAt, Cut, AnswerIs, ByteAt
  <2>. QED  BY <2>1, <2>2 DEF TunnelTyped, TunnelInv, NothingArrived
<1>3. CASE ReadFails \/ NoDestination \/ BundleUnreadable \/ OpenTls
  <2>1. /\ tunnelPc' \in {"closed", "leaked", "secured"} /\ awaited' \in {awaited, "none"}
        /\ UNCHANGED <<got, wire, payload>>
    BY <1>3 DEF ReadFails, NoDestination, Continue, BundleUnreadable, OpenTls
  <2>. QED  BY <2>1 DEF TunnelTyped, TunnelInv, Reading
<1>. QED
  BY <1>1, <1>2, <1>3, AnswerStep, ReadByteStep, ReadSomeStep, StatusStep, TurnsStep, ReplyStep,
     BoundStep, PortStep DEF TunnelNext

\* Any number of header bytes, any address and any way of cutting the stream: when the tunnel
\* is handed out, the handshake has read the proxy's answers to the last byte and no byte
\* of the destination.
THEOREM TunnelsStartAtPayload == TunnelSpec => []TunnelStartsAtPayload
<1>1. TunnelTyped /\ TunnelInv => TunnelStartsAtPayload
  <2>. SUFFICES ASSUME TunnelTyped, TunnelInv, tunnelPc = "open"
                PROVE  Len(wire) = payload /\ \A i \in 1..Len(wire) : wire[i] = Payload
    BY DEF TunnelStartsAtPayload
  <2>1. /\ Arrived = 0 + payload /\ Len(got) =< 0
        /\ \A i \in (0 + 1)..Arrived : ByteAt(i) = Payload
    BY DEF TunnelInv, EndsAt, Cut
  <2>2. Len(got) = 0 /\ Len(wire) \in Nat
    BY <2>1 DEF TunnelTyped
  <2>3. \A i \in 1..Len(wire) : ByteAt(i) = wire[i]
    BY <2>2 DEF ByteAt
  <2>. QED  BY <2>1, <2>2, <2>3 DEF Arrived, TunnelTyped
<1>. QED  BY <1>1, TunnelInitInv, TunnelStep, PTL DEF TunnelSpec

-----------------------------------------------------------------------------
(* The metrics of Telemetry: the inductive invariant *)

\* A scrape is under way.
Begun == scrapePc \in {"counter", "buckets", "sum", "count", "rendered"}

\* What the proofs need of the types; a scrape not begun holds what the last one read.
TelemetryTypeOK ==
    /\ bytesTotal \in Nat
    /\ rawCounts \in [Buckets -> Nat]
    /\ series \in [sum : Nat, count : Nat]
    /\ toObserve \in [Recorders -> Durations \cup {0}]
    /\ observations \in [Durations -> Nat]
    /\ scrapePc \in {"idle", "counter", "buckets", "sum", "count", "rendered"}
    /\ {scraped, previous} \subseteq [bytes : Nat, buckets : [Buckets -> Nat], sum : Nat, count : Nat]
    /\ atStart \in [Durations -> Nat]

\* Every observation is in the buckets of its bound and above, and counted.
HistogramIsExact ==
    /\ \A b \in Buckets : Cumulative(rawCounts)[b] = AtOrBelow(observations, b)
    /\ series.count = AtOrBelow(observations, Infinity)

\* What this scrape has read so far lies between the last scrape and now.
ScrapeLags ==
    /\ Begun => \A b \in Buckets : AtOrBelow(atStart, b) =< AtOrBelow(observations, b)
    /\ Begun => previous.count =< AtOrBelow(atStart, Infinity)
    /\ previous.bytes =< bytesTotal /\ previous.sum =< series.sum /\ previous.count =< series.count
    /\ scrapePc \in {"buckets", "sum", "count", "rendered"} =>
           previous.bytes =< scraped.bytes /\ scraped.bytes =< bytesTotal
    /\ scrapePc \in {"sum", "count", "rendered"} =>
           \A b \in Buckets :
               scraped.buckets[b] \in AtOrBelow(atStart, b)..AtOrBelow(observations, b)
    /\ scrapePc \in {"count", "rendered"} =>
           previous.sum =< scraped.sum /\ scraped.sum =< series.sum
    /\ scrapePc = "rendered" =>
           scraped.buckets[Infinity] =< scraped.count /\ scraped.count =< series.count

\* The invariants are inductive together.
TelemetryInv == TelemetryTypeOK /\ HistogramIsExact /\ ScrapeLags

-----------------------------------------------------------------------------

\* There are finitely many buckets and durations.
LEMMA BucketsFinite ==
    /\ Infinity \in Nat \ {0} /\ \A d \in Durations : d < Infinity
    /\ \A b \in Bounds : b < Infinity
    /\ IsFiniteSet(Buckets) /\ Buckets \subseteq Nat /\ Infinity \in Buckets
<1>. DEFINE S == Bounds \cup Durations
<1>0. /\ IsFiniteSet(Bounds) /\ Bounds \subseteq Nat /\ Bounds # {}
      /\ IsFiniteSet(Durations) /\ Durations \subseteq Nat
  BY TelemetryAssumption
<1>1. S \subseteq Nat /\ S # {} /\ S \in SUBSET Int
  BY <1>0
<1>1a. IsFiniteSet(S)
  BY <1>0, FS_Union
<1>. HIDE DEF S
<1>2. Max(S) \in S /\ \A x \in S : Max(S) >= x
  BY <1>1, <1>1a, MaxExists
<1>3. Infinity = 1 + Max(S)
  BY DEF Infinity, S
<1>4. Infinity \in Nat \ {0} /\ \A x \in S : x < Infinity
  <2>1. Max(S) \in Nat
    BY <1>1, <1>2
  <2>. HIDE DEF Infinity
  <2>2. Infinity \in Nat \ {0}
    BY <1>3, <2>1
  <2>3. ASSUME NEW x \in S PROVE x < Infinity
    <3>1. x \in Nat /\ Max(S) >= x
      BY <1>1, <1>2
    <3>. QED  BY <1>3, <2>1, <3>1
  <2>. QED  BY <2>2, <2>3
<1>5. IsFiniteSet(Buckets)
  BY TelemetryAssumption, FS_AddElement DEF Buckets
<1>. QED  BY <1>4, <1>5, TelemetryAssumption DEF S, Buckets

\* The bucket of a duration is the first that is not below it.
LEMMA BucketOfIsFirst ==
    ASSUME NEW d \in Durations
    PROVE  BucketOf(d) \in Buckets /\ \A b \in Buckets : BucketOf(d) =< b <=> d =< b
<1>. DEFINE S == {b \in Buckets : d =< b}
<1>1. IsFiniteSet(S)
  BY BucketsFinite, FS_Subset
<1>2. d \in Nat /\ S \in SUBSET Int /\ Infinity \in S
  <2>1. d \in Nat
    BY TelemetryAssumption
  <2>2. d < Infinity /\ Infinity \in Nat /\ Infinity \in Buckets /\ Buckets \subseteq Nat
    BY BucketsFinite
  <2>3. Infinity \in S
    BY <2>1, <2>2
  <2>4. S \subseteq Int
    <3>1. S \subseteq Buckets
      OBVIOUS
    <3>2. Buckets \subseteq Int
      BY <2>2
    <3>. HIDE DEF S
    <3>. QED  BY <3>1, <3>2
  <2>. QED  BY <2>1, <2>3, <2>4
<1>3. BucketOf(d) = Min(S)
  BY DEF BucketOf
<1>4. Min(S) \in S /\ \A x \in S : Min(S) =< x
  <2>. HIDE DEF S
  <2>. QED  BY <1>1, <1>2, MinExists
<1>. QED  BY <1>2, <1>3, <1>4, BucketsFinite

\* The observations at or below a bound are a sum.
LEMMA AtOrBelowIsSum ==
    ASSUME NEW obs, NEW bound
    PROVE  AtOrBelow(obs, bound) = Sum({d \in Durations : d =< bound}, obs)
BY DEF AtOrBelow, Sum

\* So is a cumulative bucket.
LEMMA CumulativeIsSum ==
    ASSUME NEW raw, NEW b \in Buckets
    PROVE  Cumulative(raw)[b] = Sum({c \in Buckets : c =< b}, raw)
BY DEF Cumulative, Sum

\* Both are numbers.
LEMMA SumsNatural ==
    /\ \A obs \in [Durations -> Nat] : \A b \in Buckets : AtOrBelow(obs, b) \in Nat
    /\ \A raw \in [Buckets -> Nat] : Cumulative(raw) \in [Buckets -> Nat]
<1>1. ASSUME NEW obs \in [Durations -> Nat], NEW b \in Buckets PROVE AtOrBelow(obs, b) \in Nat
  <2>. DEFINE S == {d \in Durations : d =< b}
  <2>1. IsFiniteSet(S) /\ \A x \in S : obs[x] \in Nat
    BY TelemetryAssumption, FS_Subset
  <2>. HIDE DEF S
  <2>2. Sum(S, obs) \in Nat
    BY <2>1, SumIsNatural
  <2>. QED  BY <2>2, AtOrBelowIsSum DEF S
<1>2. ASSUME NEW raw \in [Buckets -> Nat], NEW b \in Buckets PROVE Cumulative(raw)[b] \in Nat
  <2>. DEFINE S == {d \in Buckets : d =< b}
  <2>1. IsFiniteSet(S) /\ \A x \in S : raw[x] \in Nat
    BY BucketsFinite, FS_Subset
  <2>. HIDE DEF S
  <2>2. Sum(S, raw) \in Nat
    BY <2>1, SumIsNatural
  <2>. QED  BY <2>2, CumulativeIsSum DEF S
<1>3. ASSUME NEW raw PROVE Cumulative(raw) = [b \in Buckets |-> Cumulative(raw)[b]]
  BY DEF Cumulative
<1>. QED  BY <1>1, <1>2, <1>3

\* Counts with one more of x.
OneMore(counts, x) == [counts EXCEPT ![x] = @ + 1]

\* One more observation of d is one more in every bucket at or above it.
LEMMA OneMoreObserved ==
    ASSUME NEW obs \in [Durations -> Nat], NEW raw \in [Buckets -> Nat],
           NEW d \in Durations, NEW b \in Buckets
    PROVE  /\ AtOrBelow(OneMore(obs, d), b) = AtOrBelow(obs, b) + (IF d =< b THEN 1 ELSE 0)
           /\ Cumulative(OneMore(raw, BucketOf(d)))[b]
                  = Cumulative(raw)[b] + (IF d =< b THEN 1 ELSE 0)
<1>. USE DEF OneMore
<1>1. AtOrBelow([obs EXCEPT ![d] = @ + 1], b) = AtOrBelow(obs, b) + (IF d =< b THEN 1 ELSE 0)
  <2>. DEFINE S == {x \in Durations : x =< b}
              more == [obs EXCEPT ![d] = @ + 1]
  <2>1. IsFiniteSet(S) /\ \A x \in S : obs[x] \in Nat /\ more[x] = IF x = d THEN obs[x] + 1 ELSE obs[x]
    BY TelemetryAssumption, FS_Subset
  <2>2. d \in S <=> d =< b
    OBVIOUS
  <2>3. AtOrBelow(more, b) = Sum(S, more) /\ AtOrBelow(obs, b) = Sum(S, obs)
    BY AtOrBelowIsSum
  <2>. HIDE DEF S, more
  <2>4. Sum(S, more) = Sum(S, obs) + (IF d \in S THEN 1 ELSE 0)
    BY <2>1, SumOfOneMore
  <2>5. AtOrBelow(more, b) = AtOrBelow(obs, b) + (IF d =< b THEN 1 ELSE 0)
    BY <2>2, <2>3, <2>4
  <2>. QED  BY <2>5 DEF more
<1>2. Cumulative([raw EXCEPT ![BucketOf(d)] = @ + 1])[b]
          = Cumulative(raw)[b] + (IF d =< b THEN 1 ELSE 0)
  <2>. DEFINE S == {x \in Buckets : x =< b}
              t == BucketOf(d)
              more == [raw EXCEPT ![t] = @ + 1]
  <2>1. IsFiniteSet(S) /\ \A x \in S : raw[x] \in Nat /\ more[x] = IF x = t THEN raw[x] + 1 ELSE raw[x]
    BY BucketsFinite, FS_Subset
  <2>2. t \in S <=> d =< b
    BY BucketOfIsFirst
  <2>3. Cumulative(more)[b] = Sum(S, more) /\ Cumulative(raw)[b] = Sum(S, raw)
    BY CumulativeIsSum
  <2>. HIDE DEF S, more, t
  <2>4. Sum(S, more) = Sum(S, raw) + (IF t \in S THEN 1 ELSE 0)
    BY <2>1, SumOfOneMore
  <2>5. Cumulative(more)[b] = Cumulative(raw)[b] + (IF d =< b THEN 1 ELSE 0)
    BY <2>2, <2>3, <2>4
  <2>. QED  BY <2>5 DEF more, t
<1>. QED  BY <1>1, <1>2

\* Without observations both are zero.
LEMMA NothingObserved ==
    \A b \in Buckets : /\ AtOrBelow([d \in Durations |-> 0], b) = 0
                       /\ Cumulative([c \in Buckets |-> 0])[b] = 0
<1>. SUFFICES ASSUME NEW b \in Buckets
              PROVE  /\ AtOrBelow([d \in Durations |-> 0], b) = 0
                     /\ Cumulative([c \in Buckets |-> 0])[b] = 0
  OBVIOUS
<1>1. AtOrBelow([d \in Durations |-> 0], b) = 0
  <2>. DEFINE S == {x \in Durations : x =< b}
              zero == [d \in Durations |-> 0]
  <2>1. IsFiniteSet(S) /\ \A x \in S : zero[x] = 0
    BY TelemetryAssumption, FS_Subset
  <2>2. AtOrBelow(zero, b) = Sum(S, zero)
    BY AtOrBelowIsSum
  <2>. HIDE DEF S, zero
  <2>3. AtOrBelow(zero, b) = 0
    BY <2>1, <2>2, SumOfNothing
  <2>. QED  BY <2>3 DEF zero
<1>2. Cumulative([c \in Buckets |-> 0])[b] = 0
  <2>. DEFINE S == {x \in Buckets : x =< b}
              zero == [c \in Buckets |-> 0]
  <2>1. IsFiniteSet(S) /\ \A x \in S : zero[x] = 0
    BY BucketsFinite, FS_Subset
  <2>2. Cumulative(zero)[b] = Sum(S, zero)
    BY CumulativeIsSum
  <2>. HIDE DEF S, zero
  <2>3. Cumulative(zero)[b] = 0
    BY <2>1, <2>2, SumOfNothing
  <2>. QED  BY <2>3 DEF zero
<1>. QED  BY <1>1, <1>2

-----------------------------------------------------------------------------

\* The invariants hold at the start.
LEMMA TelemetryInvInit == TelemetryInit => TelemetryInv
<1>. SUFFICES ASSUME TelemetryInit PROVE TelemetryInv
  OBVIOUS
<1>. USE DEF TelemetryInit
<1>1. TelemetryTypeOK
  BY BucketsFinite DEF TelemetryTypeOK, Nothing
<1>2. HistogramIsExact
  BY NothingObserved, BucketsFinite DEF HistogramIsExact
<1>3. ScrapeLags
  BY DEF ScrapeLags, Begun, Nothing
<1>. QED  BY <1>1, <1>2, <1>3 DEF TelemetryInv

\* The counter of bytes only grows.
LEMMA RecordBytesKeepsInv ==
    ASSUME TelemetryInv, NEW r \in Recorders, RecordBytes(r)
    PROVE  TelemetryInv'
<1>. USE DEF RecordBytes, Inc
<1>1. TelemetryTypeOK'
  BY TelemetryAssumption DEF TelemetryInv, TelemetryTypeOK
<1>2. HistogramIsExact'
  BY DEF TelemetryInv, HistogramIsExact
<1>3. ScrapeLags'
  <2>1. bytesTotal =< bytesTotal' /\ bytesTotal \in Nat /\ bytesTotal' \in Nat
    BY <1>1, TelemetryAssumption DEF TelemetryInv, TelemetryTypeOK
  <2>2. previous.bytes =< bytesTotal' /\ (scrapePc \in {"buckets", "sum", "count", "rendered"} =>
              scraped.bytes =< bytesTotal')
    BY <2>1 DEF TelemetryInv, TelemetryTypeOK, ScrapeLags
  <2>. QED  BY <2>2 DEF TelemetryInv, ScrapeLags, Begun
<1>. QED  BY <1>1, <1>2, <1>3 DEF TelemetryInv

\* An observation is in its bucket and in the count in one step, and in no scrape read before.
LEMMA ObserveKeepsInv ==
    ASSUME TelemetryInv, NEW r \in Recorders, Observe(r)
    PROVE  TelemetryInv'
<1>. DEFINE d == toObserve[r]
<1>1. d \in Durations /\ d \in Nat
  BY TelemetryAssumption DEF TelemetryInv, TelemetryTypeOK, Observe
<1>2. /\ rawCounts' = [rawCounts EXCEPT ![BucketOf(d)] = @ + 1]
      /\ series' = [sum |-> series.sum + d, count |-> series.count + 1]
      /\ observations' = [observations EXCEPT ![d] = @ + 1]
      /\ toObserve' = [toObserve EXCEPT ![r] = 0]
      /\ UNCHANGED <<bytesTotal, scrapePc, scraped, atStart, previous>>
  BY DEF Observe
<1>. HIDE DEF d
<1>3. TelemetryTypeOK'
  BY <1>1, <1>2, BucketOfIsFirst DEF TelemetryInv, TelemetryTypeOK
<1>4. rawCounts \in [Buckets -> Nat] /\ observations \in [Durations -> Nat]
      /\ atStart \in [Durations -> Nat] /\ series.count \in Nat
  BY DEF TelemetryInv, TelemetryTypeOK
<1>5. \A b \in Buckets :
          /\ AtOrBelow(observations', b) = AtOrBelow(observations, b) + (IF d =< b THEN 1 ELSE 0)
          /\ Cumulative(rawCounts')[b] = Cumulative(rawCounts)[b] + (IF d =< b THEN 1 ELSE 0)
          /\ AtOrBelow(observations, b) \in Nat /\ AtOrBelow(observations', b) \in Nat
          /\ AtOrBelow(atStart, b) \in Nat
          /\ AtOrBelow(observations, b) =< AtOrBelow(observations', b)
  <2>. SUFFICES ASSUME NEW b \in Buckets
       PROVE /\ AtOrBelow(observations', b) = AtOrBelow(observations, b) + (IF d =< b THEN 1 ELSE 0)
             /\ Cumulative(rawCounts')[b] = Cumulative(rawCounts)[b] + (IF d =< b THEN 1 ELSE 0)
             /\ AtOrBelow(observations, b) \in Nat /\ AtOrBelow(observations', b) \in Nat
             /\ AtOrBelow(atStart, b) \in Nat
             /\ AtOrBelow(observations, b) =< AtOrBelow(observations', b)
    OBVIOUS
  <2>1. /\ AtOrBelow(observations', b) = AtOrBelow(observations, b) + (IF d =< b THEN 1 ELSE 0)
        /\ Cumulative(rawCounts')[b] = Cumulative(rawCounts)[b] + (IF d =< b THEN 1 ELSE 0)
    <3>1. observations' = OneMore(observations, d) /\ rawCounts' = OneMore(rawCounts, BucketOf(d))
      BY <1>2 DEF OneMore
    <3>. QED  BY <1>1, <1>4, <3>1, OneMoreObserved
  <2>2. AtOrBelow(observations, b) \in Nat /\ AtOrBelow(atStart, b) \in Nat
    BY <1>4, SumsNatural
  <2>. QED  BY <2>1, <2>2
<1>6. HistogramIsExact'
  <2>1. d =< Infinity
    BY <1>1, BucketsFinite
  <2>2. series'.count = AtOrBelow(observations', Infinity)
    BY <1>2, <1>5, <2>1, BucketsFinite DEF TelemetryInv, HistogramIsExact
  <2>3. \A b \in Buckets : Cumulative(rawCounts')[b] = AtOrBelow(observations', b)
    BY <1>5 DEF TelemetryInv, HistogramIsExact
  <2>. QED  BY <2>2, <2>3 DEF HistogramIsExact
<1>7. ScrapeLags'
  <2>1. scraped \in [bytes : Nat, buckets : [Buckets -> Nat], sum : Nat, count : Nat]
        /\ previous \in [bytes : Nat, buckets : [Buckets -> Nat], sum : Nat, count : Nat]
        /\ series \in [sum : Nat, count : Nat] /\ series' \in [sum : Nat, count : Nat]
        /\ series'.sum = series.sum + d /\ series'.count = series.count + 1
    BY <1>2, <1>3 DEF TelemetryInv, TelemetryTypeOK
  <2>2. Begun => \A b \in Buckets : AtOrBelow(atStart, b) =< AtOrBelow(observations', b)
    BY <1>5 DEF TelemetryInv, ScrapeLags
  <2>3. scrapePc \in {"sum", "count", "rendered"} =>
           \A b \in Buckets :
               scraped.buckets[b] \in AtOrBelow(atStart, b)..AtOrBelow(observations', b)
    <3>. SUFFICES ASSUME scrapePc \in {"sum", "count", "rendered"}, NEW b \in Buckets
                  PROVE scraped.buckets[b] \in AtOrBelow(atStart, b)..AtOrBelow(observations', b)
      OBVIOUS
    <3>1. scraped.buckets[b] \in AtOrBelow(atStart, b)..AtOrBelow(observations, b)
      BY DEF TelemetryInv, ScrapeLags
    <3>. HIDE DEF TelemetryInv
    <3>. QED  BY <1>5, <3>1
  <2>4. /\ previous.sum =< series'.sum /\ previous.count =< series'.count
        /\ scrapePc \in {"count", "rendered"} => scraped.sum =< series'.sum
        /\ scrapePc = "rendered" => scraped.count =< series'.count
    BY <1>1, <2>1 DEF TelemetryInv, ScrapeLags
  <2>. QED  BY <1>2, <2>2, <2>3, <2>4 DEF TelemetryInv, ScrapeLags, Begun
<1>. QED  BY <1>3, <1>6, <1>7 DEF TelemetryInv

\* Every step of a scrape reads what was there, after what it read before.
LEMMA ScrapeKeepsInv ==
    ASSUME TelemetryInv, Scrape
    PROVE  TelemetryInv'
<1>. USE DEF TelemetryInv
<1>0. /\ \A b \in Buckets : AtOrBelow(observations, b) \in Nat
      /\ \A b \in Buckets : AtOrBelow(atStart, b) \in Nat
      /\ Cumulative(rawCounts) \in [Buckets -> Nat]
      /\ bytesTotal \in Nat /\ series.sum \in Nat /\ series.count \in Nat
      /\ previous \in [bytes : Nat, buckets : [Buckets -> Nat], sum : Nat, count : Nat]
      /\ scraped \in [bytes : Nat, buckets : [Buckets -> Nat], sum : Nat, count : Nat]
      /\ Infinity \in Buckets
  BY SumsNatural, BucketsFinite DEF TelemetryTypeOK
<1>1. HistogramIsExact'
  BY DEF HistogramIsExact, Scrape, BeginScrape, CollectCounter, CollectBuckets, CollectSum,
         CollectCount, Served
<1>2. TelemetryTypeOK'
  BY <1>0 DEF TelemetryTypeOK, Scrape, BeginScrape, CollectCounter, CollectBuckets, CollectSum,
         CollectCount, Served, Nothing
<1>3. ScrapeLags'
  <2>1. CASE BeginScrape
    BY <1>0, <2>1 DEF BeginScrape, ScrapeLags, Begun, HistogramIsExact
  <2>2. CASE CollectCounter
    BY <1>0, <2>2 DEF CollectCounter, ScrapeLags, Begun, Nothing
  <2>3. CASE CollectBuckets
    <3>1. \A b \in Buckets : scraped'.buckets[b] = AtOrBelow(observations, b)
      BY <2>3, <1>0 DEF CollectBuckets, HistogramIsExact
    <3>2. scraped'.bytes = scraped.bytes
      BY <2>3, <1>0 DEF CollectBuckets
    <3>3. \A b \in Buckets :
               scraped'.buckets[b] \in AtOrBelow(atStart, b)..AtOrBelow(observations, b)
      BY <3>1, <1>0, <2>3 DEF CollectBuckets, ScrapeLags, Begun
    <3>. QED  BY <2>3, <3>2, <3>3 DEF CollectBuckets, ScrapeLags, Begun
  <2>4. CASE CollectSum
    <3>1. scraped'.sum = series.sum /\ scraped'.bytes = scraped.bytes
          /\ scraped'.buckets = scraped.buckets
      BY <2>4, <1>0 DEF CollectSum
    <3>. QED  BY <1>0, <2>4, <3>1 DEF CollectSum, ScrapeLags, Begun
  <2>5. CASE CollectCount
    <3>1. scraped'.count = series.count /\ scraped'.bytes = scraped.bytes
          /\ scraped'.buckets = scraped.buckets /\ scraped'.sum = scraped.sum
      BY <2>5, <1>0 DEF CollectCount
    <3>2. scraped.buckets[Infinity] =< series.count
      BY <1>0, <2>5 DEF CollectCount, ScrapeLags, HistogramIsExact
    <3>. QED  BY <1>0, <2>5, <3>1, <3>2 DEF CollectCount, ScrapeLags, Begun
  <2>6. CASE Served
    <3>1. previous' = scraped /\ scrapePc = "rendered"
      BY <2>6 DEF Served
    <3>. QED  BY <1>0, <2>6, <3>1 DEF Served, ScrapeLags, Begun
  <2>. QED  BY <2>1, <2>2, <2>3, <2>4, <2>5, <2>6 DEF Scrape
<1>. QED  BY <1>1, <1>2, <1>3

\* Every step keeps the invariants.
LEMMA TelemetryInvStep == TelemetryInv /\ [TelemetryNext]_telemetryVars => TelemetryInv'
<1>. SUFFICES ASSUME TelemetryInv, [TelemetryNext]_telemetryVars PROVE TelemetryInv'
  OBVIOUS
<1>1. CASE Scrape
  BY <1>1, ScrapeKeepsInv
<1>2. ASSUME NEW r \in Recorders, RecordBytes(r) PROVE TelemetryInv'
  BY <1>2, RecordBytesKeepsInv
<1>3. ASSUME NEW r \in Recorders, Observe(r) PROVE TelemetryInv'
  BY <1>3, ObserveKeepsInv
<1>4. CASE UNCHANGED telemetryVars
  BY <1>4 DEF telemetryVars, TelemetryInv, TelemetryTypeOK, HistogramIsExact, ScrapeLags, Begun
<1>. QED  BY <1>1, <1>2, <1>3, <1>4 DEF TelemetryNext

\* A scrape reads the histogram in several steps, with its lock taken for each, while workers
\* observe: what Histogram.collect returns is still consistent, for any recorders, buckets and
\* durations.
THEOREM ScrapesConsistent == TelemetrySpec => []ScrapeIsConsistent
<1>1. TelemetryInv => ScrapeIsConsistent
  <2>. SUFFICES ASSUME TelemetryInv, scrapePc = "rendered"
       PROVE /\ \A b \in Buckets :
                    scraped.buckets[b] \in AtOrBelow(atStart, b)..AtOrBelow(observations, b)
             /\ scraped.buckets[Infinity] =< scraped.count /\ scraped.count =< series.count
             /\ scraped.sum =< series.sum
             /\ scraped.bytes >= previous.bytes /\ scraped.sum >= previous.sum
             /\ scraped.buckets[Infinity] >= previous.count
    BY DEF ScrapeIsConsistent
  <2>1. previous.count =< AtOrBelow(atStart, Infinity)
        /\ scraped.buckets[Infinity] \in AtOrBelow(atStart, Infinity)..AtOrBelow(observations, Infinity)
    BY BucketsFinite DEF TelemetryInv, ScrapeLags, Begun
  <2>2. AtOrBelow(atStart, Infinity) \in Nat /\ previous.count \in Nat
        /\ scraped.buckets[Infinity] \in Nat /\ scraped.bytes \in Nat /\ previous.bytes \in Nat
        /\ scraped.sum \in Nat /\ previous.sum \in Nat
    BY SumsNatural, BucketsFinite DEF TelemetryInv, TelemetryTypeOK
  <2>3. scraped.buckets[Infinity] >= previous.count
    BY <2>1, <2>2
  <2>. QED  BY <2>2, <2>3 DEF TelemetryInv, ScrapeLags
<1>. QED  BY <1>1, TelemetryInvInit, TelemetryInvStep, PTL DEF TelemetrySpec

-----------------------------------------------------------------------------
(* The chunk size of NetworkMetrics: the inductive invariant *)

\* The failures of a window.
Failures(w) == {i \in DOMAIN w : ~w[i]}

\* What the proofs need of the types; EstimatesAreObserved bounds the values.
NetworkTypeOK ==
    /\ rtt \in [value : Int, deviation : Nat]
    /\ throughput \in Int /\ transferBytes \in Int
    /\ window \in Seq(BOOLEAN) /\ outcomes \in Seq(BOOLEAN)
    /\ windowFailures \in Int
    /\ seen.rtts \in SUBSET Nat /\ seen.bps \in SUBSET Nat /\ seen.sizes \in SUBSET Nat
    /\ seen = [rtts |-> seen.rtts, bps |-> seen.bps, sizes |-> seen.sizes]
    /\ IsFiniteSet(seen.rtts) /\ IsFiniteSet(seen.bps) /\ IsFiniteSet(seen.sizes)

\* The window is the tail of the history, as long as the window allows.
WindowIsTail ==
    /\ Len(window) = IF Len(outcomes) < WindowSize THEN Len(outcomes) ELSE WindowSize
    /\ \A i \in 1..Len(window) : window[i] = outcomes[Len(outcomes) - Len(window) + i]
    /\ windowFailures = Cardinality(Failures(window))

NetworkInv == NetworkTypeOK /\ WindowIsTail /\ EstimatesAreObserved

-----------------------------------------------------------------------------

\* What the assumption on the constants gives.
LEMMA NetworkConstants ==
    /\ WindowSize \in Nat \ {0}
    /\ ControllerMin \in Nat \ {0} /\ ControllerMax \in Nat \ {0} /\ ControllerMin =< ControllerMax
    /\ ControllerDefault \in ControllerMin..ControllerMax
    /\ Mss \in Nat \ {0} /\ Overhead \in Nat \ {0}
    /\ Rtts \subseteq Int /\ TransferSizes \subseteq Int /\ TransferTimes \subseteq Int
BY NetworkAssumption

\* A window has a number of failures.
LEMMA FailuresAreFinite ==
    ASSUME NEW w \in Seq(BOOLEAN)
    PROVE  IsFiniteSet(Failures(w)) /\ Cardinality(Failures(w)) \in Nat /\ Cardinality(Failures(w)) =< Len(w)
<1>1. IsFiniteSet(1..Len(w)) /\ Cardinality(1..Len(w)) = Len(w)
  <2>1. Len(w) \in Nat
    OBVIOUS
  <2>. DEFINE k == Len(w)
  <2>2. k \in Int /\ 1 \in Int
    BY <2>1
  <2>. HIDE DEF k
  <2>3. IsFiniteSet(1..k) /\ Cardinality(1..k) = IF 1 > k THEN 0 ELSE k - 1 + 1
    BY <2>2, FS_Interval
  <2>. QED  BY <2>1, <2>3 DEF k
<1>2. Failures(w) \subseteq 1..Len(w)
  BY DEF Failures
<1>3. IsFiniteSet(Failures(w)) /\ Cardinality(Failures(w)) =< Cardinality(1..Len(w))
  BY <1>1, <1>2, FS_Subset
<1>. QED  BY <1>1, <1>3, FS_CardinalityType

\* An outcome appended counts as a failure if it is one.
LEMMA FailuresAppend ==
    ASSUME NEW w \in Seq(BOOLEAN), NEW s \in BOOLEAN
    PROVE  Cardinality(Failures(Append(w, s))) = Cardinality(Failures(w)) + (IF s THEN 0 ELSE 1)
<1>1. \A i \in 1..Len(w) : Append(w, s)[i] = w[i]
  OBVIOUS
<1>2. Append(w, s)[Len(w) + 1] = s /\ DOMAIN Append(w, s) = 1..(Len(w) + 1) /\ DOMAIN w = 1..Len(w)
  OBVIOUS
<1>3. Failures(Append(w, s)) = Failures(w) \cup (IF s THEN {} ELSE {Len(w) + 1})
  BY <1>1, <1>2 DEF Failures
<1>4. Len(w) + 1 \notin Failures(w)
  BY <1>2 DEF Failures
<1>5. CASE s
  BY <1>3, <1>5, FailuresAreFinite
<1>6. CASE ~s
  <2>1. Failures(Append(w, s)) = Failures(w) \cup {Len(w) + 1}
    BY <1>3, <1>6
  <2>. QED  BY <1>4, <1>6, <2>1, FailuresAreFinite, FS_AddElement
<1>. QED  BY <1>5, <1>6

\* An outcome dropped from the front no longer counts.
LEMMA FailuresTail ==
    ASSUME NEW w \in Seq(BOOLEAN), w # <<>>
    PROVE  Cardinality(Failures(w)) = Cardinality(Failures(Tail(w))) + (IF Head(w) THEN 0 ELSE 1)
<1>. DEFINE shift == [i \in Failures(Tail(w)) |-> i + 1]
            Rest == Failures(w) \ {1}
<1>0. Tail(w) \in Seq(BOOLEAN) /\ Len(Tail(w)) = Len(w) - 1 /\ Len(w) \in Nat \ {0}
      /\ \A i \in 1..(Len(w) - 1) : Tail(w)[i] = w[i + 1]
  OBVIOUS
<1>1. /\ DOMAIN w = 1..Len(w) /\ DOMAIN Tail(w) = 1..(Len(w) - 1)
  BY <1>0
<1>2. shift \in Bijection(Failures(Tail(w)), Rest)
  <2>1. \A i \in Failures(Tail(w)) : i + 1 \in Rest
    BY <1>0, <1>1 DEF Failures
  <2>2. \A j \in Rest : j - 1 \in Failures(Tail(w)) /\ (j - 1) + 1 = j
    <3>. SUFFICES ASSUME NEW j \in Rest PROVE j - 1 \in Failures(Tail(w)) /\ (j - 1) + 1 = j
      OBVIOUS
    <3>1. j \in 2..Len(w) /\ ~w[j]
      BY <1>0, <1>1 DEF Failures
    <3>2. j - 1 \in 1..(Len(w) - 1) /\ (j - 1) + 1 = j
      BY <3>1
    <3>3. Tail(w)[j - 1] = w[j]
      BY <1>0, <3>2
    <3>. QED  BY <1>1, <3>1, <3>2, <3>3 DEF Failures
  <2>3. \A i \in Failures(Tail(w)) : i \in Nat
    BY <1>0, <1>1 DEF Failures
  <2>. HIDE DEF Rest
  <2>4. shift \in [Failures(Tail(w)) -> Rest]
    BY <2>1
  <2>5. \A i, j \in Failures(Tail(w)) : i # j => shift[i] # shift[j]
    BY <2>3
  <2>6. \A j \in Rest : \E i \in Failures(Tail(w)) : shift[i] = j
    BY <2>2
  <2>. HIDE DEF shift
  <2>. QED  BY <2>4, <2>5, <2>6 DEF Bijection, Injection, IsInjective, Surjection
<1>3. Cardinality(Rest) = Cardinality(Failures(Tail(w)))
  <2>. HIDE DEF shift, Rest
  <2>1. IsFiniteSet(Failures(Tail(w)))
    BY <1>0, FailuresAreFinite
  <2>2. ExistsBijection(Failures(Tail(w)), Rest)
    BY <1>2 DEF ExistsBijection
  <2>. QED  BY <2>1, <2>2, FS_Bijection
<1>4. Head(w) = w[1] /\ 1 \in DOMAIN w
  BY <1>0, <1>1
<1>5. CASE Head(w)
  <2>1. Rest = Failures(w)
    BY <1>4, <1>5 DEF Failures
  <2>2. Cardinality(Failures(Tail(w))) \in Nat
    BY <1>0, FailuresAreFinite
  <2>3. (IF Head(w) THEN 0 ELSE 1) = 0
    BY <1>5, Zenon
  <2>. DEFINE lost == IF Head(w) THEN 0 ELSE 1
  <2>. HIDE DEF Rest, lost
  <2>4. lost = 0
    BY <2>3 DEF lost
  <2>5. Cardinality(Failures(w)) = Cardinality(Failures(Tail(w))) + lost
    BY <1>3, <2>1, <2>2, <2>4
  <2>. QED  BY <2>5 DEF lost
<1>6. CASE ~Head(w)
  <2>1. 1 \in Failures(w)
    BY <1>4, <1>6 DEF Failures
  <2>2. Cardinality(Rest) = Cardinality(Failures(w)) - 1
    BY <2>1, FailuresAreFinite, FS_RemoveElement
  <2>3. Cardinality(Failures(w)) \in Nat
    BY FailuresAreFinite
  <2>4. (IF Head(w) THEN 0 ELSE 1) = 1
    BY <1>6, Zenon
  <2>5. Cardinality(Failures(Tail(w))) \in Nat
    BY <1>0, FailuresAreFinite
  <2>6. Cardinality(Failures(w)) = Cardinality(Failures(Tail(w))) + 1
    BY <1>3, <2>2, <2>3, <2>5
  <2>. HIDE DEF Rest, shift
  <2>. QED  BY <2>4, <2>6, Zenon
<1>. QED  BY <1>5, <1>6

\* Recording an outcome keeps the window the tail of the history and its count exact.
LEMMA RecordKeepsWindow ==
    ASSUME NetworkTypeOK, WindowIsTail, NEW success \in BOOLEAN, Record(success)
    PROVE  /\ WindowIsTail' /\ window' \in Seq(BOOLEAN) /\ outcomes' \in Seq(BOOLEAN)
           /\ windowFailures' \in Int
<1>. DEFINE kept == IF Len(window) = WindowSize THEN Tail(window) ELSE window
            gone == IF Len(window) = WindowSize THEN 1 ELSE 0
            L == Len(outcomes)
<1>0. window \in Seq(BOOLEAN) /\ outcomes \in Seq(BOOLEAN) /\ windowFailures \in Int
      /\ Len(window) \in Nat /\ L \in Nat /\ WindowSize \in Nat \ {0}
      /\ windowFailures = Cardinality(Failures(window))
      /\ Len(window) = (IF L < WindowSize THEN L ELSE WindowSize)
      /\ \A i \in 1..Len(window) : window[i] = outcomes[L - Len(window) + i]
  <2>1. window \in Seq(BOOLEAN) /\ outcomes \in Seq(BOOLEAN) /\ windowFailures \in Int
    BY DEF NetworkTypeOK
  <2>2. Len(window) \in Nat /\ L \in Nat
    BY <2>1
  <2>3. /\ Len(window) = (IF L < WindowSize THEN L ELSE WindowSize)
        /\ \A i \in 1..Len(window) : window[i] = outcomes[L - Len(window) + i]
        /\ windowFailures = Cardinality(Failures(window))
    BY DEF WindowIsTail
  <2>4. WindowSize \in Nat \ {0}
    BY NetworkConstants
  <2>. HIDE DEF L
  <2>. QED  BY <2>1, <2>2, <2>3, <2>4
<1>1. /\ window' = Append(kept, success) /\ outcomes' = Append(outcomes, success)
      /\ windowFailures' = windowFailures - (IF Evicted THEN 1 ELSE 0) + (IF success THEN 0 ELSE 1)
  BY DEF Record
<1>2. kept \in Seq(BOOLEAN) /\ Len(kept) = Len(window) - gone
      /\ \A i \in 1..Len(kept) : kept[i] = window[i + gone]
  <2>1. CASE Len(window) = WindowSize
    <3>1. window # <<>>
      BY <1>0, <2>1
    <3>2. Tail(window) \in Seq(BOOLEAN) /\ Len(Tail(window)) = Len(window) - 1
          /\ \A i \in 1..(Len(window) - 1) : Tail(window)[i] = window[i + 1]
      BY <1>0, <3>1
    <3>. QED  BY <2>1, <3>2
  <2>2. CASE Len(window) # WindowSize
    BY <1>0, <2>2
  <2>. QED  BY <2>1, <2>2
<1>3. Cardinality(Failures(kept)) = windowFailures - (IF Evicted THEN 1 ELSE 0)
      /\ Cardinality(Failures(kept)) \in Nat
  <2>1. CASE Len(window) = WindowSize
    <3>1. window # <<>> /\ Head(window) \in BOOLEAN
      BY <1>0, <2>1
    <3>2. Cardinality(Failures(window)) = Cardinality(Failures(Tail(window))) + (IF Head(window) THEN 0 ELSE 1)
      BY <1>0, <3>1, FailuresTail
    <3>3. Cardinality(Failures(kept)) \in Nat
      BY <1>2, FailuresAreFinite
    <3>4. kept = Tail(window) /\ (Evicted <=> ~Head(window))
      BY <2>1 DEF Evicted
    <3>5. Cardinality(Failures(window)) = windowFailures /\ windowFailures \in Int
      BY <1>0
    <3>. HIDE DEF kept, gone, L
    <3>6. (IF Evicted THEN 1 ELSE 0) = (IF Head(window) THEN 0 ELSE 1)
      BY <3>4, Zenon
    <3>. DEFINE lost == IF Evicted THEN 1 ELSE 0
    <3>7. lost \in Int
      OBVIOUS
    <3>8. Cardinality(Failures(window)) = Cardinality(Failures(kept)) + lost
      BY <3>2, <3>4, <3>6
    <3>9. Cardinality(Failures(kept)) = windowFailures - lost
      <4>. HIDE DEF lost
      <4>. QED  BY <3>3, <3>5, <3>7, <3>8
    <3>. QED  BY <3>3, <3>9
  <2>2. CASE Len(window) # WindowSize
    <3>1. kept = window /\ ~Evicted
      BY <2>2 DEF Evicted
    <3>2. Cardinality(Failures(kept)) \in Nat
      BY <1>2, FailuresAreFinite
    <3>. HIDE DEF kept
    <3>. QED  BY <1>0, <3>1, <3>2
  <2>. QED  BY <2>1, <2>2
<1>. HIDE DEF kept
<1>4. Cardinality(Failures(window')) = windowFailures'
  <2>1. Cardinality(Failures(Append(kept, success))) = Cardinality(Failures(kept)) + (IF success THEN 0 ELSE 1)
    BY <1>2, FailuresAppend
  <2>. QED  BY <1>1, <1>3, <2>1
<1>5. /\ window' \in Seq(BOOLEAN) /\ Len(window') = Len(kept) + 1
      /\ \A i \in 1..Len(kept) : window'[i] = kept[i]
      /\ window'[Len(kept) + 1] = success
  BY <1>1, <1>2
<1>6. /\ outcomes' \in Seq(BOOLEAN) /\ Len(outcomes') = L + 1
      /\ \A i \in 1..L : outcomes'[i] = outcomes[i]
      /\ outcomes'[L + 1] = success
  BY <1>0, <1>1
<1>. HIDE DEF L
<1>7. Len(kept) \in Nat /\ gone \in {0, 1} /\ Len(kept) = Len(window) - gone
  BY <1>2
<1>20. Len(window) \in Nat /\ L \in Nat /\ WindowSize \in Nat \ {0}
      /\ Len(window) = (IF L < WindowSize THEN L ELSE WindowSize)
      /\ gone = (IF Len(window) = WindowSize THEN 1 ELSE 0)
      /\ Len(window') = Len(kept) + 1 /\ Len(outcomes') = L + 1
  <2>1. Len(window) \in Nat /\ L \in Nat /\ WindowSize \in Nat \ {0}
        /\ Len(window) = (IF L < WindowSize THEN L ELSE WindowSize)
    BY <1>0
  <2>. QED  BY <2>1, <1>5, <1>6
<1>. HIDE DEF gone
<1>8. Len(window') = IF Len(outcomes') < WindowSize THEN Len(outcomes') ELSE WindowSize
  BY <1>20, <1>7
<1>9. ASSUME NEW i \in 1..Len(window')
      PROVE  window'[i] = outcomes'[Len(outcomes') - Len(window') + i]
  <2>1. CASE i = Len(kept) + 1
    <3>1. Len(outcomes') - Len(window') + i = L + 1
      BY <1>20, <1>7, <2>1
    <3>. QED  BY <1>5, <1>6, <2>1, <3>1
  <2>2. CASE i # Len(kept) + 1
    <3>1. i \in 1..Len(kept) /\ i + gone \in 1..Len(window)
      BY <1>20, <1>7, <2>2
    <3>2. window'[i] = outcomes[L - Len(window) + (i + gone)]
      <4>1. window'[i] = kept[i]
        BY <1>5, <3>1
      <4>2. kept[i] = window[i + gone]
        BY <1>2, <3>1
      <4>3. window[i + gone] = outcomes[L - Len(window) + (i + gone)]
        <5>. DEFINE j == i + gone
        <5>1. j \in 1..Len(window)
          BY <3>1
        <5>. HIDE DEF j
        <5>2. window[j] = outcomes[L - Len(window) + j]
          BY <1>0, <5>1
        <5>. QED  BY <5>2 DEF j
      <4>. QED  BY <4>1, <4>2, <4>3
    <3>3. Len(outcomes') - Len(window') + i = L - Len(window) + (i + gone)
      BY <1>20, <1>7, <3>1
    <3>4. L - Len(window) + (i + gone) \in 1..L
      BY <1>20, <3>1
    <3>. QED  BY <1>6, <3>2, <3>3, <3>4
  <2>. QED  BY <2>1, <2>2
<1>10. windowFailures' \in Int
  BY <1>0, <1>1
<1>. QED  BY <1>4, <1>5, <1>6, <1>8, <1>9, <1>10 DEF WindowIsTail

\* So the count of failures is that of the last WindowSize outcomes.
LEMMA TailIsRecent ==
    ASSUME NetworkTypeOK, WindowIsTail
    PROVE  WindowIsRecent
<1>. DEFINE L == Len(outcomes)
            from == IF L - WindowSize + 1 > 1 THEN L - WindowSize + 1 ELSE 1
<1>0. window \in Seq(BOOLEAN) /\ outcomes \in Seq(BOOLEAN)
      /\ Len(window) \in Nat /\ L \in Nat /\ WindowSize \in Nat \ {0}
      /\ Len(window) = (IF L < WindowSize THEN L ELSE WindowSize)
      /\ \A i \in 1..Len(window) : window[i] = outcomes[L - Len(window) + i]
  BY NetworkConstants DEF NetworkTypeOK, WindowIsTail
<1>1. Max({1, L - WindowSize + 1}) = from
  <2>1. from \in {1, L - WindowSize + 1} /\ \A y \in {1, L - WindowSize + 1} : from >= y
    BY <1>0
  <2>2. \A z \in {1, L - WindowSize + 1} : (\A y \in {1, L - WindowSize + 1} : z >= y) => z = from
    BY <1>0
  <2>. HIDE DEF from, L
  <2>. QED  BY <2>1, <2>2 DEF Max
<1>. HIDE DEF L
<1>20. Len(window) \in Nat /\ L \in Nat /\ WindowSize \in Nat \ {0}
      /\ Len(window) = (IF L < WindowSize THEN L ELSE WindowSize)
  BY <1>0
<1>2. from \in 1..(L + 1) /\ from = L - Len(window) + 1
  BY <1>20
<1>. HIDE DEF from
<1>3. /\ SubSeq(outcomes, from, L) \in Seq(BOOLEAN)
      /\ Len(SubSeq(outcomes, from, L)) = L - from + 1
      /\ \A i \in 1..(L - from + 1) : SubSeq(outcomes, from, L)[i] = outcomes[from + i - 1]
  <2>1. \A i \in from..L : outcomes[i] \in BOOLEAN
    <3>1. \A i \in from..L : i \in 1..Len(outcomes)
      BY <1>20, <1>2 DEF L
    <3>. QED  BY <1>0, <3>1
  <2>2. from \in Int /\ L \in Int
    BY <1>20, <1>2
  <2>3. /\ SubSeq(outcomes, from, L) \in Seq(BOOLEAN)
        /\ Len(SubSeq(outcomes, from, L)) = IF from =< L THEN L - from + 1 ELSE 0
        /\ \A i \in 1..(L - from + 1) : SubSeq(outcomes, from, L)[i] = outcomes[from + i - 1]
    BY <2>1, <2>2, SubSeqProperties
  <2>4. (IF from =< L THEN L - from + 1 ELSE 0) = L - from + 1
    BY <1>20, <1>2
  <2>. QED  BY <2>3, <2>4
<1>5. L - from + 1 = Len(window)
  BY <1>20, <1>2
<1>6. \A i \in 1..Len(window) : window[i] = outcomes[from + i - 1]
  <2>. SUFFICES ASSUME NEW i \in 1..Len(window) PROVE window[i] = outcomes[from + i - 1]
    OBVIOUS
  <2>1. from + i - 1 = L - Len(window) + i
    BY <1>20, <1>2
  <2>. QED  BY <1>0, <2>1
<1>7. window = SubSeq(outcomes, from, L)
  <2>. DEFINE sub == SubSeq(outcomes, from, L)
  <2>1. sub \in Seq(BOOLEAN) /\ Len(sub) = Len(window) /\ \A i \in 1..Len(window) : sub[i] = window[i]
    BY <1>3, <1>5, <1>6
  <2>2. window \in Seq(BOOLEAN)
    BY <1>0
  <2>. HIDE DEF sub
  <2>3. window = sub
    BY <2>1, <2>2
  <2>. QED  BY <2>3 DEF sub
<1>8. windowFailures = Cardinality({i \in DOMAIN window : ~window[i]})
  BY DEF WindowIsTail, Failures
<1>. QED  BY <1>1, <1>7, <1>8 DEF WindowIsRecent, L



\* A value between two others lies in every range they both lie in.
LEMMA BetweenStays ==
    ASSUME NEW a \in Int, NEW b \in Int, NEW x \in Between(a, b)
    PROVE  /\ x \in Int
           /\ \A lo, hi \in Int : a \in lo..hi /\ b \in lo..hi => x \in lo..hi
<1>1. x \in Min({a, b})..Max({a, b})
  BY DEF Between
<1>2. Min({a, b}) = (IF a =< b THEN a ELSE b) /\ Max({a, b}) = (IF a >= b THEN a ELSE b)
  BY MinOfTwo, MaxOfTwo
<1>. QED  BY <1>1, <1>2

\* What one more observation does to the range of the observations.
LEMMA RangeGrows ==
    ASSUME NEW S \in SUBSET Nat, IsFiniteSet(S), NEW o \in Nat
    PROVE  LET T == S \cup {o} IN
           /\ IsFiniteSet(T) /\ T \in SUBSET Nat
           /\ Min(T) \in Nat /\ Max(T) \in Nat /\ o \in Min(T)..Max(T)
           /\ S # {} => /\ Min(S) \in Nat /\ Max(S) \in Nat
                        /\ Min(T) =< Min(S) /\ Max(S) =< Max(T)
           /\ S = {} => Min(T) = o /\ Max(T) = o
<1>. DEFINE T == S \cup {o}
<1>1. IsFiniteSet(T) /\ T \in SUBSET Nat /\ T \in SUBSET Int /\ T # {} /\ o \in T /\ S \subseteq T
  BY FS_AddElement
<1>2. S = {} => T = {o}
  OBVIOUS
<1>. HIDE DEF T
<1>3. /\ Min(T) \in T /\ \A x \in T : Min(T) =< x
      /\ Max(T) \in T /\ \A x \in T : Max(T) >= x
  BY <1>1, MinExists, MaxExists
<1>4. ASSUME S # {} PROVE Min(S) \in S /\ Max(S) \in S
  <2>1. S \in SUBSET Int
    OBVIOUS
  <2>. QED  BY <1>4, <2>1, MinExists, MaxExists
<1>5. Min(T) \in Nat /\ Max(T) \in Nat /\ o \in Min(T)..Max(T)
  <2>1. Min(T) \in Nat /\ Max(T) \in Nat
    BY <1>1, <1>3
  <2>2. Min(T) =< o /\ Max(T) >= o
    BY <1>1, <1>3
  <2>. QED  BY <2>1, <2>2
<1>6. S # {} => /\ Min(S) \in Nat /\ Max(S) \in Nat
                /\ Min(T) =< Min(S) /\ Max(S) =< Max(T)
  BY <1>1, <1>3, <1>4
<1>7. S = {} => Min(T) = o /\ Max(T) = o
  BY <1>2, <1>3
<1>. QED  BY <1>1, <1>5, <1>6, <1>7 DEF T

\* A value within observations that are numbers is a number.
LEMMA WithinIsNatural ==
    ASSUME NEW S \in SUBSET Nat, IsFiniteSet(S), NEW v, Within(v, S)
    PROVE  IF S = {} THEN v = None ELSE v \in Nat /\ Min(S) \in Nat /\ Max(S) \in Nat
                                        /\ Min(S) =< v /\ v =< Max(S)
<1>1. CASE S = {}
  BY <1>1 DEF Within
<1>2. CASE S # {}
  <2>1. S \in SUBSET Int
    OBVIOUS
  <2>2. Min(S) \in S /\ Max(S) \in S
    BY <1>2, <2>1, MinExists, MaxExists
  <2>3. v \in Min(S)..Max(S)
    BY <1>2 DEF Within
  <2>4. Min(S) \in Nat /\ Max(S) \in Nat
    BY <2>2
  <2>5. v \in Nat /\ Min(S) =< v /\ v =< Max(S)
    BY <2>3, <2>4
  <2>. QED  BY <1>2, <2>4, <2>5
<1>. QED  BY <1>1, <1>2

\* A filter's value stays within what it absorbed.
LEMMA AbsorbValueStays ==
    ASSUME NEW S \in SUBSET Nat, IsFiniteSet(S), NEW v, Within(v, S), NEW o \in Nat,
           NEW w \in AbsorbValue(v, o)
    PROVE  Within(w, S \cup {o}) /\ w \in Nat
<1>. DEFINE T == S \cup {o}
<1>1. /\ IsFiniteSet(T) /\ T \in SUBSET Nat /\ T # {}
      /\ Min(T) \in Nat /\ Max(T) \in Nat /\ o \in Min(T)..Max(T)
      /\ S # {} => /\ Min(S) \in Nat /\ Max(S) \in Nat
                   /\ Min(T) =< Min(S) /\ Max(S) =< Max(T)
      /\ S = {} => Min(T) = o /\ Max(T) = o
  BY RangeGrows
<1>. HIDE DEF T
<1>2. w \in Min(T)..Max(T)
  <2>1. CASE S = {}
    <3>1. v = None
      BY <2>1, WithinIsNatural
    <3>2. w = o
      BY <3>1 DEF AbsorbValue
    <3>. QED  BY <1>1, <2>1, <3>2
  <2>2. CASE S # {}
    <3>1. v \in Nat /\ Min(S) =< v /\ v =< Max(S)
      BY <2>2, WithinIsNatural
    <3>2. v # None
      BY <3>1 DEF None
    <3>3. w \in Between(v, o)
      BY <3>2 DEF AbsorbValue
    <3>4. v \in Min(T)..Max(T)
      BY <1>1, <2>2, <3>1
    <3>. QED  BY <1>1, <3>1, <3>3, <3>4, BetweenStays
  <2>. QED  BY <2>1, <2>2
<1>3. Within(w, T)
  BY <1>1, <1>2 DEF Within
<1>4. w \in Nat
  BY <1>1, <1>2
<1>. QED  BY <1>3, <1>4 DEF T

\* How far the observations differ.
Spread(S) == IF S = {} THEN 0 ELSE Max(S) - Min(S)

\* The round-trip filter: the deviation is no more than the observations differ.
LEMMA AbsorbStays ==
    ASSUME NEW S \in SUBSET Nat, IsFiniteSet(S), NEW e \in [value : Int, deviation : Nat],
           Within(e.value, S), e.deviation =< Spread(S), NEW o \in Nat, NEW f \in Absorb(e, o)
    PROVE  /\ f \in [value : Int, deviation : Nat]
           /\ Within(f.value, S \cup {o}) /\ f.deviation =< Spread(S \cup {o})
<1>. DEFINE T == S \cup {o}
<1>1. /\ IsFiniteSet(T) /\ T \in SUBSET Nat /\ T # {}
      /\ Min(T) \in Nat /\ Max(T) \in Nat /\ o \in Min(T)..Max(T)
      /\ S # {} => /\ Min(S) \in Nat /\ Max(S) \in Nat
                   /\ Min(T) =< Min(S) /\ Max(S) =< Max(T)
      /\ S = {} => Min(T) = o /\ Max(T) = o
  BY RangeGrows
<1>2. Spread(T) = Max(T) - Min(T)
  BY <1>1 DEF Spread
<1>. HIDE DEF T
<1>3. CASE S = {}
  <2>1. e.value = None /\ e.deviation = 0
    BY <1>3, WithinIsNatural DEF Spread
  <2>2. e = Unprimed
    BY <2>1 DEF Unprimed
  <2>3. f = [value |-> o, deviation |-> 0]
    BY <2>2 DEF Absorb
  <2>. QED  BY <1>1, <1>2, <1>3, <2>3 DEF Within, T
<1>4. CASE S # {}
  <2>. DEFINE gap == Max({o - e.value, e.value - o})
  <2>1. e.value \in Nat /\ Min(S) =< e.value /\ e.value =< Max(S) /\ e.value # None
    <3>1. e.value \in Nat /\ Min(S) =< e.value /\ e.value =< Max(S)
      BY <1>4, WithinIsNatural
    <3>. QED  BY <3>1 DEF None
  <2>2. e # Unprimed
    BY <2>1 DEF Unprimed
  <2>3. /\ f.value \in Between(e.value, o)
        /\ f.deviation \in Between(e.deviation, gap)
        /\ f = [value |-> f.value, deviation |-> f.deviation]
    BY <2>2 DEF Absorb
  <2>4. e.value \in Min(T)..Max(T)
    BY <1>1, <1>4, <2>1
  <2>5. f.value \in Int /\ f.value \in Min(T)..Max(T)
    BY <1>1, <2>1, <2>3, <2>4, BetweenStays
  <2>6. gap \in Int /\ gap \in 0..(Max(T) - Min(T))
    <3>1. o - e.value \in Int /\ e.value - o \in Int
      BY <2>1
    <3>2. gap = IF o - e.value >= e.value - o THEN o - e.value ELSE e.value - o
      BY <3>1, MaxOfTwo
    <3>. HIDE DEF gap
    <3>. QED  BY <1>1, <2>1, <2>4, <3>2
  <2>7. e.deviation \in 0..(Max(T) - Min(T))
    <3>1. e.deviation =< Max(S) - Min(S)
      BY <1>4 DEF Spread
    <3>2. e.deviation \in Nat
      OBVIOUS
    <3>. QED  BY <1>1, <1>4, <3>1, <3>2
  <2>. HIDE DEF gap
  <2>8. f.deviation \in 0..(Max(T) - Min(T))
    <3>1. e.deviation \in Int /\ Max(T) - Min(T) \in Int /\ 0 \in Int
      BY <1>1
    <3>. QED  BY <2>3, <2>6, <2>7, <3>1, BetweenStays
  <2>9. f \in [value : Int, deviation : Nat]
    BY <2>3, <2>5, <2>8
  <2>10. Within(f.value, T) /\ f.deviation =< Spread(T)
    <3>1. Within(f.value, T)
      BY <1>1, <2>5 DEF Within
    <3>2. f.deviation =< Max(T) - Min(T)
      BY <1>1, <2>8
    <3>. QED  BY <1>2, <3>1, <3>2
  <2>. QED  BY <2>9, <2>10 DEF T
<1>. QED  BY <1>3, <1>4

\* EstimatesAreObserved, by estimate.
EstimatesInv ==
    /\ Within(rtt.value, seen.rtts) /\ rtt.deviation =< Spread(seen.rtts)
    /\ Within(throughput, seen.bps)
    /\ Within(transferBytes, seen.sizes)

\* They are the same.
LEMMA EstimatesInvIs == EstimatesInv <=> EstimatesAreObserved
BY DEF EstimatesInv, EstimatesAreObserved, Spread



\* Integer square roots grow.
LEMMA SquareRootMonotone ==
    ASSUME NEW n \in Nat, NEW m \in Nat, n =< m
    PROVE  SquareRoot(n) \in Nat /\ SquareRoot(n) =< SquareRoot(m)
<1>. DEFINE R(k) == {r \in 0..k : r * r =< k}
<1>1. ASSUME NEW k \in Nat PROVE Max(R(k)) \in R(k) /\ \A r \in R(k) : Max(R(k)) >= r
  <2>1. R(k) \subseteq 0..k /\ 0 \in R(k)
    OBVIOUS
  <2>2. IsFiniteSet(0..k)
    BY FS_Interval
  <2>. HIDE DEF R
  <2>3. IsFiniteSet(R(k)) /\ R(k) \in SUBSET Int /\ R(k) # {}
    BY <2>1, <2>2, FS_Subset
  <2>. QED  BY <2>3, MaxExists
<1>2. R(n) \subseteq R(m)
  <2>. SUFFICES ASSUME NEW r \in R(n) PROVE r \in R(m)
    OBVIOUS
  <2>1. r \in 0..n /\ r * r =< n /\ r * r \in Int
    OBVIOUS
  <2>. QED  BY <2>1
<1>3. Max(R(n)) \in 0..n /\ Max(R(m)) \in 0..m
  BY <1>1
<1>. HIDE DEF R
<1>4. Max(R(m)) >= Max(R(n))
  BY <1>1, <1>2
<1>5. SquareRoot(n) = Max(R(n)) /\ SquareRoot(m) = Max(R(m))
  BY DEF SquareRoot, R
<1>. QED  BY <1>3, <1>4, <1>5

\* p is the nearest power of two to size.
Nearest(p, size) ==
    p \in {TwoTo[n] : n \in 0..size} /\ p * p =< 2 * size * size /\ size * size < 2 * p * p

\* There is a nearest power of two.
LEMMA NearestExists ==
    ASSUME NEW size \in Nat, size > 1
    PROVE  \E p : Nearest(p, size)
<1>. DEFINE Over == {n \in Nat : size < TwoTo[n]}
<1>1. size \in Over
  BY TwoToPositive
<1>2. PICK k \in Over : \A n \in Over : k =< n
  <2>. HIDE DEF Over
  <2>1. Over \subseteq Nat
    BY DEF Over
  <2>. QED  BY <1>1, <2>1, LeastNumber
<1>3. k \in Nat /\ k =< size /\ size < TwoTo[k]
  BY <1>1, <1>2
<1>4. k # 0
  BY <1>3, TwoToStep
<1>5. k - 1 \in Nat /\ (k - 1) + 1 = k /\ ~(k =< k - 1)
  BY <1>3, <1>4
<1>. DEFINE x == TwoTo[k - 1]
<1>6. x \in Nat /\ TwoTo[k] = 2 * x /\ x # 0
  BY <1>5, TwoToStep, TwoToPositive
<1>7. x =< size
  <2>1. k - 1 \notin Over
    BY <1>2, <1>5
  <2>. QED  BY <1>5, <1>6, <2>1
<1>8. k \in 0..size /\ k - 1 \in 0..size
  BY <1>3, <1>5
<1>9. x \in {TwoTo[n] : n \in 0..size} /\ TwoTo[k] \in {TwoTo[n] : n \in 0..size}
  BY <1>8
<1>. HIDE DEF x
<1>10. x * x =< size * size /\ size * size \in Nat /\ x * x \in Nat
  BY <1>6, <1>7, SquareMonotone
<1>11. size * size =< (2 * x) * (2 * x)
  <2>1. size =< 2 * x /\ 2 * x \in Nat
    BY <1>3, <1>6
  <2>. QED  BY <2>1, SquareMonotone
<1>12. (2 * x) * (2 * x) = 4 * (x * x) /\ 2 * x * x = 2 * (x * x) /\ 2 * size * size = 2 * (size * size)
       /\ 2 * (2 * x) * (2 * x) = 8 * (x * x)
  BY <1>6
<1>13. x * x > 0
  <2>1. 1 * 1 =< x * x
    BY <1>6, SquareMonotone
  <2>. QED  BY <1>10, <2>1
<1>14. CASE size * size < 2 * (x * x)
  <2>1. Nearest(x, size)
    BY <1>9, <1>10, <1>12, <1>14 DEF Nearest
  <2>. QED  BY <2>1
<1>15. CASE ~(size * size < 2 * (x * x))
  <2>1. 4 * (x * x) =< 2 * (size * size) /\ size * size < 8 * (x * x)
    BY <1>10, <1>11, <1>12, <1>13, <1>15
  <2>2. Nearest(2 * x, size)
    BY <1>6, <1>9, <1>12, <2>1 DEF Nearest
  <2>. QED  BY <2>2
<1>. QED  BY <1>14, <1>15

\* _align_to_power_of_two returns it.
LEMMA AlignedIsPower ==
    ASSUME NEW size \in Nat, size # 0
    PROVE  /\ Aligned(size) \in Nat \ {0}
           /\ \E n \in Nat : Aligned(size) = TwoTo[n]
           /\ size > 1 => Nearest(Aligned(size), size)
           /\ size = 1 => Aligned(size) = 1
<1>1. CASE size = 1
  <2>1. Aligned(size) = 1 /\ TwoTo[0] = 1
    BY <1>1, TwoToStep DEF Aligned
  <2>. QED  BY <1>1, <2>1
<1>2. CASE size > 1
  <2>1. Aligned(size) = CHOOSE p \in {TwoTo[n] : n \in 0..size} :
                            p * p =< 2 * size * size /\ size * size < 2 * p * p
    BY <1>2 DEF Aligned
  <2>2. Nearest(Aligned(size), size)
    <3>1. \E p \in {TwoTo[n] : n \in 0..size} : p * p =< 2 * size * size /\ size * size < 2 * p * p
      BY <1>2, NearestExists DEF Nearest
    <3>. QED  BY <2>1, <3>1 DEF Nearest
  <2>3. PICK n \in 0..size : Aligned(size) = TwoTo[n]
    BY <2>2 DEF Nearest
  <2>4. n \in Nat /\ TwoTo[n] \in Nat /\ TwoTo[n] # 0
    BY TwoToPositive
  <2>. QED  BY <1>2, <2>2, <2>3, <2>4
<1>. QED  BY <1>1, <1>2

\* Alignment keeps the order of sizes.
LEMMA AlignedMonotone ==
    ASSUME NEW s \in Nat, NEW t \in Nat, s # 0, s =< t
    PROVE  Aligned(s) =< Aligned(t)
<1>. DEFINE p == Aligned(s)
            q == Aligned(t)
<1>1. p \in Nat \ {0} /\ q \in Nat \ {0}
  BY AlignedIsPower
<1>2. PICK n \in Nat : p = TwoTo[n]
  BY AlignedIsPower
<1>3. PICK m \in Nat : q = TwoTo[m]
  BY AlignedIsPower
<1>4. s > 1 => Nearest(p, s)
  BY AlignedIsPower
<1>5. t > 1 => Nearest(q, t)
  BY AlignedIsPower
<1>6. s = 1 => p = 1
  BY AlignedIsPower
<1>. HIDE DEF p, q
<1>. SUFFICES ASSUME q < p PROVE FALSE
  BY <1>1 DEF p, q
<1>7. s > 1 /\ t > 1
  BY <1>1, <1>6
<1>8. 2 * q =< p
  BY <1>2, <1>3, TwoToApart
<1>9. /\ p * p =< 2 * s * s /\ t * t < 2 * q * q
  BY <1>4, <1>5, <1>7 DEF Nearest
<1>10. (2 * q) * (2 * q) =< p * p /\ s * s =< t * t
       /\ p * p \in Nat /\ s * s \in Nat /\ t * t \in Nat /\ q * q \in Nat
  BY <1>1, <1>8, SquareMonotone
<1>11. (2 * q) * (2 * q) = 4 * (q * q) /\ 2 * s * s = 2 * (s * s) /\ 2 * q * q = 2 * (q * q)
  BY <1>1
<1>. QED  BY <1>9, <1>10, <1>11

\* Clamping keeps the order and stays within the limits.
LEMMA ClampedStays ==
    \A a, b \in Int : /\ Clamped(a) \in ControllerMin..ControllerMax
                      /\ a =< b => Clamped(a) =< Clamped(b)
<1>. SUFFICES ASSUME NEW a \in Int, NEW b \in Int
     PROVE /\ Clamped(a) \in ControllerMin..ControllerMax
           /\ a =< b => Clamped(a) =< Clamped(b)
  OBVIOUS
<1>. DEFINE low(x) == IF x =< ControllerMax THEN x ELSE ControllerMax
<1>1. ASSUME NEW x \in Int
      PROVE  Clamped(x) = IF ControllerMin >= low(x) THEN ControllerMin ELSE low(x)
  <2>1. ControllerMin \in Int /\ ControllerMax \in Int
    BY NetworkConstants
  <2>2. Min({x, ControllerMax}) = low(x)
    BY <2>1, MinOfTwo
  <2>3. low(x) \in Int
    BY <2>1
  <2>. HIDE DEF low
  <2>. QED  BY <2>1, <2>2, <2>3, MaxOfTwo DEF Clamped
<1>. QED  BY <1>1, NetworkConstants

\* More failures in a window are no smaller a percentage.
LEMMA DropPercentGrows ==
    ASSUME NEW f \in Nat, NEW g \in Nat, NEW total \in Nat, f =< g, g =< total
    PROVE  /\ DropPercent(f, total) \in Nat /\ DropPercent(f, total) =< 100
           /\ DropPercent(f, total) =< DropPercent(g, total)
<1>1. CASE total = 0
  <2>1. DropPercent(f, total) = 0 /\ DropPercent(g, total) = 0
    BY <1>1 DEF DropPercent
  <2>. QED  BY <2>1
<1>2. CASE total # 0
  <2>1. 100 * f \in Nat /\ 100 * g \in Nat /\ 100 * f =< 100 * g /\ total \in Nat \ {0}
    BY <1>2
  <2>2. (100 * f) \div total =< (100 * g) \div total
    BY <2>1, DivGrows
  <2>3. (100 * f) \div total \in Nat /\ total * ((100 * f) \div total) =< 100 * f
    BY <2>1, DivIs
  <2>4. (100 * f) \div total =< 100
    <3>. DEFINE q == (100 * f) \div total
    <3>. HIDE DEF q
    <3>1. q \in Nat /\ total * q =< 100 * f /\ 100 * f =< 100 * total
      BY <2>3 DEF q
    <3>. SUFFICES ASSUME ~(q =< 100) PROVE FALSE
      BY <3>1 DEF q
    <3>2. total * 101 =< total * q
      BY <3>1, ProductMonotone
    <3>. QED  BY <1>2, <3>1, <3>2
  <2>. QED  BY <1>2, <2>2, <2>3, <2>4 DEF DropPercent
<1>. QED  BY <1>1, <1>2

\* More failures are no smaller a loss of segments.
LEMMA SegmentLossGrows ==
    ASSUME NEW c \in Nat, NEW d \in Nat, c =< d, d =< 100, NEW bytes \in Nat
    PROVE  SegmentLoss(c, bytes) \in Nat /\ SegmentLoss(c, bytes) =< SegmentLoss(d, bytes)
<1>. DEFINE k == Max({1, bytes \div Mss})
<1>1. k \in Nat \ {0}
  <2>1. bytes \div Mss \in Nat
    BY NetworkConstants, DivIs
  <2>2. k = IF 1 >= bytes \div Mss THEN 1 ELSE bytes \div Mss
    BY <2>1, MaxOfTwo
  <2>. HIDE DEF k
  <2>. QED  BY <2>1, <2>2
<1>2. \A e : SegmentLoss(e, bytes) = IF e \in {0, 100} THEN e ELSE e \div k
  BY DEF SegmentLoss
<1>. HIDE DEF k
<1>3. c \div k \in Nat /\ d \div k \in Nat /\ c \div k =< d \div k
  BY <1>1, DivIs, DivGrows
<1>4. c \div k =< c
  <2>1. c \in Nat /\ 1 \in Nat \ {0} /\ 1 =< k
    BY <1>1
  <2>2. c \div k =< c \div 1
    BY <1>1, <2>1, DivShrinks
  <2>3. c \div 1 = c
    BY <2>1
  <2>. QED  BY <2>2, <2>3
<1>. QED  BY <1>2, <1>3, <1>4

\* The size decided for a loss of so many percent of the segments.
SizeAt(bw, delay, loss) ==
    Clamped(Aligned(Clamped(SquareRoot((Overhead * bw * Mss * 100) \div (8 * loss + 1)) + bw * delay)))

\* A greater loss decides for no greater a chunk.
LEMMA SizeShrinks ==
    ASSUME NEW bw \in Nat, NEW delay \in Nat, NEW a \in Nat, NEW b \in Nat, a =< b
    PROVE  SizeAt(bw, delay, a) \in ControllerMin..ControllerMax /\ SizeAt(bw, delay, b) =< SizeAt(bw, delay, a)
<1>. DEFINE K == Overhead * bw * Mss * 100
            C == bw * delay
            n == K \div (8 * a + 1)
            m == K \div (8 * b + 1)
<1>1. K \in Nat /\ C \in Nat
  <2>1. Overhead \in Nat /\ Mss \in Nat
    BY NetworkConstants
  <2>2. Overhead * bw \in Nat
    BY <2>1
  <2>3. Overhead * bw * Mss \in Nat
    BY <2>1, <2>2
  <2>4. K \in Nat
    BY <2>3
  <2>. QED  BY <2>4
<1>. HIDE DEF K, C
<1>2. n \in Nat /\ m \in Nat /\ m =< n
  <2>1. 8 * a + 1 \in Nat \ {0} /\ 8 * b + 1 \in Nat \ {0} /\ 8 * a + 1 =< 8 * b + 1
    OBVIOUS
  <2>. QED  BY <1>1, <2>1, DivIs, DivShrinks
<1>. HIDE DEF n, m
<1>3. SquareRoot(n) \in Nat /\ SquareRoot(m) \in Nat /\ SquareRoot(m) =< SquareRoot(n)
  BY <1>2, SquareRootMonotone
<1>. DEFINE u == SquareRoot(n) + C
            v == SquareRoot(m) + C
<1>4. u \in Int /\ v \in Int /\ v =< u
  BY <1>1, <1>3
<1>5. /\ SizeAt(bw, delay, a) = Clamped(Aligned(Clamped(u)))
      /\ SizeAt(bw, delay, b) = Clamped(Aligned(Clamped(v)))
  BY DEF SizeAt, n, m, K, C
<1>. HIDE DEF u, v
<1>6. Clamped(u) \in Nat \ {0} /\ Clamped(v) \in Nat \ {0} /\ Clamped(v) =< Clamped(u)
  <2>1. Clamped(u) \in ControllerMin..ControllerMax /\ Clamped(v) \in ControllerMin..ControllerMax
        /\ Clamped(v) =< Clamped(u)
    BY <1>4, ClampedStays
  <2>. QED  BY <2>1, NetworkConstants
<1>7. Aligned(Clamped(u)) \in Int /\ Aligned(Clamped(v)) \in Int
      /\ Aligned(Clamped(v)) =< Aligned(Clamped(u))
  <2>. DEFINE x == Clamped(u)
              y == Clamped(v)
  <2>. HIDE DEF x, y
  <2>1. x \in Nat /\ y \in Nat /\ x # 0 /\ y # 0 /\ y =< x
    BY <1>6 DEF x, y
  <2>2. Aligned(x) \in Nat \ {0} /\ Aligned(y) \in Nat \ {0}
    BY <2>1, AlignedIsPower
  <2>3. Aligned(y) =< Aligned(x)
    BY <2>1, AlignedMonotone
  <2>. QED  BY <2>2, <2>3 DEF x, y
<1>. QED  BY <1>5, <1>7, ClampedStays

\* The size decided when so many percent of the window failed.
SizeFor(delay, bw, bytes, drop) ==
    ChunkSize([rtt |-> delay, throughput |-> bw, bytes |-> bytes, drop |-> drop])

\* So do more failures in the window.
LEMMA ChunkSizeShrinks ==
    ASSUME NEW delay \in Nat \cup {None}, NEW bw \in Nat \cup {None}, NEW bytes \in Nat \cup {None},
           NEW c \in Nat, NEW d \in Nat, c =< d, d =< 100
    PROVE  /\ SizeFor(delay, bw, bytes, c) \in ControllerMin..ControllerMax
           /\ SizeFor(delay, bw, bytes, d) =< SizeFor(delay, bw, bytes, c)
<1>. DEFINE at(drop) == SizeFor(delay, bw, bytes, drop)
            size == IF bytes = None THEN ControllerDefault ELSE bytes
<1>1. CASE None \in {delay, bw}
  <2>1. \A drop : at(drop) = ControllerDefault
    BY <1>1 DEF SizeFor, ChunkSize
  <2>. HIDE DEF at
  <2>2. at(c) \in ControllerMin..ControllerMax /\ at(d) =< at(c)
    BY <2>1, NetworkConstants
  <2>. QED  BY <2>2 DEF at
<1>2. CASE ~(None \in {delay, bw})
  <2>1. delay \in Nat /\ bw \in Nat /\ size \in Nat
    BY <1>2, NetworkConstants
  <2>2. \A drop : at(drop) = SizeAt(bw, delay, SegmentLoss(drop, size))
    BY <1>2 DEF SizeFor, ChunkSize, SizeAt
  <2>. HIDE DEF at, size
  <2>3. SegmentLoss(c, size) \in Nat /\ SegmentLoss(d, size) \in Nat
        /\ SegmentLoss(c, size) =< SegmentLoss(d, size)
    <3>1. d =< d
      OBVIOUS
    <3>. QED  BY <2>1, <3>1, SegmentLossGrows
  <2>4. at(c) \in ControllerMin..ControllerMax /\ at(d) =< at(c)
    BY <2>1, <2>2, <2>3, SizeShrinks
  <2>. QED  BY <2>4 DEF at
<1>. QED  BY <1>1, <1>2

-----------------------------------------------------------------------------

\* The estimates start within what was observed, which is nothing.
LEMMA NetworkInvInit == NetworkInit => NetworkInv
<1>. SUFFICES ASSUME NetworkInit PROVE NetworkInv
  OBVIOUS
<1>. USE DEF NetworkInit
<1>1. NetworkTypeOK
  BY FS_EmptySet DEF NetworkTypeOK, Unprimed, None
<1>2. WindowIsTail
  <2>1. Failures(window) = {}
    BY DEF Failures
  <2>2. Len(window) = 0 /\ Len(outcomes) = 0 /\ windowFailures = 0
    OBVIOUS
  <2>. QED  BY <2>1, <2>2, FS_EmptySet, NetworkConstants DEF WindowIsTail
<1>3. EstimatesInv
  BY DEF EstimatesInv, Within, Spread, Unprimed
<1>. QED  BY <1>1, <1>2, <1>3, EstimatesInvIs DEF NetworkInv

\* What a sample may say.
LEMMA SamplesAre ==
    ASSUME NEW sample \in Samples
    PROVE  /\ sample.bytes \in Nat /\ sample.duration \in Nat \ {0}
           /\ sample.latency \in Nat \cup {None} /\ sample.success \in BOOLEAN
           /\ ThroughputOf(sample) \in Nat
<1>1. /\ sample.bytes \in Nat /\ sample.duration \in Nat \ {0}
      /\ sample.latency \in Nat \cup {None} /\ sample.success \in BOOLEAN
  <2>1. /\ sample.bytes \in {b \in TransferSizes : b >= 0}
        /\ sample.duration \in {t \in TransferTimes : t > 0}
        /\ sample.latency \in {l \in Rtts : l >= 0} \cup {None}
        /\ sample.success \in BOOLEAN
    BY DEF Samples
  <2>2. Rtts \subseteq Int /\ TransferSizes \subseteq Int /\ TransferTimes \subseteq Int
    BY NetworkConstants
  <2>3. sample.bytes \in Nat
    <3>1. sample.bytes \in TransferSizes /\ sample.bytes >= 0
      BY <2>1
    <3>2. sample.bytes \in Int
      BY <2>2, <3>1
    <3>. QED  BY <3>1, <3>2
  <2>4. sample.duration \in Nat \ {0}
    <3>1. sample.duration \in TransferTimes /\ sample.duration > 0
      BY <2>1
    <3>2. sample.duration \in Int
      BY <2>2, <3>1
    <3>. QED  BY <3>1, <3>2
  <2>5. sample.latency \in Nat \cup {None}
    <3>1. CASE sample.latency = None
      BY <3>1
    <3>2. CASE sample.latency # None
      <4>1. sample.latency \in Rtts /\ sample.latency >= 0
        BY <2>1, <3>2
      <4>2. sample.latency \in Int
        BY <2>2, <4>1
      <4>. QED  BY <4>1, <4>2
    <3>. QED  BY <3>1, <3>2
  <2>. QED  BY <2>1, <2>3, <2>4, <2>5
<1>2. sample.bytes \div sample.duration \in Nat
  BY <1>1, DivIs
<1>. QED  BY <1>1, <1>2 DEF ThroughputOf

\* The estimates are numbers once something was observed.
LEMMA TypesOfEstimates ==
    ASSUME NetworkTypeOK
    PROVE  /\ rtt \in [value : Int, deviation : Nat]
           /\ seen.rtts \in SUBSET Nat /\ seen.bps \in SUBSET Nat /\ seen.sizes \in SUBSET Nat
           /\ IsFiniteSet(seen.rtts) /\ IsFiniteSet(seen.bps) /\ IsFiniteSet(seen.sizes)
BY DEF NetworkTypeOK

\* The four kinds of steps leave the estimates within what was seen.
EstimatesTyped ==
    /\ rtt \in [value : Int, deviation : Nat]
    /\ throughput \in Int /\ transferBytes \in Int
    /\ seen.rtts \in SUBSET Nat /\ seen.bps \in SUBSET Nat /\ seen.sizes \in SUBSET Nat
    /\ seen = [rtts |-> seen.rtts, bps |-> seen.bps, sizes |-> seen.sizes]
    /\ IsFiniteSet(seen.rtts) /\ IsFiniteSet(seen.bps) /\ IsFiniteSet(seen.sizes)

\* A round trip observed leaves its filter within what was seen.
LEMMA ObserveRttKeeps ==
    ASSUME NetworkTypeOK, EstimatesInv, NEW o \in Nat, NEW f \in Absorb(rtt, o)
    PROVE  /\ f \in [value : Int, deviation : Nat]
           /\ Within(f.value, seen.rtts \cup {o}) /\ f.deviation =< Spread(seen.rtts \cup {o})
           /\ seen.rtts \cup {o} \in SUBSET Nat /\ IsFiniteSet(seen.rtts \cup {o})
<1>1. seen.rtts \in SUBSET Nat /\ IsFiniteSet(seen.rtts) /\ rtt \in [value : Int, deviation : Nat]
  BY DEF NetworkTypeOK
<1>2. Within(rtt.value, seen.rtts) /\ rtt.deviation =< Spread(seen.rtts)
  BY DEF EstimatesInv
<1>. QED  BY <1>1, <1>2, AbsorbStays, FS_AddElement

\* A transfer recorded leaves both its filters within what was seen.
LEMMA RecordTransferKeeps ==
    ASSUME NetworkTypeOK, EstimatesInv, NEW sample \in Samples, RecordTransfer(sample)
    PROVE  EstimatesTyped' /\ EstimatesInv'
<1>. DEFINE lat == sample.latency
            bps == ThroughputOf(sample)
            bytes == sample.bytes
<1>0. bytes \in Nat /\ lat \in Nat \cup {None} /\ bps \in Nat
  BY SamplesAre
<1>1. /\ seen.rtts \in SUBSET Nat /\ seen.bps \in SUBSET Nat /\ seen.sizes \in SUBSET Nat
      /\ IsFiniteSet(seen.rtts) /\ IsFiniteSet(seen.bps) /\ IsFiniteSet(seen.sizes)
      /\ rtt \in [value : Int, deviation : Nat] /\ throughput \in Int /\ transferBytes \in Int
  BY DEF NetworkTypeOK
<1>2. /\ Within(rtt.value, seen.rtts) /\ rtt.deviation =< Spread(seen.rtts)
      /\ Within(throughput, seen.bps) /\ Within(transferBytes, seen.sizes)
  BY DEF EstimatesInv
<1>3. /\ seen'.rtts = seen.rtts \cup ({lat} \ {None})
      /\ seen'.bps = seen.bps \cup (IF Credited(sample) THEN {bps} ELSE {})
      /\ seen'.sizes = seen.sizes \cup (IF Credited(sample) THEN {bytes} ELSE {})
      /\ seen' = [rtts |-> seen'.rtts, bps |-> seen'.bps, sizes |-> seen'.sizes]
  BY DEF RecordTransfer, Credited
<1>4. /\ rtt' \in IF lat = None THEN {rtt} ELSE Absorb(rtt, lat)
      /\ Credited(sample) => throughput' \in AbsorbValue(throughput, bps)
                             /\ transferBytes' \in AbsorbValue(transferBytes, bytes)
      /\ ~Credited(sample) => throughput' = throughput /\ transferBytes' = transferBytes
  BY DEF RecordTransfer
<1>. HIDE DEF lat, bps, bytes
<1>5. /\ rtt' \in [value : Int, deviation : Nat]
      /\ Within(rtt'.value, seen'.rtts) /\ rtt'.deviation =< Spread(seen'.rtts)
      /\ seen'.rtts \in SUBSET Nat /\ IsFiniteSet(seen'.rtts)
  <2>1. CASE lat = None
    <3>1. rtt' = rtt /\ seen'.rtts = seen.rtts
      BY <1>3, <1>4, <2>1
    <3>. QED  BY <1>1, <1>2, <3>1
  <2>2. CASE lat # None
    <3>1. lat \in Nat /\ rtt' \in Absorb(rtt, lat) /\ seen'.rtts = seen.rtts \cup {lat}
      BY <1>0, <1>3, <1>4, <2>2
    <3>. QED  BY <3>1, ObserveRttKeeps
  <2>. QED  BY <2>1, <2>2
<1>6. /\ throughput' \in Int /\ Within(throughput', seen'.bps)
      /\ seen'.bps \in SUBSET Nat /\ IsFiniteSet(seen'.bps)
  <2>1. CASE ~Credited(sample)
    <3>1. throughput' = throughput /\ seen'.bps = seen.bps
      BY <1>3, <1>4, <2>1
    <3>. QED  BY <1>1, <1>2, <3>1
  <2>2. CASE Credited(sample)
    <3>1. throughput' \in AbsorbValue(throughput, bps) /\ seen'.bps = seen.bps \cup {bps}
      BY <1>3, <1>4, <2>2
    <3>2. Within(throughput', seen.bps \cup {bps}) /\ throughput' \in Nat
      BY <1>0, <1>1, <1>2, <3>1, AbsorbValueStays
    <3>3. IsFiniteSet(seen.bps \cup {bps})
      BY <1>1, FS_AddElement
    <3>4. seen.bps \cup {bps} \in SUBSET Nat
      BY <1>0, <1>1
    <3>. QED  BY <3>1, <3>2, <3>3, <3>4
  <2>. QED  BY <2>1, <2>2
<1>7. /\ transferBytes' \in Int /\ Within(transferBytes', seen'.sizes)
      /\ seen'.sizes \in SUBSET Nat /\ IsFiniteSet(seen'.sizes)
  <2>1. CASE ~Credited(sample)
    <3>1. transferBytes' = transferBytes /\ seen'.sizes = seen.sizes
      BY <1>3, <1>4, <2>1
    <3>. QED  BY <1>1, <1>2, <3>1
  <2>2. CASE Credited(sample)
    <3>1. transferBytes' \in AbsorbValue(transferBytes, bytes) /\ seen'.sizes = seen.sizes \cup {bytes}
      BY <1>3, <1>4, <2>2
    <3>2. Within(transferBytes', seen.sizes \cup {bytes}) /\ transferBytes' \in Nat
      BY <1>0, <1>1, <1>2, <3>1, AbsorbValueStays
    <3>3. IsFiniteSet(seen.sizes \cup {bytes})
      BY <1>1, FS_AddElement
    <3>4. seen.sizes \cup {bytes} \in SUBSET Nat
      BY <1>0, <1>1
    <3>. QED  BY <3>1, <3>2, <3>3, <3>4
  <2>. QED  BY <2>1, <2>2
<1>8. EstimatesTyped'
  BY <1>3, <1>5, <1>6, <1>7 DEF EstimatesTyped
<1>9. EstimatesInv'
  BY <1>5, <1>6, <1>7 DEF EstimatesInv
<1>. QED  BY <1>8, <1>9

\* Every step keeps the invariant.
LEMMA NetworkInvStep == NetworkInv /\ [NetworkNext]_networkVars => NetworkInv'
<1>. SUFFICES ASSUME NetworkInv, [NetworkNext]_networkVars PROVE NetworkInv'
  OBVIOUS
<1>0. NetworkTypeOK /\ WindowIsTail /\ EstimatesInv
  BY EstimatesInvIs DEF NetworkInv
<1>1. /\ window \in Seq(BOOLEAN) /\ outcomes \in Seq(BOOLEAN) /\ windowFailures \in Int
      /\ EstimatesTyped
  BY <1>0 DEF NetworkTypeOK, EstimatesTyped
<1>2. EstimatesInv' <=> EstimatesAreObserved'
  BY DEF EstimatesInv, EstimatesAreObserved, Spread
<1>. SUFFICES /\ EstimatesTyped' /\ EstimatesInv' /\ WindowIsTail'
              /\ window' \in Seq(BOOLEAN) /\ outcomes' \in Seq(BOOLEAN) /\ windowFailures' \in Int
  BY <1>2 DEF NetworkInv, NetworkTypeOK, EstimatesTyped
<1>3. ASSUME NEW sample \in Samples, RecordTransfer(sample)
      PROVE  /\ EstimatesTyped' /\ EstimatesInv' /\ WindowIsTail'
             /\ window' \in Seq(BOOLEAN) /\ outcomes' \in Seq(BOOLEAN) /\ windowFailures' \in Int
  <2>1. sample.success \in BOOLEAN
    BY SamplesAre
  <2>2. Record(sample.success)
    BY <1>3 DEF RecordTransfer
  <2>. QED  BY <1>0, <1>3, <2>1, <2>2, RecordKeepsWindow, RecordTransferKeeps
<1>4. ASSUME RecordFailure
      PROVE  /\ EstimatesTyped' /\ EstimatesInv' /\ WindowIsTail'
             /\ window' \in Seq(BOOLEAN) /\ outcomes' \in Seq(BOOLEAN) /\ windowFailures' \in Int
  <2>1. Record(FALSE) /\ UNCHANGED <<rtt, throughput, transferBytes, seen>>
    BY <1>4 DEF RecordFailure
  <2>2. EstimatesTyped' /\ EstimatesInv'
    BY <1>0, <1>1, <2>1 DEF EstimatesTyped, EstimatesInv
  <2>. QED  BY <1>0, <2>1, <2>2, RecordKeepsWindow
<1>5. ASSUME NEW latency \in Rtts, RecordRtt(latency)
      PROVE  /\ EstimatesTyped' /\ EstimatesInv' /\ WindowIsTail'
             /\ window' \in Seq(BOOLEAN) /\ outcomes' \in Seq(BOOLEAN) /\ windowFailures' \in Int
  <2>1. /\ latency \in Nat
        /\ UNCHANGED <<throughput, transferBytes, window, windowFailures, outcomes>>
        /\ rtt' \in Absorb(rtt, latency)
        /\ seen' = [seen EXCEPT !.rtts = @ \cup {latency}]
    BY <1>5, NetworkConstants DEF RecordRtt, ObserveRtt
  <2>2. seen' = [rtts |-> seen.rtts \cup {latency}, bps |-> seen.bps, sizes |-> seen.sizes]
    BY <1>1, <2>1 DEF EstimatesTyped
  <2>3. /\ rtt' \in [value : Int, deviation : Nat]
        /\ Within(rtt'.value, seen.rtts \cup {latency})
        /\ rtt'.deviation =< Spread(seen.rtts \cup {latency})
        /\ seen.rtts \cup {latency} \in SUBSET Nat /\ IsFiniteSet(seen.rtts \cup {latency})
    BY <1>0, <2>1, ObserveRttKeeps
  <2>4. EstimatesTyped' /\ EstimatesInv'
    BY <1>0, <1>1, <2>1, <2>2, <2>3 DEF EstimatesTyped, EstimatesInv
  <2>. QED  BY <1>0, <1>1, <2>1, <2>4 DEF WindowIsTail
<1>6. ASSUME ResetEstimates
      PROVE  /\ EstimatesTyped' /\ EstimatesInv' /\ WindowIsTail'
             /\ window' \in Seq(BOOLEAN) /\ outcomes' \in Seq(BOOLEAN) /\ windowFailures' \in Int
  <2>1. /\ rtt' = Unprimed /\ throughput' = None /\ transferBytes' = None
        /\ window' = <<>> /\ windowFailures' = 0
        /\ outcomes' = <<>> /\ seen' = [rtts |-> {}, bps |-> {}, sizes |-> {}]
    BY <1>6 DEF ResetEstimates
  <2>2. EstimatesTyped' /\ EstimatesInv'
    BY <2>1, FS_EmptySet DEF EstimatesTyped, EstimatesInv, Within, Spread, Unprimed, None
  <2>3. WindowIsTail'
    <3>1. Failures(window') = {}
      BY <2>1 DEF Failures
    <3>2. Len(window') = 0 /\ Len(outcomes') = 0 /\ windowFailures' = 0
      BY <2>1
    <3>. QED  BY <3>1, <3>2, FS_EmptySet, NetworkConstants DEF WindowIsTail
  <2>. QED  BY <2>1, <2>2, <2>3
<1>7. ASSUME UNCHANGED networkVars
      PROVE  /\ EstimatesTyped' /\ EstimatesInv' /\ WindowIsTail'
             /\ window' \in Seq(BOOLEAN) /\ outcomes' \in Seq(BOOLEAN) /\ windowFailures' \in Int
  BY <1>0, <1>1, <1>7 DEF networkVars, EstimatesTyped, EstimatesInv, WindowIsTail
<1>. QED  BY <1>3, <1>4, <1>5, <1>6, <1>7 DEF NetworkNext

\* The invariant gives the property: the evidence is recent, the size is within the limits,
\* and more failures never give a greater one.
LEMMA InvGivesSizing == NetworkInv => SizingRestsOnEvidence
<1>. SUFFICES ASSUME NetworkInv PROVE SizingRestsOnEvidence
  OBVIOUS
<1>0. NetworkTypeOK /\ WindowIsTail /\ EstimatesInv /\ EstimatesAreObserved
  BY EstimatesInvIs DEF NetworkInv
<1>1. WindowIsRecent
  BY <1>0, TailIsRecent
<1>2. rtt.value \in Nat \cup {None} /\ throughput \in Nat \cup {None} /\ transferBytes \in Nat \cup {None}
  <2>1. /\ Within(rtt.value, seen.rtts) /\ Within(throughput, seen.bps) /\ Within(transferBytes, seen.sizes)
    BY <1>0 DEF EstimatesInv
  <2>. QED  BY <1>0, <2>1, TypesOfEstimates, WithinIsNatural
<1>3. windowFailures \in Nat /\ Len(window) \in Nat /\ windowFailures =< Len(window)
  <2>1. window \in Seq(BOOLEAN) /\ windowFailures = Cardinality(Failures(window))
    BY <1>0 DEF NetworkTypeOK, WindowIsTail
  <2>2. Cardinality(Failures(window)) \in Nat /\ Cardinality(Failures(window)) =< Len(window)
    BY <2>1, FailuresAreFinite
  <2>3. Len(window) \in Nat
    BY <2>1
  <2>. QED  BY <2>1, <2>2, <2>3
<1>. DEFINE L == Len(window)
            delay == rtt.value
<1>4. ASSUME NEW f \in windowFailures..L
      PROVE  /\ ChunkSize(snapshot) \in ControllerMin..ControllerMax
             /\ ChunkSize([snapshot EXCEPT !.drop = DropPercent(f, L)]) =< ChunkSize(snapshot)
  <2>. HIDE DEF L
  <2>0. f \in Nat /\ f =< L /\ windowFailures =< f /\ L \in Nat /\ windowFailures \in Nat
    BY <1>3 DEF L
  <2>. DEFINE c == DropPercent(windowFailures, L)
              d == DropPercent(f, L)
  <2>1. c \in Nat /\ d \in Nat /\ c =< d /\ d =< 100
    <3>1. c \in Nat /\ c =< d
      BY <2>0, DropPercentGrows
    <3>2. d \in Nat /\ d =< 100
      <4>1. f =< f
        BY <2>0
      <4>. QED  BY <2>0, <4>1, DropPercentGrows
    <3>. QED  BY <3>1, <3>2
  <2>. HIDE DEF c, d
  <2>. HIDE DEF delay
  <2>2. /\ SizeFor(delay, throughput, transferBytes, c) \in ControllerMin..ControllerMax
        /\ SizeFor(delay, throughput, transferBytes, d) =< SizeFor(delay, throughput, transferBytes, c)
    <3>1. delay \in Nat \cup {None} /\ throughput \in Nat \cup {None}
          /\ transferBytes \in Nat \cup {None}
      BY <1>2 DEF delay
    <3>. QED  BY <2>1, <3>1, ChunkSizeShrinks
  <2>3. snapshot = [rtt |-> delay, throughput |-> throughput, bytes |-> transferBytes, drop |-> c]
    BY DEF snapshot, c, L, delay
  <2>4. [snapshot EXCEPT !.drop = d]
            = [rtt |-> delay, throughput |-> throughput, bytes |-> transferBytes, drop |-> d]
    BY <2>3
  <2>. QED  BY <2>2, <2>3, <2>4 DEF d, SizeFor
<1>5. windowFailures \in windowFailures..L
  BY <1>3
<1>. QED  BY <1>0, <1>1, <1>4, <1>5 DEF SizingRestsOnEvidence, L

\* For any window, limits and samples, BLDCSController sizes a chunk from what the failure
\* window and the filters of NetworkMetricsCollector saw, within its limits, and never larger
\* for more failures.
THEOREM SizingOnEvidence == NetworkSpec => []SizingRestsOnEvidence
BY NetworkInvInit, NetworkInvStep, InvGivesSizing, PTL DEF NetworkSpec

==============================================================================
