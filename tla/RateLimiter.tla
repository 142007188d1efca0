----------------------------- MODULE RateLimiter -----------------------------
(***************************************************************************)
(* The token bucket of reliadl/rate_limiter.py under several callers, and  *)
(* the engine's _throttle on top of it.  A caller deducts its bytes at     *)
(* once, into debt if need be, and sleeps for as long as the debt it saw   *)
(* takes to be repaid.                                                     *)
(*                                                                         *)
(* Time passes in units in which the bucket earns a whole number of        *)
(* tokens; a sleep is rounded up to a unit.  The bucket is refilled only   *)
(* when it is consulted, as in the code.                                   *)
(***************************************************************************)
EXTENDS Integers, FiniteSets

CONSTANTS
    Callers,      \* tasks and threads sharing the limiter
    FirstRate,    \* rate_bps it is built with; its capacity is one unit's worth
    OtherRates,   \* rates update_rate may set
    Amounts,      \* bytes a read may ask for
    MaxTime,      \* bound: units of time
    MaxGranted    \* bound: bytes granted

ASSUME RateAssumption ==
    /\ IsFiniteSet(Callers)
    /\ FirstRate \in Nat \ {0}
    /\ OtherRates \subseteq Nat \ {0}
    /\ Amounts \subseteq Nat \ {0}
    /\ MaxTime \in Nat /\ MaxGranted \in Nat

VARIABLES
    tokens, rate, capacity,   \* _tokens, _rate, _capacity
    since,                    \* time since _updated_at
    granted,                  \* _granted_bytes
    now,                      \* time since the limiter was built
    budget,                   \* the first capacity and all that was earned since
    lowered,                  \* the rate was lowered while somebody slept
    callerPc,                 \* "idle", "asking", "asleep" or "raised"
    want, step,               \* bytes _throttle still has to ask for, and its step
    sleep,                    \* time the caller still sleeps
    upTo                      \* granted bytes up to and including its own

callerVars == <<callerPc, want, step, sleep, upTo>>
rateVars == <<tokens, rate, capacity, since, granted, now, budget, lowered, callerVars>>

Least(a, b) == IF a < b THEN a ELSE b

\* A refill that also forgives a debt.
RefilledFully == IF since > 0 THEN capacity ELSE tokens

\* _refill_locked: what the bucket holds now.
Refilled == Least(capacity, tokens + since * rate)

\* A sleep rounded down.
DelayShort(debt) == debt \div rate

\* The units of time in which a debt is repaid.
Delay(debt) == (debt + rate - 1) \div rate

RateInit ==
    /\ rate = FirstRate /\ capacity = FirstRate /\ tokens = FirstRate
    /\ since = 0 /\ granted = 0 /\ now = 0
    /\ budget = FirstRate
    /\ lowered = FALSE
    /\ callerPc = [c \in Callers |-> "idle"]
    /\ want = [c \in Callers |-> 0]
    /\ step = [c \in Callers |-> 0]
    /\ sleep = [c \in Callers |-> 0]
    /\ upTo = [c \in Callers |-> 0]

\* _throttle: ask for the bytes in steps of at most the capacity of now.
Throttle(c) ==
    /\ callerPc[c] = "idle"
    /\ \E n \in Amounts : want' = [want EXCEPT ![c] = n]
    /\ step' = [step EXCEPT ![c] = capacity]
    /\ callerPc' = [callerPc EXCEPT ![c] = "asking"]
    /\ UNCHANGED <<tokens, rate, capacity, since, granted, now, budget, lowered, sleep, upTo>>

\* acquire and _reserve: deduct, and sleep off the debt.
Acquire(c) ==
    LET n == Least(step[c], want[c]) IN
    /\ callerPc[c] = "asking" /\ want[c] > 0
    /\ n =< capacity
    /\ granted + n =< MaxGranted
    /\ tokens' = Refilled - n
    /\ since' = 0
    /\ granted' = granted + n
    /\ upTo' = [upTo EXCEPT ![c] = granted + n]
    /\ want' = [want EXCEPT ![c] = @ - n]
    /\ sleep' = [sleep EXCEPT ![c] = IF tokens' >= 0 THEN 0 ELSE Delay(-tokens')]
    /\ callerPc' = [callerPc EXCEPT ![c] = "asleep"]
    /\ UNCHANGED <<rate, capacity, now, budget, lowered, step>>

\* acquire rejects an amount above the capacity, which the step was not when
\* _throttle computed it.
AcquireRaises(c) ==
    /\ callerPc[c] = "asking" /\ want[c] > 0
    /\ Least(step[c], want[c]) > capacity
    /\ callerPc' = [callerPc EXCEPT ![c] = "raised"]
    /\ UNCHANGED <<tokens, rate, capacity, since, granted, now, budget, lowered,
                   want, step, sleep, upTo>>

\* The sleep is over: the next step, or the read may go on.
Awake(c) ==
    /\ callerPc[c] = "asleep" /\ sleep[c] = 0
    /\ callerPc' = [callerPc EXCEPT ![c] = IF want[c] > 0 THEN "asking" ELSE "idle"]
    /\ step' = [step EXCEPT ![c] = IF want[c] > 0 THEN @ ELSE 0]
    /\ UNCHANGED <<tokens, rate, capacity, since, granted, now, budget, lowered,
                   want, sleep, upTo>>

\* The task is cancelled in its sleep: its tokens are not given back.
Cancel(c) ==
    /\ callerPc[c] = "asleep" /\ sleep[c] > 0
    /\ callerPc' = [callerPc EXCEPT ![c] = "idle"]
    /\ sleep' = [sleep EXCEPT ![c] = 0]
    /\ upTo' = [upTo EXCEPT ![c] = 0]
    /\ want' = [want EXCEPT ![c] = 0]
    /\ step' = [step EXCEPT ![c] = 0]
    /\ UNCHANGED <<tokens, rate, capacity, since, granted, now, budget, lowered>>

\* try_acquire takes n if they are there; acquire_up_to takes what is there.
TakeNow(c) ==
    \E n \in Amounts :
        /\ callerPc[c] = "idle"
        /\ n =< Refilled /\ granted + n =< MaxGranted
        /\ tokens' = Refilled - n
        /\ since' = 0
        /\ granted' = granted + n
        /\ upTo' = [upTo EXCEPT ![c] = granted + n]
        /\ UNCHANGED <<rate, capacity, now, budget, lowered, callerPc, want, step, sleep>>

\* update_rate: credit at the old rate, then a new rate and its capacity.
UpdateRate ==
    \E r \in OtherRates \ {rate} :
        /\ rate' = r /\ capacity' = r
        /\ tokens' = Least(Refilled, r)
        /\ since' = 0
        /\ lowered' = (lowered \/ (r < rate /\ \E c \in Callers : sleep[c] > 0))
        /\ UNCHANGED <<granted, now, budget, callerVars>>

\* reset: a full bucket and no count; who sleeps goes on sleeping.
Reset ==
    /\ granted > 0
    /\ tokens' = capacity
    /\ since' = 0
    /\ granted' = 0
    /\ budget' = capacity
    /\ upTo' = [c \in Callers |-> 0]
    /\ UNCHANGED <<rate, capacity, now, lowered, callerPc, want, step, sleep>>

TimePasses ==
    /\ now < MaxTime
    /\ now' = now + 1 /\ since' = since + 1
    /\ budget' = budget + rate
    /\ sleep' = [c \in Callers |-> IF sleep[c] > 0 THEN sleep[c] - 1 ELSE 0]
    /\ UNCHANGED <<tokens, rate, capacity, granted, lowered, callerPc, want, step, upTo>>

Caller(c) == Throttle(c) \/ Acquire(c) \/ AcquireRaises(c) \/ Awake(c) \/ Cancel(c)
             \/ TakeNow(c)

RateNext == (\E c \in Callers : Caller(c)) \/ UpdateRate \/ Reset \/ TimePasses

RateSpec == RateInit /\ [][RateNext]_rateVars

-----------------------------------------------------------------------------
(* Properties *)

RateTypeOK ==
    /\ tokens \in Int /\ tokens =< capacity
    /\ rate \in Nat \ {0} /\ capacity \in Nat \ {0}
    /\ since \in Nat /\ granted \in Nat /\ now \in Nat /\ budget \in Nat
    /\ lowered \in BOOLEAN
    /\ callerPc \in [Callers -> {"idle", "asking", "asleep", "raised"}]
    /\ want \in [Callers -> Nat] /\ step \in [Callers -> Nat]
    /\ sleep \in [Callers -> Nat] /\ upTo \in [Callers -> Nat]

(***************************************************************************)
(* The bucket gives out no more than its first capacity and what it earned *)
(* since, except for the debt it remembers.                                *)
(***************************************************************************)
GrantsAreEarned == granted + tokens + since * rate =< budget

(***************************************************************************)
(* "Wakes when its own tokens exist": once a caller's sleep is over, every *)
(* byte granted up to and including its own has been earned, whoever else  *)
(* asks, cancels or leaves meanwhile; unless the rate was lowered while    *)
(* somebody slept, when a sleep is too short and is not corrected.         *)
(***************************************************************************)
WakesWhenEarned ==
    \A c \in Callers : ~lowered => upTo[c] =< budget + sleep[c] * rate
=============================================================================
