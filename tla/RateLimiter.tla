---------------------------- MODULE RateLimiter ----------------------------
(***************************************************************************)
(* The satellite rate limiter of the edge gateway: RateLimiter in          *)
(* lng-fleet-system/edge/src/transmission.rs.  It is a counter of tokens   *)
(* that is refilled, lazily and to its full value, by the first acquire    *)
(* that finds a whole minute gone since the previous refill.               *)
(*                                                                         *)
(* Time is counted in ticks, Window of them to the 60 seconds of the code. *)
(* `age' is the time since last_reset, kept no further than Window because *)
(* the code only asks whether a minute has passed.                         *)
(***************************************************************************)
EXTENDS Integers

CONSTANTS
    RateLimits,   \* values satellite_rate_limit_messages_per_min may be configured to
    Window        \* ticks in the 60 seconds of a refill period

ASSUME RateLimiterAssumption ==
    /\ RateLimits # {}
    /\ RateLimits \subseteq Nat
    /\ Window \in Nat \ {0}

VARIABLES
    limit,        \* max_per_min, read from the configuration at start
    tokens,       \* tokens left in the current period
    age,          \* ticks since last_reset, at most Window
    spent         \* history: spent[k] is the number of tokens handed out in this
                  \* tick and the k ticks before it

limiterVars == <<limit, tokens, age, spent>>

Span == 0 .. Window - 1

LimiterTypeOK ==
    /\ limit \in RateLimits
    /\ tokens \in 0 .. limit
    /\ age \in 0 .. Window
    /\ spent \in [Span -> Nat]

LimiterInit ==
    /\ limit \in RateLimits
    /\ tokens = limit
    /\ age = 0
    /\ spent = [k \in Span |-> 0]

----------------------------------------------------------------------------
(* The first statement of the loop in acquire: elapsed >= 60 s refills.     *)
RefillDue == age >= Window

(* Mutant: the tokens are looked at before the refill.                       *)
AvailableBeforeRefill == tokens

Available == IF RefillDue THEN limit ELSE tokens

(* Mutant: acquire takes a token whether there is one or not.                *)
AcquireUnchecked ==
    /\ tokens' = Available - 1
    /\ age' = IF RefillDue THEN 0 ELSE age
    /\ spent' = [k \in Span |-> spent[k] + 1]
    /\ UNCHANGED limit

(* Mutant: the refill does not move last_reset.                              *)
AcquireKeepsReset ==
    /\ Available > 0
    /\ tokens' = Available - 1
    /\ spent' = [k \in Span |-> spent[k] + 1]
    /\ UNCHANGED <<limit, age>>

(* A token is there, after the refill if one is due: acquire returns.       *)
Acquire ==
    /\ Available > 0
    /\ tokens' = Available - 1
    /\ age' = IF RefillDue THEN 0 ELSE age
    /\ spent' = [k \in Span |-> spent[k] + 1]
    /\ UNCHANGED limit

(* A refill that yields no token, which takes a limit of zero: the loop goes *)
(* on to compute `60 s - elapsed' from the elapsed time it read before the   *)
(* refill.  When elapsed is exactly 60 s the difference is zero and the loop *)
(* continues; when it is more, the subtraction of the two durations panics.  *)
AcquireRefillsNothing ==
    /\ RefillDue
    /\ Available = 0
    /\ tokens' = 0
    /\ age' = 0
    /\ UNCHANGED <<limit, spent>>

(* One tick of the clock.                                                   *)
LimiterTick ==
    /\ age' = IF age < Window THEN age + 1 ELSE age
    /\ spent' = [k \in Span |-> IF k = 0 THEN 0 ELSE spent[k - 1]]
    /\ UNCHANGED <<limit, tokens>>

----------------------------------------------------------------------------
(* Tokens handed out during the last Window ticks, wherever they fall        *)
(* relative to the refills.                                                  *)
SpentInAnyMinute == spent[Window - 1]

(* A fixed window is not a sliding one: 60 seconds that straddle a refill    *)
(* can carry two full budgets, and never more (RateLimiter::acquire).        *)
AnyMinuteAtMostTwiceTheLimit == SpentInAnyMinute <= 2 * limit

(* What the configuration key promises of every minute: at most `limit'      *)
(* messages (satellite_rate_limit_messages_per_min).                         *)
AnyMinuteAtMostTheLimit == SpentInAnyMinute <= limit
----------------------------------------------------------------------------
(* What the bound needs to be inductive: the tokens of the current period are *)
(* those handed out since last_reset, the rest of the last minute lies in the *)
(* period before and fits into its budget, and once a refill is due nothing   *)
(* is handed out before it happens.                                           *)
LimiterInv ==
    /\ age < Window => /\ spent[age] + tokens = limit
                       /\ spent[age] <= SpentInAnyMinute
                       /\ SpentInAnyMinute <= spent[age] + limit
    /\ age = Window => spent[0] = 0 /\ SpentInAnyMinute <= limit
    /\ \A j, k \in Span : j <= k => spent[j] <= spent[k]
=============================================================================
