---------------------------- MODULE RateLimiter ------------------------------
(***************************************************************************)
(* RedisRateLimiter: one fixed-window counter per key.  A key is its count *)
(* and the ticks until Redis drops it; a key that is not there has both 0. *)
(* Time is relative, so a model needs no bound on how long it runs.        *)
(***************************************************************************)
EXTENDS Naturals

CONSTANTS
    RequestLimit,  \* RATE_LIMITS.otpRequest.limit
    VerifyLimit,   \* RATE_LIMITS.otpVerify.limit
    Window         \* windowSeconds, in ticks

ASSUME RateLimiterAssumption ==
    RequestLimit \in Nat /\ VerifyLimit \in Nat /\ Window \in Nat \ {0}

Policies == {"request", "verify"}

Limit(policy) == IF policy = "request" THEN RequestLimit ELSE VerifyLimit

NoKey == [count |-> 0, ttl |-> 0]

Keys(policy) == [count : 0 .. Limit(policy) + 1, ttl : 0 .. Window]

(* Mutant: EXPIRE without NX, so that every hit starts the window again.   *)
HitSliding(key, policy) ==
    [count |-> IF key.count > Limit(policy) THEN key.count ELSE key.count + 1,
     ttl |-> Window]

(* MULTI INCR, EXPIRE NX, TTL.  The count is kept up to the first refused  *)
(* hit: beyond it only "more than the limit" matters.                      *)
Hit(key, policy) ==
    [count |-> IF key.count > Limit(policy) THEN key.count ELSE key.count + 1,
     ttl |-> IF key.ttl = 0 THEN Window ELSE key.ttl]

Allowed(key, policy) == key.count <= Limit(policy)

(* A tick of Redis's clock.                                                *)
Aged(key) == IF key.ttl <= 1 THEN NoKey ELSE [key EXCEPT !.ttl = @ - 1]
==============================================================================
