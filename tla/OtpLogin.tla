------------------------------ MODULE OtpLogin -------------------------------
(***************************************************************************)
(* AuthService.requestOtp and verifyOtp over OtpStore (Redis), the rate    *)
(* limiter (Redis) and PostgreSQL, for concurrent requests.                *)
(*                                                                         *)
(* Each awaited call is a step.  Nothing locks a challenge: a verification *)
(* loads it, and writes the counted attempt back two round trips later.    *)
(* A tick is a minute, the bucket of the SMS dedupe key; lifetimes are     *)
(* kept as the ticks that are left.                                        *)
(***************************************************************************)
EXTENDS RateLimiter, Integers, FiniteSets

CONSTANTS
    Workers,            \* concurrent HTTP requests
    TypedPhones,        \* what users type: see NormaliseBdPhone
    NoPhone,
    OtpTtl,             \* OTP_TTL_SECONDS, in ticks
    MaxVerifyAttempts,  \* MAX_VERIFY_ATTEMPTS
    MaxIssues,          \* bound: codes issued in a behaviour
    MaxFaults           \* bound: Redis or PostgreSQL failures and crashes

ASSUME OtpAssumption ==
    /\ OtpTtl \in 1 .. Window
    /\ IsFiniteSet(Workers)
    /\ MaxVerifyAttempts \in Nat /\ MaxIssues \in Nat /\ MaxFaults \in Nat
    /\ \A t \in TypedPhones : t.shape \in {"local", "country", "other"}

VARIABLES
    store,     \* Redis otp:<phone>: the challenge and the key's TTL
    hits,      \* Redis ratelimit:<policy>:<phone>
    users,     \* phones with a row of app_user
    bucket,    \* phones with an otp row in the outbox for the current minute
    sent,      \* codes whose SMS was queued, by phone
    pc, job,   \* progress of each request and what it holds
    issued,    \* codes are numbered in the order they are generated
    left,      \* ticks until a code's expiresAt; -1 is past it
    compared,  \* guesses compared with a code
    logins,    \* tokens minted for a code
    raced,     \* codes two verifications held at once, or one dropped
    latest,    \* the last code saved for a phone
    crossed,   \* phones with a code saved while a verification held one
    faults

redis == <<store, hits>>
db == <<users, bucket, sent>>
history == <<compared, logins, raced, latest, crossed>>
vars == <<store, hits, users, bucket, sent, pc, job, issued, left,
          compared, logins, raced, latest, crossed, faults>>

(* Users type local and country forms of one number, with spacing that is  *)
(* stripped first; anything else is not a mobile number.                   *)
NormaliseBdPhone(typed) ==
    IF typed.shape \in {"local", "country"} THEN typed.subscriber ELSE NoPhone

Phones == {NormaliseBdPhone(t) : t \in TypedPhones} \ {NoPhone}

Codes == 1 .. MaxIssues
Wrong == 0  \* any submission that is no issued code

NoChallenge == [code |-> Wrong, attempts |-> 0, ttl |-> 0]
Challenges == [code : 0 .. MaxIssues, attempts : 0 .. MaxVerifyAttempts + 1, ttl : 0 .. OtpTtl]

NoJob == [phone |-> NoPhone, code |-> Wrong, seen |-> NoChallenge, ttl |-> 0]

Init ==
    /\ store = [p \in Phones |-> NoChallenge]
    /\ hits = [k \in Policies |-> [p \in Phones |-> NoKey]]
    /\ users = {} /\ bucket = {}
    /\ sent = [p \in Phones |-> {}]
    /\ pc = [w \in Workers |-> "idle"] /\ job = [w \in Workers |-> NoJob]
    /\ issued = 0 /\ left = [c \in Codes |-> -1]
    /\ compared = [c \in Codes |-> 0] /\ logins = [c \in Codes |-> 0]
    /\ raced = {} /\ latest = [p \in Phones |-> Wrong] /\ crossed = {}
    /\ faults = 0

Goto(w, step) == pc' = [pc EXCEPT ![w] = step]

Answer(w) == Goto(w, "idle") /\ job' = [job EXCEPT ![w] = NoJob]

(* rateLimiter.hit: a refused request is answered, and an unreachable      *)
(* limiter lets the request pass uncounted.                                *)
HitLimiter(policy, p, allowed) ==
    \/ /\ hits' = [hits EXCEPT ![policy][p] = Hit(@, policy)]
       /\ allowed = Allowed(hits'[policy][p], policy)
       /\ UNCHANGED faults
    \/ /\ faults < MaxFaults /\ faults' = faults + 1
       /\ allowed
       /\ UNCHANGED hits

------------------------------------------------------------------------------
(* issueOtp: the code's digest, no attempts, and its own expiry, which the *)
(* key's TTL repeats.                                                      *)
IssueOtp(code) == [code |-> code, attempts |-> 0, ttl |-> OtpTtl]

FindOrCreateByPhone(p) == users' = users \cup {p}

FindByPhone(p) == p \in users

(* Mutant: the old challenge is dropped before the limiter is asked.       *)
RequestOtpDropsFirst(w, typed) ==
    LET p == NormaliseBdPhone(typed) IN
    /\ pc[w] = "idle" /\ p # NoPhone
    /\ store' = [store EXCEPT ![p] = NoChallenge]
    /\ \/ /\ HitLimiter("request", p, TRUE)
          /\ issued < MaxIssues
          /\ issued' = issued + 1
          /\ left' = [left EXCEPT ![issued'] = OtpTtl]
          /\ job' = [job EXCEPT ![w] = [NoJob EXCEPT !.phone = p, !.code = issued']]
          /\ Goto(w, "save")
       \/ /\ HitLimiter("request", p, FALSE)
          /\ UNCHANGED <<pc, job, issued, left>>
    /\ UNCHANGED <<db, history>>

(* requestOtp: the limiter, then a fresh code with a fresh challenge.      *)
RequestOtp(w, typed) ==
    LET p == NormaliseBdPhone(typed) IN
    /\ pc[w] = "idle" /\ p # NoPhone
    /\ \/ /\ HitLimiter("request", p, TRUE)
          /\ issued < MaxIssues
          /\ issued' = issued + 1
          /\ left' = [left EXCEPT ![issued'] = OtpTtl]
          /\ job' = [job EXCEPT ![w] = [NoJob EXCEPT !.phone = p, !.code = issued']]
          /\ Goto(w, "save")
       \/ /\ HitLimiter("request", p, FALSE)
          /\ UNCHANGED <<pc, job, issued, left>>
    /\ UNCHANGED <<store, db, history>>

(* A verification between loading a challenge and writing it back, or      *)
(* between accepting a code and deleting the challenge.                    *)
Holding(w) == pc[w] \in {"ttl", "write", "consume"}

(* What a save adds to the history.                                        *)
Saved(w) ==
    LET p == job[w].phone IN
    /\ latest' = [latest EXCEPT ![p] = job[w].code]
    /\ crossed' = IF \E v \in Workers : Holding(v) /\ job[v].phone = p
                  THEN crossed \cup {p} ELSE crossed
    /\ UNCHANGED <<compared, logins, raced>>

(* Mutant: SET with NX, so that a challenge that is there stays.           *)
SaveIfAbsent(w) ==
    LET p == job[w].phone IN
    /\ pc[w] = "save"
    /\ store' = [store EXCEPT ![p] = IF @ = NoChallenge THEN IssueOtp(job[w].code) ELSE @]
    /\ Saved(w)
    /\ Goto(w, "queue")
    /\ UNCHANGED <<hits, db, job, issued, left, faults>>

(* otps.save: SET with EX, over whatever is there.                         *)
Save(w) ==
    /\ pc[w] = "save"
    /\ store' = [store EXCEPT ![job[w].phone] = IssueOtp(job[w].code)]
    /\ Saved(w)
    /\ Goto(w, "queue")
    /\ UNCHANGED <<hits, db, job, issued, left, faults>>

(* Mutant: the SMS is queued for a user who was not created.               *)
QueueSmsNoUser(w) ==
    LET p == job[w].phone IN
    /\ pc[w] = "queue"
    /\ bucket' = bucket \cup {p}
    /\ sent' = IF p \in bucket THEN sent ELSE [sent EXCEPT ![p] = @ \cup {job[w].code}]
    /\ Answer(w)
    /\ UNCHANGED <<redis, users, issued, left, history, faults>>

(* The transaction: findOrCreateByPhone, and the SMS unless its dedupe key *)
(* of this minute is taken.                                                *)
QueueSms(w) ==
    LET p == job[w].phone IN
    /\ pc[w] = "queue"
    /\ FindOrCreateByPhone(p) /\ bucket' = bucket \cup {p}
    /\ sent' = IF p \in bucket THEN sent ELSE [sent EXCEPT ![p] = @ \cup {job[w].code}]
    /\ Answer(w)
    /\ UNCHANGED <<redis, issued, left, history, faults>>

------------------------------------------------------------------------------
(* Mutant: verifications are not throttled.                                *)
VerifyOtpUnlimited(w, typed) ==
    /\ pc[w] = "idle" /\ NormaliseBdPhone(typed) # NoPhone
    /\ Goto(w, "load")
    /\ job' = [job EXCEPT ![w] = [NoJob EXCEPT !.phone = NormaliseBdPhone(typed)]]
    /\ UNCHANGED <<redis, db, issued, left, history, faults>>

(* verifyOtp up to its limiter.                                            *)
VerifyOtp(w, typed) ==
    LET p == NormaliseBdPhone(typed) IN
    /\ pc[w] = "idle" /\ p # NoPhone
    /\ \/ /\ HitLimiter("verify", p, TRUE)
          /\ job' = [job EXCEPT ![w] = [NoJob EXCEPT !.phone = p]]
          /\ Goto(w, "load")
       \/ HitLimiter("verify", p, FALSE) /\ UNCHANGED <<pc, job>>
    /\ UNCHANGED <<store, db, issued, left, history>>

(* verifyOtp of domain/otp.ts: attempts and expiry come before the         *)
(* comparison.                                                             *)
OpenToGuesses(ch) ==
    /\ ch # NoChallenge
    /\ ch.attempts < MaxVerifyAttempts
    /\ left[ch.code] >= 0

(* otps.load and the verification, which reads the clock after it.  The    *)
(* submitted code is looked at here for the first time.                    *)
Load(w, guess) ==
    LET ch == store[job[w].phone]
        open == OpenToGuesses(ch)
    IN  /\ pc[w] = "load"
        /\ compared' = IF open THEN [compared EXCEPT ![ch.code] = @ + 1] ELSE compared
        /\ raced' = IF \E v \in Workers : Holding(v) /\ job[v].seen.code = ch.code /\ ch # NoChallenge
                    THEN raced \cup {ch.code} ELSE raced
        /\ \/ /\ ch = NoChallenge
              /\ Answer(w)
           \/ /\ ch # NoChallenge
              /\ job' = [job EXCEPT ![w].seen = ch]
              /\ Goto(w, IF open /\ guess = ch.code THEN "consume" ELSE "ttl")
        /\ UNCHANGED <<redis, db, issued, left, logins, latest, crossed, faults>>

(* recordAttempt: the TTL is read ...                                      *)
ReadTtl(w) ==
    LET ttl == store[job[w].phone].ttl IN
    /\ pc[w] = "ttl"
    /\ \/ /\ ttl = 0
          /\ Answer(w)
       \/ /\ ttl > 0
          /\ job' = [job EXCEPT ![w].ttl = ttl]
          /\ Goto(w, "write")
    /\ UNCHANGED <<redis, db, issued, left, history, faults>>

(* Mutant: the attempt is not counted.                                     *)
WriteBackSame(w) ==
    /\ pc[w] = "write"
    /\ store' = [store EXCEPT ![job[w].phone] =
                    [job[w].seen EXCEPT !.ttl = job[w].ttl]]
    /\ Answer(w)
    /\ UNCHANGED <<hits, db, issued, left, history, faults>>

(* ... and the challenge that was loaded is written with one more attempt, *)
(* over whatever is there now.  Attempts beyond the cap are not told apart.*)
WriteBack(w) ==
    LET seen == job[w].seen IN
    /\ pc[w] = "write"
    /\ store' = [store EXCEPT ![job[w].phone] =
                    [code |-> seen.code, ttl |-> job[w].ttl,
                     attempts |-> IF seen.attempts > MaxVerifyAttempts
                                  THEN seen.attempts ELSE seen.attempts + 1]]
    /\ Answer(w)
    /\ UNCHANGED <<hits, db, issued, left, history, faults>>

(* Mutant: the accepted code is left in the store.                         *)
ConsumeNothing(w) ==
    /\ pc[w] = "consume"
    /\ Goto(w, "mint")
    /\ UNCHANGED <<redis, db, job, issued, left, history, faults>>

(* otps.consume: DEL, whatever challenge is there now.                     *)
Consume(w) ==
    /\ pc[w] = "consume"
    /\ store' = [store EXCEPT ![job[w].phone] = NoChallenge]
    /\ Goto(w, "mint")
    /\ UNCHANGED <<hits, db, job, issued, left, history, faults>>

(* findByPhone and issueSessionToken; no user, no token.                   *)
Mint(w) ==
    /\ pc[w] = "mint"
    /\ logins' = IF FindByPhone(job[w].phone)
                 THEN [logins EXCEPT ![job[w].seen.code] = @ + 1] ELSE logins
    /\ Answer(w)
    /\ UNCHANGED <<redis, db, issued, left, compared, raced, latest, crossed, faults>>

(* A call to Redis or PostgreSQL throws, or the process dies: the request  *)
(* ends where it is.                                                       *)
Fault(w) ==
    /\ pc[w] # "idle"
    /\ faults < MaxFaults /\ faults' = faults + 1
    /\ raced' = IF Holding(w) THEN raced \cup {job[w].seen.code} ELSE raced
    /\ Answer(w)
    /\ UNCHANGED <<redis, db, issued, left, compared, logins, latest, crossed>>

(* A minute passes: Redis drops keys whose time is up.                     *)
Tick ==
    /\ store' = [p \in Phones |-> IF store[p].ttl <= 1 THEN NoChallenge
                                  ELSE [store[p] EXCEPT !.ttl = @ - 1]]
    /\ hits' = [k \in Policies |-> [p \in Phones |-> Aged(hits[k][p])]]
    /\ left' = [c \in Codes |-> IF left[c] >= 0 THEN left[c] - 1 ELSE -1]
    /\ bucket' = {}
    /\ UNCHANGED <<users, sent, pc, job, issued, history, faults>>

Next ==
    \/ Tick
    \/ \E w \in Workers :
          \/ \E typed \in TypedPhones : RequestOtp(w, typed) \/ VerifyOtp(w, typed)
          \/ Save(w)
          \/ QueueSms(w)
          \/ \E guess \in 0 .. issued : Load(w, guess)
          \/ ReadTtl(w)
          \/ WriteBack(w)
          \/ Consume(w)
          \/ Mint(w)
          \/ Fault(w)

Spec == Init /\ [][Next]_vars

------------------------------------------------------------------------------
(* Every variable has its type; an SMS is queued for users with a row only.*)
TypeOK ==
    /\ store \in [Phones -> Challenges]
    /\ \A k \in Policies : hits[k] \in [Phones -> Keys(k)]
    /\ users \subseteq Phones /\ bucket \subseteq users
    /\ sent \in [Phones -> SUBSET Codes]
    /\ pc \in [Workers -> {"idle", "save", "queue", "load", "ttl", "write", "consume", "mint"}]
    /\ \A w \in Workers : job[w].seen \in Challenges /\ job[w].ttl \in 0 .. OtpTtl
    /\ issued \in 0 .. MaxIssues /\ left \in [Codes -> -1 .. OtpTtl]
    /\ latest \in [Phones -> 0 .. MaxIssues] /\ crossed \subseteq Phones

(* "Capped at 5 tries, then the code dies" (domain/otp.ts).                *)
AttemptsCapped == \A c \in Codes : compared[c] <= MaxVerifyAttempts

(* The cap does hold for a code whose verifications neither overlapped nor *)
(* lost their write-back, whatever requests and expiries came between.     *)
AttemptsCappedUnlessRaced ==
    \A c \in Codes : c \notin raced => compared[c] <= MaxVerifyAttempts

(* What limits guessing even when verifications overlap is the other       *)
(* throttle: a code lives through at most two windows of the limiter, plus *)
(* the requests already past it and those let through by an outage.        *)
GuessesPerCode ==
    \A c \in Codes : compared[c] <= 2 * VerifyLimit + Cardinality(Workers) + faults

(* Rule 4 of domain/otp.ts, single use: a code whose verifications did not *)
(* overlap is exchanged for at most one session token.                     *)
SingleUseUnlessRaced == \A c \in Codes : c \notin raced => logins[c] <= 1

(* "Requesting a new code must invalidate the old one, or two live codes   *)
(* exist at once" (otp.store.ts): the only challenge a phone can have is   *)
(* that of the last code saved, however re-requests, expiries, wrong       *)
(* guesses and failures interleave, unless a code was saved while a        *)
(* verification of the phone held the challenge it had loaded, and may     *)
(* since have written it back.                                             *)
OldCodeDeadUnlessCrossed ==
    \A p \in Phones \ crossed : store[p].code \in {Wrong, latest[p]}

(* The challenge of a code goes away only when the code is accepted, when  *)
(* a new one is saved, or when its time is up: no other verification, no   *)
(* write-back of an attempt and no failure takes a login away from the     *)
(* user, with the same exception.                                          *)
CodeStandsUnlessCrossed ==
    [][\A p \in Phones \ crossed :
          LET c == store[p].code IN
          c # Wrong /\ store'[p].code # c =>
             \/ latest'[p] # c
             \/ left'[c] <= 0
             \/ \E w \in Workers :
                   /\ pc[w] = "consume" /\ pc'[w] = "mint"
                   /\ job[w].phone = p /\ job[w].seen.code = c]_vars

(* "A crash between them cannot leave a key that never expires and locks a *)
(* user out permanently" (redis-rate-limiter.ts): a window that is open    *)
(* has an end, and no later hit, refused or not, puts it off.              *)
LockoutBounded ==
    [][\A k \in Policies, p \in Phones :
          hits[k][p].count > 0 =>
             hits[k][p].ttl > 0 /\ hits'[k][p].ttl <= hits[k][p].ttl]_vars
==============================================================================
