------------------------------ MODULE OtpProofs ------------------------------
(***************************************************************************)
(* Proofs about requestOtp and verifyOtp, for any number of concurrent     *)
(* requests, phones, codes, attempts and failures.                         *)
(*                                                                         *)
(* Nothing locks a challenge, so the invariant follows a CODE, not a key   *)
(* of Redis: which request is about to save it, which key stores it, which *)
(* verifications hold a copy, and who is past consume with it.  For a code *)
(* that was never raced, the attempts on record, in the store or in the    *)
(* one copy that is being counted, bound the guesses compared with it, and *)
(* a code that opened a session is in no store and in no copy.             *)
(***************************************************************************)
EXTENDS OtpLogin, FiniteSetTheorems, TLAPS

Steps == {"idle", "save", "queue", "load", "ttl", "write", "consume", "mint"}

Issued == 1 .. issued

Jobs == [phone : Phones \cup {NoPhone}, code : 0 .. MaxIssues,
         seen : Challenges, ttl : 0 .. OtpTtl]

(* The variables' types, as functions and sets.                            *)
Types ==
    /\ store \in [Phones -> Challenges]
    /\ users \subseteq Phones /\ bucket \subseteq users
    /\ sent \in [Phones -> SUBSET Codes]
    /\ pc \in [Workers -> Steps] /\ DOMAIN job = Workers
    /\ issued \in 0 .. MaxIssues /\ left \in [Codes -> -1 .. OtpTtl]
    /\ compared \in [Codes -> Nat] /\ logins \in [Codes -> Nat]

(* A window that has counted a hit has an end.                             *)
LimiterOK ==
    /\ DOMAIN hits = Policies
    /\ \A k \in Policies :
          /\ hits[k] \in [Phones -> Keys(k)]
          /\ \A p \in Phones : hits[k][p].count > 0 => hits[k][p].ttl > 0

StoreOK(p) ==
    \/ store[p] = NoChallenge
    \/ store[p].code \in Issued /\ store[p].ttl > 0

JobOK(w) ==
    /\ job[w] \in Jobs
    /\ pc[w] # "idle" => job[w].phone \in Phones
    /\ pc[w] \in {"save", "queue"} => job[w].code \in Issued
    /\ Holding(w) \/ pc[w] = "mint" => job[w].seen.code \in Issued
    /\ pc[w] = "write" => job[w].ttl > 0

(* Where a code is in play.                                                *)
Stored(p, c) == store[p].code = c
Holds(w, c) == Holding(w) /\ job[w].seen.code = c
Mints(w, c) == pc[w] = "mint" /\ job[w].seen.code = c
Saves(w, c) == pc[w] = "save" /\ job[w].code = c

(* Nobody has seen the code yet.                                           *)
Fresh(c) ==
    /\ \A p \in Phones : ~Stored(p, c)
    /\ \A w \in Workers : ~Holds(w, c) /\ ~Mints(w, c)
    /\ compared[c] = 0 /\ logins[c] = 0

(* A code is fresh until it is saved, and it is saved once.                *)
FreshOK(c) ==
    /\ c > issued => Fresh(c)
    /\ \A w \in Workers : Saves(w, c) =>
          Fresh(c) /\ \A v \in Workers : Saves(v, c) => v = w

(* Every key and every copy of a code is for one phone.                    *)
PhoneOK(c) ==
    /\ \A p, q \in Phones : Stored(p, c) /\ Stored(q, c) => p = q
    /\ \A p \in Phones, w \in Workers : Stored(p, c) /\ Holds(w, c) => job[w].phone = p
    /\ \A v, w \in Workers : Holds(v, c) /\ Holds(w, c) => job[v].phone = job[w].phone

(* A code that opened a session, or is about to, is nowhere else.          *)
UseOK(c) ==
    /\ \A v, w \in Workers : Mints(v, c) /\ Mints(w, c) => v = w
    /\ \A w \in Workers : Mints(w, c) => logins[c] = 0
    /\ logins[c] <= 1
    /\ logins[c] = 1 \/ (\E w \in Workers : Mints(w, c)) =>
          /\ \A p \in Phones : ~Stored(p, c)
          /\ \A w \in Workers : ~Holds(w, c)

(* One copy at a time, and the attempts on record bound the guesses.       *)
CountOK(c) ==
    /\ compared[c] <= MaxVerifyAttempts
    /\ \A v, w \in Workers : Holds(v, c) /\ Holds(w, c) => v = w
    /\ \A w \in Workers : Holds(w, c) /\ pc[w] # "consume" =>
          compared[c] <= job[w].seen.attempts + 1
    /\ (\A w \in Workers : ~Holds(w, c)) =>
          \A p \in Phones : Stored(p, c) => compared[c] <= store[p].attempts

CodeOK(c) ==
    /\ FreshOK(c)
    /\ PhoneOK(c)
    /\ c \notin raced => UseOK(c) /\ CountOK(c)

(* The inductive invariant.                                                *)
OtpInv ==
    /\ Types /\ LimiterOK
    /\ \A p \in Phones : StoreOK(p)
    /\ \A w \in Workers : JobOK(w)
    /\ \A c \in Codes : CodeOK(c)

------------------------------------------------------------------------------
(* The limiter.                                                            *)

(* A hit of one key, or none: the part is kept, and no open window is put  *)
(* off.                                                                    *)
LEMMA LimiterHit ==
    ASSUME LimiterOK, NEW policy \in Policies, NEW p \in Phones,
           \/ hits' = [hits EXCEPT ![policy][p] = Hit(@, policy)]
           \/ hits' = hits
    PROVE  /\ LimiterOK'
           /\ \A k \in Policies, q \in Phones :
                 hits[k][q].count > 0 => hits'[k][q].ttl <= hits[k][q].ttl
  <1>1. CASE hits' = hits
    <2>1. LimiterOK'
      BY <1>1 DEF LimiterOK
    <2>2. \A k \in Policies, q \in Phones : hits[k][q].ttl \in Nat
      BY DEF LimiterOK, Keys
    <2> QED
      BY <1>1, <2>1, <2>2
  <1>2. CASE hits' = [hits EXCEPT ![policy][p] = Hit(@, policy)]
    <2>1. PICK key \in Keys(policy) : key = hits[policy][p]
      BY DEF LimiterOK
    <2>2. PICK new : new = Hit(key, policy)
      OBVIOUS
    <2>3. Limit(policy) \in Nat /\ Window \in Nat \ {0}
      BY RateLimiterAssumption DEF Limit
    <2>4. /\ key.count \in Nat /\ key.count <= Limit(policy) + 1
          /\ key.ttl \in Nat /\ key.ttl <= Window
          /\ key.count > 0 => key.ttl > 0
      BY <2>1, <2>3 DEF Keys, LimiterOK
    <2>5. new = [count |-> IF key.count > Limit(policy) THEN key.count ELSE key.count + 1,
                 ttl |-> IF key.ttl = 0 THEN Window ELSE key.ttl]
      BY <2>2 DEF Hit
    <2>6. /\ new \in Keys(policy) /\ new.ttl > 0
          /\ key.count > 0 => new.ttl = key.ttl
      BY <2>3, <2>4, <2>5 DEF Keys
    <2>7. /\ DOMAIN hits' = Policies
          /\ \A k \in Policies \ {policy} : hits'[k] = hits[k]
          /\ hits'[policy] = [hits[policy] EXCEPT ![p] = new]
      BY <1>2, <2>1, <2>2 DEF LimiterOK
    <2>8. /\ hits'[policy] \in [Phones -> Keys(policy)]
          /\ hits'[policy][p] = new
          /\ \A q \in Phones \ {p} : hits'[policy][q] = hits[policy][q]
      BY <2>6, <2>7 DEF LimiterOK
    <2>9. LimiterOK'
      BY <2>6, <2>7, <2>8 DEF LimiterOK
    <2>10. \A k \in Policies, q \in Phones : hits[k][q].ttl \in Nat
      BY DEF LimiterOK, Keys
    <2>11. ASSUME NEW k \in Policies, NEW q \in Phones, hits[k][q].count > 0
           PROVE  hits'[k][q].ttl = hits[k][q].ttl
      BY <2>1, <2>6, <2>7, <2>8, <2>11
    <2> QED
      BY <2>9, <2>10, <2>11
  <1> QED
    BY <1>1, <1>2

(* A minute passes.                                                        *)
LEMMA LimiterAges ==
    ASSUME LimiterOK, hits' = [k \in Policies |-> [p \in Phones |-> Aged(hits[k][p])]]
    PROVE  /\ LimiterOK'
           /\ \A k \in Policies, q \in Phones :
                 hits[k][q].count > 0 => hits'[k][q].ttl <= hits[k][q].ttl
  <1>1. ASSUME NEW k \in Policies, NEW q \in Phones
        PROVE  /\ hits'[k][q] \in Keys(k)
               /\ hits'[k][q].count > 0 => hits'[k][q].ttl > 0
               /\ hits'[k][q].ttl <= hits[k][q].ttl
    <2>1. PICK key \in Keys(k) : key = hits[k][q]
      BY DEF LimiterOK
    <2>2. Limit(k) \in Nat /\ Window \in Nat
      BY RateLimiterAssumption DEF Limit
    <2>3. /\ key.count \in 0 .. Limit(k) + 1 /\ key.ttl \in 0 .. Window
          /\ key = [count |-> key.count, ttl |-> key.ttl]
      BY <2>2 DEF Keys
    <2>4. hits'[k][q] = Aged(key)
      BY <2>1
    <2>5. CASE key.ttl <= 1
      <3>1. Aged(key) = [count |-> 0, ttl |-> 0]
        BY <2>5 DEF Aged, NoKey
      <3> QED
        BY <2>1, <2>2, <2>3, <2>4, <3>1 DEF Keys
    <2>6. CASE ~(key.ttl <= 1)
      <3>1. Aged(key) = [key EXCEPT !.ttl = key.ttl - 1]
        BY <2>6 DEF Aged
      <3>2. key.ttl - 1 \in 0 .. Window /\ key.ttl - 1 > 0 /\ key.ttl - 1 <= key.ttl
        BY <2>2, <2>3, <2>6
      <3>3. /\ Aged(key).count = key.count /\ Aged(key).ttl = key.ttl - 1
            /\ Aged(key) \in Keys(k)
        BY <2>3, <3>1, <3>2 DEF Keys
      <3> QED
        BY <2>1, <2>4, <3>2, <3>3
    <2> QED
      BY <2>5, <2>6
  <1>2. LimiterOK'
    BY <1>1 DEF LimiterOK
  <1> QED
    BY <1>1, <1>2

------------------------------------------------------------------------------
(* What a step leaves in place.                                            *)

(* Every request but w stays where it is.                                  *)
OthersKept(w) ==
    \A v \in Workers \ {w} : pc'[v] = pc[v] /\ job'[v] = job[v]

LEMMA OtherStores ==
    ASSUME NEW p \in Phones, StoreOK(p), store'[p] = store[p],
           issued \in 0 .. MaxIssues, issued' \in 0 .. MaxIssues, issued <= issued'
    PROVE  StoreOK(p)'
  <1>1. Issued \subseteq Issued' /\ Issued \subseteq Codes
    BY OtpAssumption DEF Issued, Codes
  <1> QED
    BY <1>1 DEF StoreOK

LEMMA OtherJobs ==
    ASSUME NEW w \in Workers, JobOK(w), pc'[w] = pc[w], job'[w] = job[w],
           issued \in 0 .. MaxIssues, issued' \in 0 .. MaxIssues, issued <= issued'
    PROVE  JobOK(w)'
  <1>1. Issued \subseteq Issued' /\ Issued \subseteq Codes
    BY OtpAssumption DEF Issued, Codes
  <1>2. Holding(w)' <=> Holding(w)
    BY DEF Holding
  <1> QED
    BY <1>1, <1>2 DEF JobOK, Holding

(* A code keeps its part when no key, copy, session or save of it is added *)
(* and, unless it was raced or is in no store, no copy of it is dropped.   *)
LEMMA CodeKept ==
    ASSUME NEW c \in Codes, CodeOK(c), issued \in Nat, issued' \in Nat, issued <= issued',
           \A p \in Phones : Stored(p, c)' => /\ Stored(p, c)
                                              /\ store'[p].attempts = store[p].attempts,
           \A w \in Workers :
              /\ Holds(w, c)' => /\ Holds(w, c)
                                 /\ job'[w].phone = job[w].phone
                                 /\ job'[w].seen = job[w].seen
                                 /\ pc[w] = "consume" => pc'[w] = "consume"
              /\ Mints(w, c)' => Mints(w, c)
              /\ Saves(w, c)' => Saves(w, c),
           \/ c \in raced'
           \/ \A p \in Phones : ~Stored(p, c)'
           \/ \A w \in Workers : Holds(w, c) => Holds(w, c)',
           compared'[c] = compared[c], logins'[c] = logins[c], raced \subseteq raced'
    PROVE  CodeOK(c)'
  <1>0. c \in Int /\ (c > issued' => c > issued)
    BY DEF Codes
  <1>1. Fresh(c) => Fresh(c)'
    BY DEF Fresh
  <1>2. FreshOK(c)'
    BY <1>0, <1>1 DEF CodeOK, FreshOK
  <1>3. PhoneOK(c)'
    BY DEF CodeOK, PhoneOK
  <1>4. c \notin raced' => UseOK(c)'
    BY DEF CodeOK, UseOK
  <1>5. c \notin raced' => CountOK(c)'
    BY DEF CodeOK, CountOK
  <1> QED
    BY <1>2, <1>3, <1>4, <1>5 DEF CodeOK

(* A step that leaves the store, the copies and the counts alone.          *)
LEMMA QuietCodes ==
    ASSUME OtpInv, NEW w \in Workers, OthersKept(w),
           ~Holding(w), pc[w] # "mint",
           pc'[w] \in {"idle", "load"},
           store' = store, issued' = issued,
           compared' = compared, logins' = logins, raced' = raced
    PROVE  \A c \in Codes : CodeOK(c)'
  <1> SUFFICES ASSUME NEW c \in Codes PROVE CodeOK(c)'
    OBVIOUS
  <1>1. CodeOK(c) /\ issued \in Nat /\ issued <= issued'
    BY DEF OtpInv, Types
  <1>2. \A p \in Phones : Stored(p, c)' => Stored(p, c) /\ store'[p].attempts = store[p].attempts
    BY DEF Stored
  <1>3. \A v \in Workers :
           /\ Holds(v, c)' <=> Holds(v, c)
           /\ Holds(v, c) => pc'[v] = pc[v] /\ job'[v] = job[v]
           /\ Mints(v, c)' => Mints(v, c)
           /\ Saves(v, c)' => Saves(v, c)
    BY DEF Holds, Holding, Mints, Saves, OthersKept
  <1> QED
    BY <1>1, <1>2, <1>3, CodeKept

(* The parts of the invariant after a step of request w.                   *)
LEMMA Assembled ==
    ASSUME OtpInv, NEW w \in Workers, OthersKept(w), Types', LimiterOK',
           issued <= issued',
           \A p \in Phones : store'[p] = store[p] \/ StoreOK(p)',
           JobOK(w)', \A c \in Codes : CodeOK(c)'
    PROVE  OtpInv'
  <1>1. issued \in 0 .. MaxIssues /\ issued' \in 0 .. MaxIssues
    BY DEF OtpInv, Types
  <1>2. \A p \in Phones : StoreOK(p)'
    BY <1>1, OtherStores DEF OtpInv
  <1>3. \A v \in Workers \ {w} : JobOK(v)'
    BY <1>1, OtherJobs DEF OtpInv, OthersKept
  <1> QED
    BY <1>2, <1>3 DEF OtpInv

LEMMA IssuedCodes ==
    ASSUME OtpInv
    PROVE  /\ Issued \subseteq Codes
           /\ \A c \in Issued : c <= issued /\ c # 0
  BY OtpAssumption DEF OtpInv, Types, Issued, Codes

LEMMA PlainChallenge ==
    /\ NoChallenge \in Challenges /\ NoChallenge.code = 0 /\ NoChallenge.ttl = 0
    /\ NoJob \in Jobs
  <1>1. NoChallenge \in Challenges /\ NoChallenge.code = 0 /\ NoChallenge.ttl = 0
    BY OtpAssumption DEF NoChallenge, Challenges, Wrong
  <1> QED
    BY <1>1, OtpAssumption DEF NoJob, Jobs, Wrong

(* A request is answered.                                                  *)
LEMMA Answered ==
    ASSUME OtpInv, NEW w \in Workers, Answer(w)
    PROVE  /\ OthersKept(w) /\ pc'[w] = "idle" /\ JobOK(w)'
           /\ pc' \in [Workers -> Steps] /\ DOMAIN job' = Workers
  <1>1. pc' = [pc EXCEPT ![w] = "idle"] /\ job' = [job EXCEPT ![w] = NoJob]
    BY DEF Answer, Goto
  <1>2. /\ OthersKept(w) /\ pc'[w] = "idle" /\ job'[w] = NoJob
        /\ pc' \in [Workers -> Steps] /\ DOMAIN job' = Workers
    BY <1>1 DEF OtpInv, Types, OthersKept, Steps
  <1>3. JobOK(w)'
    BY <1>2, PlainChallenge DEF JobOK, Holding
  <1> QED
    BY <1>2, <1>3

(* A request goes on.                                                      *)
LEMMA GoneTo ==
    ASSUME OtpInv, NEW w \in Workers, NEW step \in Steps, Goto(w, step), NEW j,
           job' = [job EXCEPT ![w] = j]
    PROVE  /\ OthersKept(w) /\ pc'[w] = step /\ job'[w] = j
           /\ pc' \in [Workers -> Steps] /\ DOMAIN job' = Workers
  BY DEF Goto, OtpInv, Types, OthersKept

(* A code nobody has seen has every other part of the invariant.           *)
LEMMA FreshCode ==
    ASSUME NEW c \in Codes, Fresh(c)'
    PROVE  PhoneOK(c)' /\ UseOK(c)' /\ CountOK(c)'
  <1>1. PhoneOK(c)'
    BY DEF Fresh, PhoneOK
  <1>2. UseOK(c)'
    BY DEF Fresh, UseOK
  <1>3. CountOK(c)'
    BY OtpAssumption DEF Fresh, CountOK
  <1> QED
    BY <1>1, <1>2, <1>3

------------------------------------------------------------------------------
(* requestOtp.                                                             *)

(* A request refused by a limiter.                                         *)
LEMMA RefusedInv ==
    ASSUME OtpInv, LimiterOK', NEW w \in Workers, pc[w] = "idle",
           UNCHANGED <<store, users, bucket, sent, pc, job, issued, left,
                       compared, logins, raced>>
    PROVE  OtpInv'
  <1>1. OthersKept(w)
    BY DEF OthersKept
  <1>3. Types' /\ issued <= issued'
    BY DEF OtpInv, Types
  <1>4. JobOK(w)'
    BY <1>3, OtherJobs DEF OtpInv, Types
  <1>5. \A c \in Codes : CodeOK(c)'
    BY <1>1, QuietCodes DEF Holding
  <1> QED
    BY <1>1, <1>3, <1>4, <1>5, Assembled

(* A code is generated.                                                    *)
LEMMA IssueInv ==
    ASSUME OtpInv, LimiterOK', NEW w \in Workers, NEW p \in Phones, pc[w] = "idle",
           issued < MaxIssues, issued' = issued + 1,
           left' = [left EXCEPT ![issued'] = OtpTtl],
           job' = [job EXCEPT ![w] = [NoJob EXCEPT !.phone = p, !.code = issued']],
           Goto(w, "save"),
           UNCHANGED <<store, users, bucket, sent, compared, logins, raced>>
    PROVE  OtpInv'
  <1>1. PICK new \in Codes : new = issued + 1
    BY OtpAssumption DEF OtpInv, Types, Codes
  <1>2. PICK j : j = [NoJob EXCEPT !.phone = p, !.code = issued']
    OBVIOUS
  <1>3. j.phone = p /\ j.code = new /\ j \in Jobs
    <2>1. /\ j = [k \in DOMAIN j |-> j[k]] /\ DOMAIN j = {"phone", "code", "seen", "ttl"}
          /\ j.phone = p /\ j.code = new /\ j.seen = NoChallenge /\ j.ttl = 0
      BY <1>1, <1>2 DEF NoJob
    <2>2. new \in 0 .. MaxIssues /\ 0 \in 0 .. OtpTtl
      BY OtpAssumption DEF Codes
    <2> QED
      BY <2>1, <2>2, PlainChallenge DEF Jobs
  <1>4. /\ OthersKept(w) /\ pc'[w] = "save" /\ job'[w] = j
        /\ pc' \in [Workers -> Steps] /\ DOMAIN job' = Workers
    BY <1>2, GoneTo DEF Steps
  <1>5. issued \in Nat /\ issued' \in 0 .. MaxIssues /\ issued <= issued'
    BY OtpAssumption DEF OtpInv, Types
  <1>6. left' \in [Codes -> -1 .. OtpTtl]
    <2>1. OtpTtl \in -1 .. OtpTtl
      BY OtpAssumption, RateLimiterAssumption
    <2> QED
      BY <2>1 DEF OtpInv, Types
  <1>7. Types'
    BY <1>4, <1>5, <1>6 DEF OtpInv, Types
  <1>9. JobOK(w)'
    <2>1. new \in Issued'
      BY <1>1, <1>5 DEF Issued
    <2> QED
      BY <1>3, <1>4, <2>1, PlainChallenge DEF JobOK, Holding
  <1>10. ASSUME NEW c \in Codes, c # new PROVE CodeOK(c)'
    <2>1. \A q \in Phones : Stored(q, c)' => Stored(q, c) /\ store'[q].attempts = store[q].attempts
      BY DEF Stored
    <2>2. \A v \in Workers :
             /\ Holds(v, c)' <=> Holds(v, c)
             /\ Holds(v, c) => pc'[v] = pc[v] /\ job'[v] = job[v]
             /\ Mints(v, c)' => Mints(v, c)
             /\ Saves(v, c)' => Saves(v, c)
      BY <1>3, <1>4, <1>10 DEF Holds, Holding, Mints, Saves, OthersKept
    <2>3. /\ compared'[c] = compared[c] /\ logins'[c] = logins[c] /\ raced \subseteq raced'
          /\ issued' \in Nat /\ CodeOK(c)
      BY <1>5 DEF OtpInv
    <2> QED
      BY <2>1, <2>2, <2>3, <1>5, CodeKept
  <1>11. CodeOK(new)'
    <2>1. Fresh(new)
      <3>1. new > issued
        BY <1>1, <1>5
      <3> QED
        BY <3>1 DEF OtpInv, CodeOK, FreshOK
    <2>2. Fresh(new)'
      BY <2>1, <1>4 DEF Fresh, Stored, Holds, Holding, Mints, OthersKept
    <2>3. \A v \in Workers \ {w} : ~Saves(v, new)'
      <3>1. new \notin Issued
        BY <1>1, <1>5 DEF Issued
      <3> QED
        BY <3>1, <1>4 DEF OtpInv, JobOK, Saves, OthersKept
    <2>4. ~(new > issued')
      BY <1>1, <1>5
    <2>5. FreshOK(new)'
      BY <2>2, <2>3, <2>4 DEF FreshOK
    <2> QED
      BY <2>2, <2>5, FreshCode DEF CodeOK
  <1> QED
    BY <1>4, <1>5, <1>7, <1>9, <1>10, <1>11, Assembled

LEMMA RequestOtpInv ==
    ASSUME OtpInv, NEW w \in Workers, NEW typed \in TypedPhones, RequestOtp(w, typed)
    PROVE  OtpInv'
  <1>1. PICK p \in Phones : p = NormaliseBdPhone(typed)
    BY DEF RequestOtp, Phones
  <1>2. LimiterOK'
    BY <1>1, LimiterHit DEF RequestOtp, HitLimiter, OtpInv, Policies
  <1>3. /\ pc[w] = "idle"
        /\ UNCHANGED <<store, users, bucket, sent, compared, logins, raced>>
    BY DEF RequestOtp, db, history
  <1>4. \/ UNCHANGED <<pc, job, issued, left>>
        \/ /\ issued < MaxIssues /\ issued' = issued + 1
           /\ left' = [left EXCEPT ![issued'] = OtpTtl]
           /\ job' = [job EXCEPT ![w] = [NoJob EXCEPT !.phone = p, !.code = issued']]
           /\ Goto(w, "save")
    BY <1>1 DEF RequestOtp
  <1> QED
    BY <1>2, <1>3, <1>4, RefusedInv, IssueInv

LEMMA SaveInv ==
    ASSUME OtpInv, NEW w \in Workers, Save(w)
    PROVE  OtpInv'
  <1>1. pc[w] = "save" /\ JobOK(w)
    BY DEF Save, OtpInv
  <1>2. PICK p \in Phones, new \in Codes : p = job[w].phone /\ new = job[w].code
    BY <1>1, IssuedCodes DEF JobOK
  <1>3. PICK ch : ch = IssueOtp(new)
    OBVIOUS
  <1>4. /\ ch.code = new /\ ch.attempts = 0 /\ ch.ttl = OtpTtl /\ ch \in Challenges
        /\ OtpTtl > 0
    BY <1>3, OtpAssumption, RateLimiterAssumption DEF IssueOtp, Challenges, Codes
  <1>5. /\ store' = [store EXCEPT ![p] = ch]
        /\ pc' = [pc EXCEPT ![w] = "queue"]
        /\ UNCHANGED <<hits, users, bucket, sent, job, issued, left,
                       compared, logins, raced>>
    BY <1>2, <1>3 DEF Save, Saved, Goto, db
  <1>6. /\ store' \in [Phones -> Challenges] /\ store'[p] = ch
        /\ \A q \in Phones \ {p} : store'[q] = store[q]
    BY <1>4, <1>5 DEF OtpInv, Types
  <1>7. OthersKept(w) /\ pc'[w] = "queue" /\ job'[w] = job[w]
        /\ pc' \in [Workers -> Steps] /\ DOMAIN job' = Workers
    BY <1>5 DEF OtpInv, Types, OthersKept, Steps
  <1>8. issued \in Nat /\ issued' = issued /\ issued <= issued'
    BY <1>5 DEF OtpInv, Types
  <1>9. Types'
    BY <1>5, <1>6, <1>7 DEF OtpInv, Types
  <1>11. new \in Issued'
    BY <1>1, <1>2, <1>8 DEF JobOK, Issued
  <1>12. StoreOK(p)'
    BY <1>4, <1>6, <1>11 DEF StoreOK
  <1>13. JobOK(w)'
    BY <1>1, <1>2, <1>7, <1>11 DEF JobOK, Holding
  <1>14. LimiterOK'
    BY <1>5 DEF OtpInv, LimiterOK
  <1>15. ASSUME NEW c \in Codes, c # new PROVE CodeOK(c)'
    <2>1. \A q \in Phones : Stored(q, c)' => Stored(q, c) /\ store'[q].attempts = store[q].attempts
      BY <1>4, <1>6, <1>15 DEF Stored
    <2>2. \A v \in Workers :
             /\ Holds(v, c)' <=> Holds(v, c)
             /\ Holds(v, c) => pc'[v] = pc[v] /\ job'[v] = job[v]
             /\ Mints(v, c)' => Mints(v, c)
             /\ Saves(v, c)' => Saves(v, c)
      BY <1>1, <1>7 DEF Holds, Holding, Mints, Saves, OthersKept
    <2> QED
      BY <2>1, <2>2, <1>5, <1>8, CodeKept DEF OtpInv
  <1>16. CodeOK(new)'
    <2>1. /\ Fresh(new) /\ \A v \in Workers : Saves(v, new) => v = w
      BY <1>1, <1>2 DEF OtpInv, CodeOK, FreshOK, Saves
    <2>2. \A q \in Phones : Stored(q, new)' => q = p
      BY <2>1, <1>6 DEF Fresh, Stored
    <2>3. \A v \in Workers : ~Holds(v, new)' /\ ~Mints(v, new)' /\ ~Saves(v, new)'
      BY <2>1, <1>7 DEF Fresh, Holds, Holding, Mints, Saves, OthersKept
    <2>4. compared'[new] = 0 /\ logins'[new] = 0
      BY <2>1, <1>5 DEF Fresh
    <2>5. ~(new > issued')
      BY <1>1, <1>2, <1>8 DEF JobOK, Issued
    <2>6. FreshOK(new)'
      BY <2>3, <2>5 DEF FreshOK
    <2>7. PhoneOK(new)'
      BY <2>2, <2>3 DEF PhoneOK
    <2>8. UseOK(new)'
      BY <2>3, <2>4 DEF UseOK
    <2>9. CountOK(new)'
      BY <2>2, <2>3, <2>4, <1>4, <1>6, OtpAssumption DEF CountOK
    <2> QED
      BY <2>6, <2>7, <2>8, <2>9 DEF CodeOK
  <1> QED
    BY <1>6, <1>7, <1>8, <1>9, <1>12, <1>13, <1>14, <1>15, <1>16, Assembled

LEMMA QueueSmsInv ==
    ASSUME OtpInv, NEW w \in Workers, QueueSms(w)
    PROVE  OtpInv'
  <1>1. pc[w] = "queue" /\ JobOK(w)
    BY DEF QueueSms, OtpInv
  <1>2. PICK p \in Phones, new \in Codes : p = job[w].phone /\ new = job[w].code
    BY <1>1, IssuedCodes DEF JobOK
  <1>3. /\ users' = users \cup {p} /\ bucket' = bucket \cup {p}
        /\ sent' = sent \/ sent' = [sent EXCEPT ![p] = @ \cup {new}]
        /\ UNCHANGED <<store, hits, issued, left, compared, logins, raced>>
    BY <1>2 DEF QueueSms, FindOrCreateByPhone, redis, history
  <1>4. /\ OthersKept(w) /\ pc'[w] = "idle" /\ JobOK(w)'
        /\ pc' \in [Workers -> Steps] /\ DOMAIN job' = Workers
    BY Answered DEF QueueSms
  <1>5. sent' \in [Phones -> SUBSET Codes]
    BY <1>3 DEF OtpInv, Types
  <1>6. Types'
    BY <1>3, <1>4, <1>5 DEF OtpInv, Types
  <1>8. LimiterOK' /\ issued <= issued' /\ \A q \in Phones : store'[q] = store[q]
    BY <1>3 DEF OtpInv, LimiterOK, Types
  <1>9. \A c \in Codes : CodeOK(c)'
    BY <1>1, <1>3, <1>4, QuietCodes DEF Holding
  <1> QED
    BY <1>4, <1>6, <1>8, <1>9, Assembled

------------------------------------------------------------------------------
(* verifyOtp.                                                              *)

LEMMA VerifyOtpInv ==
    ASSUME OtpInv, NEW w \in Workers, NEW typed \in TypedPhones, VerifyOtp(w, typed)
    PROVE  OtpInv'
  <1>1. PICK p \in Phones : p = NormaliseBdPhone(typed)
    BY DEF VerifyOtp, Phones
  <1>2. LimiterOK'
    BY <1>1, LimiterHit DEF VerifyOtp, HitLimiter, OtpInv, Policies
  <1>3. /\ pc[w] = "idle"
        /\ UNCHANGED <<store, users, bucket, sent, issued, left,
                       compared, logins, raced>>
    BY DEF VerifyOtp, db, history
  <1>4. CASE UNCHANGED <<pc, job>>
    BY <1>2, <1>3, <1>4, RefusedInv
  <1>5. CASE job' = [job EXCEPT ![w] = [NoJob EXCEPT !.phone = p]] /\ Goto(w, "load")
    <2>1. PICK j : j = [NoJob EXCEPT !.phone = p]
      OBVIOUS
    <2>2. j.phone = p /\ j \in Jobs
      BY <2>1, PlainChallenge DEF Jobs
    <2>3. /\ OthersKept(w) /\ pc'[w] = "load" /\ job'[w] = j
          /\ pc' \in [Workers -> Steps] /\ DOMAIN job' = Workers
      BY <1>5, <2>1, GoneTo DEF Steps
    <2>4. JobOK(w)'
      BY <2>2, <2>3, PlainChallenge DEF JobOK, Holding
    <2>6. Types' /\ issued <= issued' /\ \A q \in Phones : store'[q] = store[q]
      BY <1>3, <2>3 DEF OtpInv, Types
    <2>7. \A c \in Codes : CodeOK(c)'
      BY <1>3, <2>3, QuietCodes DEF Holding
    <2> QED
      BY <1>2, <2>3, <2>4, <2>6, <2>7, Assembled
  <1> QED
    BY <1>1, <1>4, <1>5 DEF VerifyOtp

(* A challenge is loaded and the guess compared, or not.                   *)
LEMMA LoadInv ==
    ASSUME OtpInv, NEW w \in Workers, NEW guess, Load(w, guess)
    PROVE  OtpInv'
  <1>1. pc[w] = "load" /\ JobOK(w)
    BY DEF Load, OtpInv
  <1>2. PICK p \in Phones : p = job[w].phone
    BY <1>1 DEF JobOK
  <1>3. PICK ch \in Challenges : ch = store[p]
    BY DEF OtpInv, Types
  <1>4. UNCHANGED <<store, hits, users, bucket, sent, issued, left, logins>>
    BY DEF Load, redis, db
  <1>5. LimiterOK' /\ issued <= issued' /\ \A q \in Phones : store'[q] = store[q]
    BY <1>4 DEF OtpInv, LimiterOK, Types
  <1>6. CASE ch = NoChallenge
    <2>1. ~OpenToGuesses(ch)
      BY <1>6 DEF OpenToGuesses
    <2>2. compared' = compared /\ raced' = raced /\ Answer(w)
      BY <1>2, <1>3, <1>6, <2>1 DEF Load
    <2>3. /\ OthersKept(w) /\ pc'[w] = "idle" /\ JobOK(w)'
          /\ pc' \in [Workers -> Steps] /\ DOMAIN job' = Workers
      BY <2>2, Answered
    <2>5. Types'
      BY <1>4, <2>2, <2>3 DEF OtpInv, Types
    <2>6. \A c \in Codes : CodeOK(c)'
      BY <1>1, <1>4, <2>2, <2>3, QuietCodes DEF Holding
    <2> QED
      BY <1>5, <2>3, <2>5, <2>6, Assembled
  <1>7. CASE ch # NoChallenge
    <2>1. StoreOK(p) /\ Stored(p, ch.code)
      BY <1>3 DEF OtpInv, Stored
    <2>2. PICK new \in Codes : new = ch.code
      BY <1>3, <1>7, <2>1, OtpAssumption DEF StoreOK, Issued, Codes, OtpInv, Types
    <2>3. new \in Issued /\ issued \in Nat
      BY <1>3, <1>7, <2>1, <2>2 DEF StoreOK, OtpInv, Types
    <2>4. PICK step \in {"consume", "ttl"} :
             /\ Goto(w, step)
             /\ step = "consume" => OpenToGuesses(ch)
             /\ job' = [job EXCEPT ![w].seen = ch]
      BY <1>2, <1>3, <1>7 DEF Load
    <2>5. PICK j : j = [job[w] EXCEPT !.seen = ch]
      OBVIOUS
    <2>6. \/ OpenToGuesses(ch) /\ compared' = [compared EXCEPT ![new] = @ + 1]
          \/ compared' = compared
      BY <1>2, <1>3, <2>2 DEF Load
    <2>7. /\ (\E v \in Workers : Holds(v, new)) => new \in raced'
          /\ raced \subseteq raced'
      BY <1>2, <1>3, <1>7, <2>2 DEF Load, Holds
    <2>8. /\ OthersKept(w) /\ pc'[w] = step /\ job'[w] = j
          /\ pc' \in [Workers -> Steps] /\ DOMAIN job' = Workers
      BY <2>4, <2>5, GoneTo DEF Steps
    <2>9. j.seen = ch /\ j.phone = p /\ j \in Jobs
      BY <1>1, <1>2, <2>5 DEF JobOK, Jobs
    <2>11. compared' \in [Codes -> Nat]
      BY <2>6 DEF OtpInv, Types
    <2>12. Types'
      BY <1>4, <2>8, <2>11 DEF OtpInv, Types
    <2>13. JobOK(w)'
      <3>1. Issued' = Issued
        BY <1>4 DEF Issued
      <3>2. job'[w].phone = p /\ job'[w].seen.code = new /\ job'[w] \in Jobs
        BY <2>2, <2>8, <2>9
      <3> QED
        BY <2>3, <2>4, <2>8, <3>1, <3>2 DEF JobOK, Holding
    <2>14. ASSUME NEW c \in Codes, c # new PROVE CodeOK(c)'
      <3>1. \A q \in Phones : Stored(q, c)' => Stored(q, c) /\ store'[q].attempts = store[q].attempts
        BY <1>4 DEF Stored
      <3>2. \A v \in Workers :
               /\ Holds(v, c)' <=> Holds(v, c)
               /\ Holds(v, c) => pc'[v] = pc[v] /\ job'[v] = job[v]
               /\ Mints(v, c)' => Mints(v, c)
               /\ Saves(v, c)' => Saves(v, c)
        BY <1>1, <2>2, <2>4, <2>8, <2>9, <2>14 DEF Holds, Holding, Mints, Saves, OthersKept
      <3>3. /\ compared'[c] = compared[c] /\ logins'[c] = logins[c]
            /\ issued' \in Nat /\ issued <= issued' /\ CodeOK(c)
        BY <1>4, <2>3, <2>6, <2>14 DEF OtpInv, Types
      <3> QED
        BY <3>1, <3>2, <3>3, <2>3, <2>7, CodeKept
    <2>15. CodeOK(new)'
      <3>1. CodeOK(new) /\ Stored(p, new)
        BY <2>1, <2>2 DEF OtpInv
      <3>2. \A v \in Workers : ~Saves(v, new)
        BY <3>1 DEF CodeOK, FreshOK, Fresh
      <3>3. /\ Holds(w, new)' /\ ~Holds(w, new)
            /\ \A v \in Workers \ {w} : Holds(v, new)' <=> Holds(v, new)
        BY <1>1, <2>2, <2>4, <2>8, <2>9 DEF Holds, Holding, OthersKept
      <3>4. \A v \in Workers : (Mints(v, new)' <=> Mints(v, new)) /\ ~Saves(v, new)'
        BY <1>1, <2>4, <2>8, <3>2 DEF Mints, Saves, OthersKept
      <3>5. \A q \in Phones : Stored(q, new)' <=> Stored(q, new)
        BY <1>4 DEF Stored
      <3>6. FreshOK(new)'
        <4>1. ~(new > issued')
          BY <1>4, <2>3 DEF Issued
        <4> QED
          BY <4>1, <3>4 DEF FreshOK
      <3>7. PhoneOK(new)'
        <4>1. \A v \in Workers : Holds(v, new)' => job'[v].phone = p
          BY <2>8, <2>9, <3>1, <3>3 DEF CodeOK, PhoneOK, OthersKept
        <4>2. \A q \in Phones : Stored(q, new) => q = p
          BY <3>1 DEF CodeOK, PhoneOK
        <4> QED
          BY <4>1, <4>2, <3>5 DEF PhoneOK
      <3>8. ASSUME new \notin raced' PROVE UseOK(new)' /\ CountOK(new)'
        <4>1. \A v \in Workers : ~Holds(v, new)
          BY <2>7, <3>8
        <4>2. UseOK(new) /\ CountOK(new)
          BY <2>7, <3>1, <3>8 DEF CodeOK
        <4>3. \A v \in Workers : ~Mints(v, new)
          BY <3>1, <4>2 DEF UseOK
        <4>4. logins[new] = 0
          <5>1. logins[new] \in Nat /\ logins[new] # 1 /\ logins[new] <= 1
            BY <3>1, <4>2 DEF UseOK, OtpInv, Types
          <5> QED
            BY <5>1
        <4>5. UseOK(new)'
          BY <1>4, <3>4, <4>3, <4>4 DEF UseOK
        <4>6. compared[new] \in Nat /\ ch.attempts \in Nat /\ compared[new] <= ch.attempts
              /\ compared[new] <= MaxVerifyAttempts /\ MaxVerifyAttempts \in Nat
          BY <1>3, <3>1, <4>1, <4>2, OtpAssumption DEF CountOK, OtpInv, Types, Challenges
        <4>7. compared'[new] <= ch.attempts + 1 /\ compared'[new] <= MaxVerifyAttempts
          <5>1. CASE compared' = compared
            BY <5>1, <4>6
          <5>2. CASE OpenToGuesses(ch) /\ compared' = [compared EXCEPT ![new] = @ + 1]
            <6>1. ch.attempts < MaxVerifyAttempts
              BY <5>2 DEF OpenToGuesses
            <6>2. compared'[new] = compared[new] + 1
              BY <5>2 DEF OtpInv, Types
            <6> QED
              BY <6>1, <6>2, <4>6
          <5> QED
            BY <5>1, <5>2, <2>6
        <4>8. \A v \in Workers : Holds(v, new)' => v = w
          BY <3>3, <4>1
        <4>9. CountOK(new)'
          BY <2>8, <2>9, <3>3, <4>7, <4>8 DEF CountOK
        <4> QED
          BY <4>5, <4>9
      <3> QED
        BY <3>6, <3>7, <3>8 DEF CodeOK
    <2> QED
      BY <1>5, <2>8, <2>12, <2>13, <2>14, <2>15, Assembled
  <1> QED
    BY <1>6, <1>7

LEMMA ReadTtlInv ==
    ASSUME OtpInv, NEW w \in Workers, ReadTtl(w)
    PROVE  OtpInv'
  <1>1. pc[w] = "ttl" /\ JobOK(w)
    BY DEF ReadTtl, OtpInv
  <1>2. PICK p \in Phones : p = job[w].phone
    BY <1>1 DEF JobOK
  <1>3. store[p] \in Challenges /\ StoreOK(p)
    BY DEF OtpInv, Types
  <1>4. UNCHANGED <<store, hits, users, bucket, sent, issued, left,
                    compared, logins, raced>>
    BY DEF ReadTtl, redis, db, history
  <1>5. LimiterOK' /\ issued <= issued' /\ issued \in Nat /\ issued' \in Nat
        /\ \A q \in Phones : store'[q] = store[q]
    BY <1>4 DEF OtpInv, LimiterOK, Types
  <1>6. \/ store[p].ttl = 0 /\ Answer(w)
        \/ /\ store[p].ttl > 0 /\ Goto(w, "write")
           /\ job' = [job EXCEPT ![w].ttl = store[p].ttl]
    BY <1>2 DEF ReadTtl
  <1>7. CASE store[p].ttl = 0 /\ Answer(w)
    <2>1. store[p] = NoChallenge
      BY <1>3, <1>7 DEF StoreOK
    <2>2. /\ OthersKept(w) /\ pc'[w] = "idle" /\ JobOK(w)'
          /\ pc' \in [Workers -> Steps] /\ DOMAIN job' = Workers
      BY <1>7, Answered
    <2>4. Types'
      BY <1>4, <2>2 DEF OtpInv, Types
    <2>5. ASSUME NEW c \in Codes PROVE CodeOK(c)'
      <3>1. \A q \in Phones : Stored(q, c)' => Stored(q, c) /\ store'[q].attempts = store[q].attempts
        BY <1>4 DEF Stored
      <3>2. \A v \in Workers :
               /\ Holds(v, c)' => Holds(v, c) /\ pc'[v] = pc[v] /\ job'[v] = job[v]
               /\ v # w /\ Holds(v, c) => Holds(v, c)'
               /\ Mints(v, c)' => Mints(v, c)
               /\ Saves(v, c)' => Saves(v, c)
        BY <1>1, <2>2 DEF Holds, Holding, Mints, Saves, OthersKept
      <3>3. Holds(w, c) => \A q \in Phones : ~Stored(q, c)'
        <4>1. ~Stored(p, c)
          BY <2>1, PlainChallenge DEF Stored, Codes
        <4> QED
          BY <1>2, <3>1, <4>1 DEF OtpInv, CodeOK, PhoneOK
      <3>4. compared'[c] = compared[c] /\ logins'[c] = logins[c] /\ raced \subseteq raced'
            /\ CodeOK(c)
        BY <1>4 DEF OtpInv
      <3> QED
        BY <3>1, <3>2, <3>3, <3>4, <1>5, CodeKept
    <2> QED
      BY <1>5, <2>2, <2>4, <2>5, Assembled
  <1>8. CASE /\ store[p].ttl > 0 /\ Goto(w, "write")
             /\ job' = [job EXCEPT ![w].ttl = store[p].ttl]
    <2>1. PICK j : j = [job[w] EXCEPT !.ttl = store[p].ttl]
      OBVIOUS
    <2>2. /\ OthersKept(w) /\ pc'[w] = "write" /\ job'[w] = j
          /\ pc' \in [Workers -> Steps] /\ DOMAIN job' = Workers
      BY <1>8, <2>1, GoneTo DEF Steps
    <2>3. /\ j.seen = job[w].seen /\ j.phone = job[w].phone
          /\ j.ttl = store[p].ttl /\ j \in Jobs
      BY <1>1, <1>3, <2>1 DEF JobOK, Jobs, Challenges
    <2>5. Types'
      BY <1>4, <2>2 DEF OtpInv, Types
    <2>6. JobOK(w)'
      <3>1. Issued' = Issued /\ Issued \subseteq Codes
        BY <1>4, OtpAssumption DEF Issued, Codes, OtpInv, Types
      <3>2. job[w].phone \in Phones /\ job[w].seen.code \in Issued
        BY <1>1 DEF JobOK, Holding
      <3> QED
        BY <1>8, <2>2, <2>3, <3>1, <3>2 DEF JobOK, Holding
    <2>7. ASSUME NEW c \in Codes PROVE CodeOK(c)'
      <3>1. \A q \in Phones : Stored(q, c)' => Stored(q, c) /\ store'[q].attempts = store[q].attempts
        BY <1>4 DEF Stored
      <3>2. \A v \in Workers :
               /\ Holds(v, c)' <=> Holds(v, c)
               /\ Holds(v, c)' => /\ job'[v].phone = job[v].phone
                                  /\ job'[v].seen = job[v].seen
                                  /\ pc[v] = "consume" => pc'[v] = "consume"
               /\ Mints(v, c)' => Mints(v, c)
               /\ Saves(v, c)' => Saves(v, c)
        BY <1>1, <2>2, <2>3 DEF Holds, Holding, Mints, Saves, OthersKept
      <3>4. compared'[c] = compared[c] /\ logins'[c] = logins[c] /\ raced \subseteq raced'
            /\ CodeOK(c)
        BY <1>4 DEF OtpInv
      <3> QED
        BY <3>1, <3>2, <3>4, <1>5, CodeKept
    <2> QED
      BY <1>5, <2>2, <2>5, <2>6, <2>7, Assembled
  <1> QED
    BY <1>6, <1>7, <1>8

(* The counted attempt is written back over whatever is stored.            *)
LEMMA WriteBackInv ==
    ASSUME OtpInv, NEW w \in Workers, WriteBack(w)
    PROVE  OtpInv'
  <1>1. pc[w] = "write" /\ JobOK(w)
    BY DEF WriteBack, OtpInv
  <1>2. PICK p \in Phones, old \in Codes, seen \in Challenges :
           p = job[w].phone /\ old = seen.code /\ seen = job[w].seen
    BY <1>1, OtpAssumption DEF JobOK, Jobs, Holding, Issued, Codes, OtpInv, Types
  <1>3. /\ old \in Issued /\ Holds(w, old)
        /\ job[w].ttl \in 0 .. OtpTtl /\ job[w].ttl > 0
    BY <1>1, <1>2 DEF JobOK, Jobs, Holding, Holds
  <1>4. PICK counted \in Nat :
           /\ counted = IF seen.attempts > MaxVerifyAttempts THEN seen.attempts
                                                             ELSE seen.attempts + 1
           /\ counted <= MaxVerifyAttempts + 1
    BY OtpAssumption DEF Challenges
  <1>5. PICK ch : ch = [code |-> old, ttl |-> job[w].ttl, attempts |-> counted]
    OBVIOUS
  <1>6. /\ ch.code = old /\ ch.attempts = counted /\ ch.ttl > 0 /\ ch \in Challenges
    BY <1>2, <1>3, <1>4, <1>5, OtpAssumption DEF Challenges, Codes
  <1>7. /\ store' = [store EXCEPT ![p] = ch] /\ Answer(w)
        /\ UNCHANGED <<hits, users, bucket, sent, issued, left,
                       compared, logins, raced>>
    BY <1>2, <1>4, <1>5 DEF WriteBack, db, history
  <1>8. /\ store' \in [Phones -> Challenges] /\ store'[p] = ch
        /\ \A q \in Phones \ {p} : store'[q] = store[q]
    BY <1>6, <1>7 DEF OtpInv, Types
  <1>9. /\ OthersKept(w) /\ pc'[w] = "idle" /\ JobOK(w)'
        /\ pc' \in [Workers -> Steps] /\ DOMAIN job' = Workers
    BY <1>7, Answered
  <1>11. Types' /\ LimiterOK' /\ issued <= issued' /\ issued \in Nat /\ issued' \in Nat
    BY <1>7, <1>8, <1>9 DEF OtpInv, Types, LimiterOK
  <1>12. StoreOK(p)'
    <2>1. old \in Issued'
      BY <1>3, <1>7 DEF Issued
    <2> QED
      BY <2>1, <1>6, <1>8 DEF StoreOK
  <1>13. ASSUME NEW c \in Codes, c # old PROVE CodeOK(c)'
    <2>1. \A q \in Phones : Stored(q, c)' => Stored(q, c) /\ store'[q].attempts = store[q].attempts
      BY <1>6, <1>8, <1>13 DEF Stored
    <2>2. \A v \in Workers :
             /\ Holds(v, c)' <=> Holds(v, c)
             /\ Holds(v, c) => pc'[v] = pc[v] /\ job'[v] = job[v]
             /\ Mints(v, c)' => Mints(v, c)
             /\ Saves(v, c)' => Saves(v, c)
      BY <1>1, <1>2, <1>9, <1>13 DEF Holds, Holding, Mints, Saves, OthersKept
    <2>3. compared'[c] = compared[c] /\ logins'[c] = logins[c] /\ raced \subseteq raced'
          /\ CodeOK(c)
      BY <1>7 DEF OtpInv
    <2> QED
      BY <2>1, <2>2, <2>3, <1>11, CodeKept
  <1>14. CodeOK(old)'
    <2>1. CodeOK(old)
      BY DEF OtpInv
    <2>2. \A v \in Workers : ~Saves(v, old)
      BY <1>3, <2>1 DEF CodeOK, FreshOK, Fresh
    <2>3. \A v \in Workers :
             /\ Holds(v, old)' => v # w /\ Holds(v, old) /\ job'[v] = job[v]
             /\ Mints(v, old)' => Mints(v, old)
             /\ ~Saves(v, old)'
      BY <1>9, <2>2 DEF Holds, Holding, Mints, Saves, OthersKept
    <2>4. \A q \in Phones : Stored(q, old)' => q = p
      BY <1>2, <1>3, <1>8, <2>1 DEF CodeOK, PhoneOK, Stored
    <2>5. \A v \in Workers : Holds(v, old) => job[v].phone = p
      BY <1>2, <1>3, <2>1 DEF CodeOK, PhoneOK
    <2>6. FreshOK(old)'
      <3>1. ~(old > issued')
        BY <1>3, <1>7, <1>11 DEF Issued
      <3> QED
        BY <2>3, <3>1 DEF FreshOK
    <2>7. PhoneOK(old)'
      BY <2>3, <2>4, <2>5 DEF PhoneOK
    <2>8. ASSUME old \notin raced' PROVE UseOK(old)' /\ CountOK(old)'
      <3>1. UseOK(old) /\ CountOK(old)
        BY <1>7, <2>1, <2>8 DEF CodeOK
      <3>2. \A v \in Workers : ~Mints(v, old)
        BY <1>3, <3>1 DEF UseOK
      <3>3. logins[old] = 0
        <4>1. logins[old] \in Nat /\ logins[old] # 1 /\ logins[old] <= 1
          BY <1>3, <3>1 DEF UseOK, OtpInv, Types
        <4> QED
          BY <4>1
      <3>4. UseOK(old)'
        BY <1>7, <2>3, <3>2, <3>3 DEF UseOK
      <3>5. \A v \in Workers : ~Holds(v, old)'
        BY <1>3, <2>3, <3>1 DEF CountOK
      <3>6. compared[old] <= counted
        <4>1. /\ compared[old] \in Nat /\ compared[old] <= MaxVerifyAttempts
              /\ compared[old] <= seen.attempts + 1
              /\ seen.attempts \in Nat /\ MaxVerifyAttempts \in Nat
          BY <1>1, <1>2, <1>3, <3>1, OtpAssumption DEF CountOK, OtpInv, Types, Challenges
        <4> QED
          BY <4>1, <1>4
      <3>7. CountOK(old)'
        BY <1>6, <1>7, <1>8, <2>4, <3>1, <3>5, <3>6 DEF CountOK
      <3> QED
        BY <3>4, <3>7
    <2> QED
      BY <2>6, <2>7, <2>8 DEF CodeOK
  <1> QED
    BY <1>8, <1>9, <1>11, <1>12, <1>13, <1>14, Assembled

(* The accepted code's challenge, or whatever is stored now, is deleted.   *)
LEMMA ConsumeInv ==
    ASSUME OtpInv, NEW w \in Workers, Consume(w)
    PROVE  OtpInv'
  <1>1. pc[w] = "consume" /\ JobOK(w)
    BY DEF Consume, OtpInv
  <1>2. PICK p \in Phones, used \in Codes : p = job[w].phone /\ used = job[w].seen.code
    BY <1>1, IssuedCodes DEF JobOK, Holding
  <1>3. used \in Issued /\ Holds(w, used)
    BY <1>1, <1>2 DEF JobOK, Holding, Holds
  <1>4. /\ store' = [store EXCEPT ![p] = NoChallenge]
        /\ pc' = [pc EXCEPT ![w] = "mint"]
        /\ UNCHANGED <<hits, users, bucket, sent, job, issued, left,
                       compared, logins, raced>>
    BY <1>2 DEF Consume, Goto, db, history
  <1>5. /\ store' \in [Phones -> Challenges] /\ store'[p] = NoChallenge
        /\ \A q \in Phones \ {p} : store'[q] = store[q]
    BY <1>4, PlainChallenge DEF OtpInv, Types
  <1>6. /\ OthersKept(w) /\ pc'[w] = "mint" /\ job'[w] = job[w]
        /\ pc' \in [Workers -> Steps] /\ DOMAIN job' = Workers
    BY <1>4 DEF OtpInv, Types, OthersKept, Steps
  <1>8. Types' /\ LimiterOK' /\ issued <= issued' /\ issued \in Nat /\ issued' \in Nat
    BY <1>4, <1>5, <1>6 DEF OtpInv, Types, LimiterOK
  <1>9. StoreOK(p)'
    BY <1>5 DEF StoreOK
  <1>10. JobOK(w)'
    <2>1. Issued' = Issued
      BY <1>4 DEF Issued
    <2> QED
      BY <1>1, <1>2, <1>3, <1>6, <2>1 DEF JobOK, Holding
  <1>11. \A c \in Codes : ~Stored(p, c)'
    BY <1>5, PlainChallenge DEF Stored, Codes
  <1>12. ASSUME NEW c \in Codes, c # used PROVE CodeOK(c)'
    <2>1. \A q \in Phones : Stored(q, c)' => Stored(q, c) /\ store'[q].attempts = store[q].attempts
      BY <1>5, <1>11 DEF Stored
    <2>2. \A v \in Workers :
             /\ Holds(v, c)' <=> Holds(v, c)
             /\ Holds(v, c) => pc'[v] = pc[v] /\ job'[v] = job[v]
             /\ Mints(v, c)' => Mints(v, c)
             /\ Saves(v, c)' => Saves(v, c)
      BY <1>1, <1>2, <1>6, <1>12 DEF Holds, Holding, Mints, Saves, OthersKept
    <2>3. compared'[c] = compared[c] /\ logins'[c] = logins[c] /\ raced \subseteq raced'
          /\ CodeOK(c)
      BY <1>4 DEF OtpInv
    <2> QED
      BY <2>1, <2>2, <2>3, <1>8, CodeKept
  <1>13. CodeOK(used)'
    <2>1. CodeOK(used)
      BY DEF OtpInv
    <2>2. \A v \in Workers : ~Saves(v, used)
      BY <1>3, <2>1 DEF CodeOK, FreshOK, Fresh
    <2>3. \A v \in Workers :
             /\ Holds(v, used)' => v # w /\ Holds(v, used) /\ job'[v] = job[v]
             /\ v # w /\ Mints(v, used)' => Mints(v, used)
             /\ ~Saves(v, used)'
      BY <1>6, <2>2 DEF Holds, Holding, Mints, Saves, OthersKept
    <2>4. \A q \in Phones : ~Stored(q, used)'
      BY <1>2, <1>3, <1>5, <1>11, <2>1 DEF CodeOK, PhoneOK, Stored
    <2>5. FreshOK(used)'
      <3>1. ~(used > issued')
        BY <1>3, <1>4, <1>8 DEF Issued
      <3> QED
        BY <2>3, <3>1 DEF FreshOK
    <2>6. PhoneOK(used)'
      BY <2>1, <2>3, <2>4 DEF CodeOK, PhoneOK
    <2>7. ASSUME used \notin raced' PROVE UseOK(used)' /\ CountOK(used)'
      <3>1. UseOK(used) /\ CountOK(used)
        BY <1>4, <2>1, <2>7 DEF CodeOK
      <3>2. \A v \in Workers : v # w => ~Mints(v, used)'
        BY <1>3, <2>3, <3>1 DEF UseOK
      <3>3. logins[used] = 0
        <4>1. logins[used] \in Nat /\ logins[used] # 1 /\ logins[used] <= 1
          BY <1>3, <3>1 DEF UseOK, OtpInv, Types
        <4> QED
          BY <4>1
      <3>4. \A v \in Workers : ~Holds(v, used)'
        BY <1>3, <2>3, <3>1 DEF CountOK
      <3>5. UseOK(used)'
        BY <1>4, <2>4, <3>2, <3>3, <3>4 DEF UseOK
      <3>6. CountOK(used)'
        BY <1>4, <2>4, <3>1, <3>4 DEF CountOK
      <3> QED
        BY <3>5, <3>6
    <2> QED
      BY <2>5, <2>6, <2>7 DEF CodeOK
  <1> QED
    BY <1>5, <1>6, <1>8, <1>9, <1>10, <1>12, <1>13, Assembled

(* A session is opened, or there is no such user.                          *)
LEMMA MintInv ==
    ASSUME OtpInv, NEW w \in Workers, Mint(w)
    PROVE  OtpInv'
  <1>1. pc[w] = "mint" /\ JobOK(w)
    BY DEF Mint, OtpInv
  <1>2. PICK used \in Codes : used = job[w].seen.code
    BY <1>1, IssuedCodes DEF JobOK
  <1>3. used \in Issued /\ Mints(w, used)
    BY <1>1, <1>2 DEF JobOK, Mints
  <1>4. /\ logins' = logins \/ logins' = [logins EXCEPT ![used] = @ + 1]
        /\ Answer(w)
        /\ UNCHANGED <<store, hits, users, bucket, sent, issued, left,
                       compared, raced>>
    BY <1>2 DEF Mint, redis, db
  <1>5. /\ OthersKept(w) /\ pc'[w] = "idle" /\ JobOK(w)'
        /\ pc' \in [Workers -> Steps] /\ DOMAIN job' = Workers
    BY <1>4, Answered
  <1>7. /\ logins' \in [Codes -> Nat] /\ logins'[used] <= logins[used] + 1
        /\ \A c \in Codes \ {used} : logins'[c] = logins[c]
    BY <1>4 DEF OtpInv, Types
  <1>8. Types' /\ LimiterOK' /\ issued <= issued' /\ issued \in Nat /\ issued' \in Nat
        /\ \A q \in Phones : store'[q] = store[q]
    BY <1>4, <1>5, <1>7 DEF OtpInv, Types, LimiterOK
  <1>9. ASSUME NEW c \in Codes, c # used PROVE CodeOK(c)'
    <2>1. \A q \in Phones : Stored(q, c)' => Stored(q, c) /\ store'[q].attempts = store[q].attempts
      BY <1>4 DEF Stored
    <2>2. \A v \in Workers :
             /\ Holds(v, c)' <=> Holds(v, c)
             /\ Holds(v, c) => pc'[v] = pc[v] /\ job'[v] = job[v]
             /\ Mints(v, c)' => Mints(v, c)
             /\ Saves(v, c)' => Saves(v, c)
      BY <1>1, <1>5 DEF Holds, Holding, Mints, Saves, OthersKept
    <2>3. compared'[c] = compared[c] /\ logins'[c] = logins[c] /\ raced \subseteq raced'
          /\ CodeOK(c)
      BY <1>4, <1>7, <1>9 DEF OtpInv
    <2> QED
      BY <2>1, <2>2, <2>3, <1>8, CodeKept
  <1>10. CodeOK(used)'
    <2>1. CodeOK(used)
      BY DEF OtpInv
    <2>2. \A v \in Workers : ~Saves(v, used)
      BY <1>3, <2>1 DEF CodeOK, FreshOK, Fresh
    <2>3. \A v \in Workers :
             /\ Holds(v, used)' <=> Holds(v, used)
             /\ Holds(v, used) => pc'[v] = pc[v] /\ job'[v] = job[v]
             /\ Mints(v, used)' => v # w /\ Mints(v, used)
             /\ ~Saves(v, used)'
      BY <1>1, <1>5, <2>2 DEF Holds, Holding, Mints, Saves, OthersKept
    <2>4. \A q \in Phones : Stored(q, used)' <=> Stored(q, used)
      BY <1>4 DEF Stored
    <2>5. FreshOK(used)'
      <3>1. ~(used > issued')
        BY <1>3, <1>4, <1>8 DEF Issued
      <3> QED
        BY <2>3, <3>1 DEF FreshOK
    <2>6. PhoneOK(used)'
      BY <2>1, <2>3, <2>4 DEF CodeOK, PhoneOK
    <2>7. ASSUME used \notin raced' PROVE UseOK(used)' /\ CountOK(used)'
      <3>1. UseOK(used) /\ CountOK(used)
        BY <1>4, <2>1, <2>7 DEF CodeOK
      <3>2. /\ logins[used] = 0 /\ \A v \in Workers : ~Mints(v, used)'
            /\ \A q \in Phones : ~Stored(q, used)
            /\ \A v \in Workers : ~Holds(v, used)
        BY <1>3, <2>3, <3>1 DEF UseOK
      <3>3. logins'[used] <= 1
        BY <1>7, <3>2
      <3>4. UseOK(used)'
        BY <2>3, <2>4, <3>2, <3>3 DEF UseOK
      <3>5. CountOK(used)'
        BY <1>4, <2>3, <2>4, <3>1, <3>2 DEF CountOK
      <3> QED
        BY <3>4, <3>5
    <2> QED
      BY <2>5, <2>6, <2>7 DEF CodeOK
  <1> QED
    BY <1>5, <1>8, <1>9, <1>10, Assembled

------------------------------------------------------------------------------
(* Failures and time.                                                      *)

LEMMA FaultInv ==
    ASSUME OtpInv, NEW w \in Workers, Fault(w)
    PROVE  OtpInv'
  <1>1. /\ Answer(w) /\ raced \subseteq raced'
        /\ Holding(w) => job[w].seen.code \in raced'
        /\ UNCHANGED <<store, hits, users, bucket, sent, issued, left, compared, logins>>
    BY DEF Fault, redis, db
  <1>2. /\ OthersKept(w) /\ pc'[w] = "idle" /\ JobOK(w)'
        /\ pc' \in [Workers -> Steps] /\ DOMAIN job' = Workers
    BY <1>1, Answered
  <1>4. Types' /\ LimiterOK' /\ issued <= issued' /\ issued \in Nat /\ issued' \in Nat
        /\ \A q \in Phones : store'[q] = store[q]
    BY <1>1, <1>2 DEF OtpInv, Types, LimiterOK
  <1>5. ASSUME NEW c \in Codes PROVE CodeOK(c)'
    <2>1. \A q \in Phones : Stored(q, c)' => Stored(q, c) /\ store'[q].attempts = store[q].attempts
      BY <1>1 DEF Stored
    <2>2. \A v \in Workers :
             /\ Holds(v, c)' => Holds(v, c) /\ pc'[v] = pc[v] /\ job'[v] = job[v]
             /\ Holds(v, c) => Holds(v, c)' \/ c \in raced'
             /\ Mints(v, c)' => Mints(v, c)
             /\ Saves(v, c)' => Saves(v, c)
      BY <1>1, <1>2 DEF Holds, Holding, Mints, Saves, OthersKept
    <2>3. compared'[c] = compared[c] /\ logins'[c] = logins[c] /\ CodeOK(c)
      BY <1>1 DEF OtpInv
    <2> QED
      BY <2>1, <2>2, <2>3, <1>1, <1>4, CodeKept
  <1> QED
    BY <1>2, <1>4, <1>5, Assembled

LEMMA TickInv ==
    ASSUME OtpInv, Tick
    PROVE  OtpInv'
  <1>1. UNCHANGED <<users, sent, pc, job, issued, compared, logins, raced>>
    BY DEF Tick, history
  <1>2. LimiterOK'
    BY LimiterAges DEF Tick, OtpInv
  <1>3. ASSUME NEW p \in Phones
        PROVE  /\ store'[p] \in Challenges
               /\ \/ store'[p] = NoChallenge
                  \/ /\ store'[p].code = store[p].code /\ store'[p].ttl > 0
                     /\ store'[p].attempts = store[p].attempts /\ store[p].ttl > 0
    <2>1. store[p] \in Challenges
      BY DEF OtpInv, Types
    <2>2. store'[p] = IF store[p].ttl <= 1 THEN NoChallenge
                                           ELSE [store[p] EXCEPT !.ttl = @ - 1]
      BY DEF Tick
    <2>3. store[p].ttl \in 0 .. OtpTtl /\ OtpTtl \in Nat
      BY <2>1, OtpAssumption, RateLimiterAssumption DEF Challenges
    <2>4. CASE store[p].ttl <= 1
      BY <2>2, <2>4, PlainChallenge
    <2>5. CASE ~(store[p].ttl <= 1)
      <3>1. store'[p] = [store[p] EXCEPT !.ttl = @ - 1]
        BY <2>2, <2>5
      <3>2. store[p].ttl - 1 \in 0 .. OtpTtl /\ store[p].ttl - 1 > 0 /\ store[p].ttl > 0
        BY <2>3, <2>5
      <3> QED
        BY <2>1, <3>1, <3>2 DEF Challenges
    <2> QED
      BY <2>4, <2>5
  <1>4. Types'
    <2>1. store' \in [Phones -> Challenges]
      BY <1>3 DEF Tick
    <2>2. left' \in [Codes -> -1 .. OtpTtl]
      <3>1. OtpTtl \in Nat
        BY OtpAssumption, RateLimiterAssumption
      <3>2. \A c \in Codes : left[c] \in -1 .. OtpTtl
        BY DEF OtpInv, Types
      <3>3. \A c \in Codes : (IF left[c] >= 0 THEN left[c] - 1 ELSE -1) \in -1 .. OtpTtl
        BY <3>1, <3>2
      <3> QED
        BY <3>3 DEF Tick
    <2>3. bucket' = {}
      BY DEF Tick
    <2> QED
      BY <1>1, <2>1, <2>2, <2>3 DEF OtpInv, Types
  <1>6. Issued' = Issued /\ Issued \subseteq Codes /\ issued \in Nat /\ issued' \in Nat
        /\ issued <= issued'
    BY <1>1, OtpAssumption DEF Issued, OtpInv, Types, Codes
  <1>7. ASSUME NEW p \in Phones PROVE StoreOK(p)'
    <2>1. StoreOK(p)
      BY DEF OtpInv
    <2>2. CASE store'[p] = NoChallenge
      BY <2>2 DEF StoreOK
    <2>3. CASE /\ store'[p].code = store[p].code /\ store'[p].ttl > 0
               /\ store[p].ttl > 0
      <3>1. store[p] # NoChallenge
        BY <2>3, PlainChallenge
      <3>2. store[p].code \in Issued
        BY <2>1, <3>1 DEF StoreOK
      <3> QED
        BY <1>6, <2>3, <3>2 DEF StoreOK
    <2> QED
      BY <1>3, <2>2, <2>3
  <1>8. ASSUME NEW w \in Workers PROVE JobOK(w)'
    BY <1>1, <1>6, OtherJobs DEF OtpInv, Types
  <1>9. ASSUME NEW c \in Codes PROVE CodeOK(c)'
    <2>1. \A p \in Phones : Stored(p, c)' => Stored(p, c) /\ store'[p].attempts = store[p].attempts
      BY <1>3, PlainChallenge DEF Stored, Codes
    <2>2. \A v \in Workers :
             /\ Holds(v, c)' <=> Holds(v, c)
             /\ Mints(v, c)' <=> Mints(v, c)
             /\ Saves(v, c)' <=> Saves(v, c)
             /\ pc'[v] = pc[v] /\ job'[v] = job[v]
      BY <1>1 DEF Holds, Holding, Mints, Saves
    <2>3. compared'[c] = compared[c] /\ logins'[c] = logins[c] /\ raced \subseteq raced'
          /\ CodeOK(c)
      BY <1>1 DEF OtpInv
    <2> QED
      BY <2>1, <2>2, <2>3, <1>6, CodeKept
  <1> QED
    BY <1>2, <1>4, <1>7, <1>8, <1>9 DEF OtpInv

------------------------------------------------------------------------------
(* Every step preserves the invariant.                                     *)
LEMMA NextInv == OtpInv /\ [Next]_vars => OtpInv'
  <1> SUFFICES ASSUME OtpInv, [Next]_vars PROVE OtpInv'
    OBVIOUS
  <1>1. CASE UNCHANGED vars
    <2>1. Types' /\ LimiterOK' /\ issued \in Nat /\ issued <= issued' /\ issued' \in Nat
      BY <1>1 DEF vars, OtpInv, Types, LimiterOK
    <2>3. \A p \in Phones : StoreOK(p)'
      BY <1>1, <2>1, OtherStores DEF vars, OtpInv, Types
    <2>4. \A w \in Workers : JobOK(w)'
      BY <1>1, <2>1, OtherJobs DEF vars, OtpInv, Types
    <2>5. ASSUME NEW c \in Codes PROVE CodeOK(c)'
      <3>1. \A p \in Phones : Stored(p, c)' => Stored(p, c) /\ store'[p].attempts = store[p].attempts
        BY <1>1 DEF vars, Stored
      <3>2. \A v \in Workers :
               /\ Holds(v, c)' <=> Holds(v, c)
               /\ Mints(v, c)' <=> Mints(v, c)
               /\ Saves(v, c)' <=> Saves(v, c)
               /\ pc'[v] = pc[v] /\ job'[v] = job[v]
        BY <1>1 DEF vars, Holds, Holding, Mints, Saves
      <3>3. compared'[c] = compared[c] /\ logins'[c] = logins[c] /\ raced \subseteq raced'
            /\ CodeOK(c)
        BY <1>1 DEF vars, OtpInv
      <3> QED
        BY <3>1, <3>2, <3>3, <2>1, CodeKept
    <2> QED
      BY <2>1, <2>3, <2>4, <2>5 DEF OtpInv
  <1>2. CASE Next
    BY <1>2, TickInv, RequestOtpInv, VerifyOtpInv, SaveInv, QueueSmsInv, LoadInv,
       ReadTtlInv, WriteBackInv, ConsumeInv, MintInv, FaultInv
    DEF Next
  <1> QED
    BY <1>1, <1>2

(* The inductive invariant holds throughout.                               *)
THEOREM OtpSafety == Spec => []OtpInv
  <1>1. Init => OtpInv
    <2> SUFFICES ASSUME Init PROVE OtpInv
      OBVIOUS
    <2>1. Types
      BY PlainChallenge, OtpAssumption, RateLimiterAssumption DEF Init, Types, Steps, Codes
    <2>2. LimiterOK
      <3>1. NoKey.count = 0 /\ \A k \in Policies : NoKey \in Keys(k)
        BY RateLimiterAssumption DEF NoKey, Keys, Limit
      <3> QED
        BY <3>1 DEF Init, LimiterOK
    <2>3. \A p \in Phones : StoreOK(p)
      BY DEF Init, StoreOK
    <2>4. \A w \in Workers : JobOK(w)
      BY PlainChallenge DEF Init, JobOK, Holding
    <2>5. ASSUME NEW c \in Codes PROVE CodeOK(c)
      <3>1. Fresh(c)
        BY PlainChallenge DEF Init, Fresh, Stored, Holds, Holding, Mints, Codes
      <3>2. \A w \in Workers : ~Saves(w, c)
        BY DEF Init, Saves
      <3> QED
        BY <3>1, <3>2, OtpAssumption DEF CodeOK, FreshOK, PhoneOK, UseOK, CountOK, Fresh
    <2> QED
      BY <2>1, <2>2, <2>3, <2>4, <2>5 DEF OtpInv
  <1> QED
    BY <1>1, NextInv, PTL DEF Spec

(* "Capped at 5 tries" holds of every code whose verifications neither     *)
(* overlapped nor lost their write-back, whatever else runs: re-requests,  *)
(* expiry, old challenges written back over new ones.                      *)
THEOREM AttemptsAreCapped == Spec => []AttemptsCappedUnlessRaced
  <1>1. OtpInv => AttemptsCappedUnlessRaced
    BY DEF OtpInv, CodeOK, CountOK, AttemptsCappedUnlessRaced
  <1> QED
    BY <1>1, OtpSafety, PTL

(* Such a code opens at most one session.                                  *)
THEOREM CodesAreSingleUse == Spec => []SingleUseUnlessRaced
  <1>1. OtpInv => SingleUseUnlessRaced
    BY DEF OtpInv, CodeOK, UseOK, SingleUseUnlessRaced
  <1> QED
    BY <1>1, OtpSafety, PTL

(* A lockout ends: an open window of the limiter has an end, and no hit,   *)
(* refused or not, puts it off.                                            *)
THEOREM LockoutsEnd == Spec => LockoutBounded
  <1>1. ASSUME OtpInv, [Next]_vars
        PROVE  \A k \in Policies, p \in Phones :
                  hits[k][p].count > 0 => hits'[k][p].ttl <= hits[k][p].ttl
    <2>1. \/ hits' = hits
          \/ Tick
          \/ \E policy \in Policies, p \in Phones :
                hits' = [hits EXCEPT ![policy][p] = Hit(@, policy)]
      <3>1. ASSUME NEW w \in Workers, NEW typed \in TypedPhones,
                   RequestOtp(w, typed) \/ VerifyOtp(w, typed)
            PROVE  \/ hits' = hits
                   \/ \E policy \in Policies, p \in Phones :
                         hits' = [hits EXCEPT ![policy][p] = Hit(@, policy)]
        <4>1. NormaliseBdPhone(typed) \in Phones
          BY <3>1 DEF RequestOtp, VerifyOtp, Phones
        <4>2. \E policy \in Policies :
                 \/ hits' = hits
                 \/ hits' = [hits EXCEPT ![policy][NormaliseBdPhone(typed)] = Hit(@, policy)]
          BY <3>1 DEF RequestOtp, VerifyOtp, HitLimiter, Policies
        <4> QED
          BY <4>1, <4>2
      <3> QED
        BY <1>1, <3>1 DEF Next, vars, Save, QueueSms, Load, ReadTtl, WriteBack, Consume,
                          Mint, Fault, redis
    <2>2. LimiterOK /\ \A k \in Policies, p \in Phones : hits[k][p].ttl \in Nat
      BY <1>1 DEF OtpInv, LimiterOK, Keys
    <2>3. CASE hits' = hits
      BY <2>2, <2>3
    <2>4. CASE Tick
      BY <2>2, <2>4, LimiterAges DEF Tick
    <2>5. CASE \E policy \in Policies, p \in Phones :
                  hits' = [hits EXCEPT ![policy][p] = Hit(@, policy)]
      BY <2>2, <2>5, LimiterHit
    <2> QED
      BY <2>1, <2>3, <2>4, <2>5
  <1>2. OtpInv /\ [Next]_vars =>
           [\A k \in Policies, p \in Phones :
               hits[k][p].count > 0 =>
                  hits[k][p].ttl > 0 /\ hits'[k][p].ttl <= hits[k][p].ttl]_vars
    BY <1>1 DEF OtpInv, LimiterOK
  <1> QED
    BY <1>2, OtpSafety, PTL DEF Spec, LockoutBounded

------------------------------------------------------------------------------
(* Re-requests.  For a phone that was never crossed, the challenge stored  *)
(* and every copy that a verification holds are of the last code saved,    *)
(* under a TTL that outlives the code.                                     *)

Current(p) ==
    /\ store[p].code \in {0, latest[p]}
    /\ store[p].code # 0 => store[p].ttl >= left[latest[p]]
    /\ \A w \in Workers : Holding(w) /\ job[w].phone = p =>
          /\ job[w].seen.code = latest[p]
          /\ pc[w] = "write" => job[w].ttl >= left[latest[p]]

CurrentInv ==
    /\ latest \in [Phones -> 0 .. MaxIssues] /\ crossed \subseteq Phones
    /\ \A p \in Phones : latest[p] <= issued
    /\ \A p \in Phones \ crossed : Current(p)

(* A phone whose challenge stays, and of which no copy is added.           *)
LEMMA CurrentKept ==
    ASSUME NEW p \in Phones, Current(p),
           store'[p] = store[p], latest'[p] = latest[p], left'[latest[p]] = left[latest[p]],
           \A w \in Workers : Holding(w)' /\ job'[w].phone = p =>
              /\ Holding(w) /\ job[w].phone = p /\ job'[w].seen = job[w].seen
              /\ pc'[w] = "write" => pc[w] = "write" /\ job'[w].ttl = job[w].ttl
    PROVE  Current(p)'
  BY DEF Current

(* A step that ends a request, or leaves its copy alone.                   *)
LEMMA CurrentQuiet ==
    ASSUME CurrentInv, NEW w \in Workers, OthersKept(w),
           pc'[w] \in {"idle", "load", "mint"},
           UNCHANGED <<store, issued, left, latest, crossed>>
    PROVE  CurrentInv'
  <1>1. ASSUME NEW p \in Phones \ crossed PROVE Current(p)'
    <2>1. \A v \in Workers : Holding(v)' =>
             Holding(v) /\ pc'[v] = pc[v] /\ job'[v] = job[v]
      BY DEF OthersKept, Holding
    <2> QED
      BY <2>1, CurrentKept DEF CurrentInv
  <1> QED
    BY <1>1 DEF CurrentInv

LEMMA CurrentRequest ==
    ASSUME OtpInv, CurrentInv, NEW w \in Workers, NEW typed \in TypedPhones,
           RequestOtp(w, typed)
    PROVE  CurrentInv'
  <1>1. pc[w] = "idle" /\ UNCHANGED <<store, latest, crossed>>
    BY DEF RequestOtp, history
  <1>2. CASE UNCHANGED <<pc, job, issued, left>>
    BY <1>1, <1>2, CurrentQuiet DEF OthersKept
  <1>3. CASE /\ issued' = issued + 1 /\ left' = [left EXCEPT ![issued'] = OtpTtl]
             /\ Goto(w, "save") /\ \E j : job' = [job EXCEPT ![w] = j]
    <2>1. OthersKept(w) /\ pc'[w] = "save"
      BY <1>3, GoneTo DEF Steps
    <2>2. \A v \in Workers : Holding(v)' =>
             Holding(v) /\ pc'[v] = pc[v] /\ job'[v] = job[v]
      BY <2>1 DEF OthersKept, Holding
    <2>3. \A p \in Phones : latest[p] \in Nat /\ latest[p] <= issued /\ issued \in Nat
      BY DEF CurrentInv, OtpInv, Types
    <2>4. \A p \in Phones : left'[latest[p]] = left[latest[p]] /\ latest'[p] <= issued'
      BY <1>1, <1>3, <2>3
    <2>5. \A p \in Phones \ crossed : Current(p)'
      BY <1>1, <2>2, <2>4, CurrentKept DEF CurrentInv
    <2> QED
      BY <1>1, <2>4, <2>5 DEF CurrentInv
  <1> QED
    BY <1>2, <1>3 DEF RequestOtp

(* A new code: the copies of the old one, if there are any, cross it.      *)
LEMMA CurrentSave ==
    ASSUME OtpInv, CurrentInv, NEW w \in Workers, Save(w)
    PROVE  CurrentInv'
  <1>1. pc[w] = "save" /\ JobOK(w)
    BY DEF Save, OtpInv
  <1>2. PICK p \in Phones, new \in Codes : p = job[w].phone /\ new = job[w].code /\ new <= issued
    BY <1>1, IssuedCodes DEF JobOK
  <1>3. /\ store' = [store EXCEPT ![p] = IssueOtp(new)]
        /\ latest' = [latest EXCEPT ![p] = new]
        /\ crossed' = IF \E v \in Workers : Holding(v) /\ job[v].phone = p
                      THEN crossed \cup {p} ELSE crossed
        /\ pc' = [pc EXCEPT ![w] = "queue"] /\ UNCHANGED <<job, issued, left>>
    BY <1>2 DEF Save, Saved, Goto
  <1>4. \A v \in Workers : Holding(v)' => Holding(v) /\ pc'[v] = pc[v] /\ job'[v] = job[v]
    BY <1>3 DEF Holding, OtpInv, Types
  <1>5. ASSUME NEW q \in Phones \ crossed', q # p PROVE Current(q)'
    <2>1. q \in Phones \ crossed /\ store'[q] = store[q] /\ latest'[q] = latest[q]
      BY <1>3, <1>5 DEF OtpInv, Types, CurrentInv
    <2> QED
      BY <1>3, <1>4, <2>1, CurrentKept DEF CurrentInv
  <1>6. ASSUME p \notin crossed' PROVE Current(p)'
    <2>1. \A v \in Workers : ~(Holding(v)' /\ job'[v].phone = p)
      BY <1>3, <1>4, <1>6
    <2>2. store'[p].code = new /\ store'[p].ttl = OtpTtl /\ latest'[p] = new
      BY <1>3 DEF OtpInv, Types, IssueOtp, CurrentInv
    <2>3. left'[new] <= OtpTtl
      BY <1>3, OtpAssumption, RateLimiterAssumption DEF OtpInv, Types
    <2>4. OtpTtl \in Int /\ left'[new] \in Int
      BY <1>3, OtpAssumption, RateLimiterAssumption DEF OtpInv, Types
    <2> QED
      BY <2>1, <2>2, <2>3, <2>4 DEF Current
  <1>7. /\ latest' \in [Phones -> 0 .. MaxIssues] /\ crossed' \subseteq Phones
        /\ \A q \in Phones : latest'[q] <= issued'
    BY <1>2, <1>3 DEF CurrentInv, Codes
  <1> QED
    BY <1>5, <1>6, <1>7 DEF CurrentInv

LEMMA CurrentLoad ==
    ASSUME OtpInv, CurrentInv, NEW w \in Workers, NEW guess, Load(w, guess)
    PROVE  CurrentInv'
  <1>1. pc[w] = "load" /\ JobOK(w) /\ UNCHANGED <<store, issued, left, latest, crossed>>
    BY DEF Load, OtpInv, redis
  <1>2. PICK p \in Phones : p = job[w].phone
    BY <1>1 DEF JobOK
  <1>3. CASE Answer(w)
    BY <1>1, <1>3, Answered, CurrentQuiet
  <1>4. CASE /\ store[p] # NoChallenge /\ job' = [job EXCEPT ![w].seen = store[p]]
             /\ \E step \in {"consume", "ttl"} : Goto(w, step)
    <2>1. PICK j : j = [job[w] EXCEPT !.seen = store[p]]
      OBVIOUS
    <2>2. job' = [job EXCEPT ![w] = j] /\ j.seen = store[p] /\ j.phone = p
      BY <1>1, <1>2, <1>4, <2>1 DEF JobOK, Jobs
    <2>3. OthersKept(w) /\ pc'[w] \in {"consume", "ttl"} /\ job'[w] = j
      <3>1. PICK step \in {"consume", "ttl"} : Goto(w, step)
        BY <1>4
      <3>2. step \in Steps
        BY DEF Steps
      <3> QED
        BY <2>2, <3>1, <3>2, GoneTo
    <2>4. store[p].code \in Issued /\ 0 \notin Issued
      BY <1>4 DEF OtpInv, StoreOK, Issued, Types
    <2>5. ASSUME NEW q \in Phones \ crossed PROVE Current(q)'
      <3>1. Current(q)
        BY DEF CurrentInv
      <3>2. \A v \in Workers \ {w} : Holding(v)' =>
               Holding(v) /\ pc'[v] = pc[v] /\ job'[v] = job[v]
        BY <2>3 DEF OthersKept, Holding
      <3>3. CASE q # p
        BY <1>1, <2>2, <2>3, <3>1, <3>2, <3>3, CurrentKept
      <3>4. CASE q = p
        <4>1. job'[w].seen.code = latest'[p]
          BY <1>1, <2>2, <2>3, <2>4, <3>1, <3>4 DEF Current
        <4> QED
          BY <1>1, <2>3, <3>1, <3>2, <3>4, <4>1 DEF Current
      <3> QED
        BY <3>3, <3>4
    <2> QED
      BY <1>1, <2>5 DEF CurrentInv
  <1> QED
    BY <1>2, <1>3, <1>4 DEF Load

LEMMA CurrentReadTtl ==
    ASSUME OtpInv, CurrentInv, NEW w \in Workers, ReadTtl(w)
    PROVE  CurrentInv'
  <1>1. pc[w] = "ttl" /\ JobOK(w) /\ UNCHANGED <<store, issued, left, latest, crossed>>
    BY DEF ReadTtl, OtpInv, redis, history
  <1>2. PICK p \in Phones : p = job[w].phone
    BY <1>1 DEF JobOK
  <1>3. CASE Answer(w)
    BY <1>1, <1>3, Answered, CurrentQuiet
  <1>4. CASE /\ store[p].ttl > 0 /\ Goto(w, "write")
             /\ job' = [job EXCEPT ![w].ttl = store[p].ttl]
    <2>1. PICK j : j = [job[w] EXCEPT !.ttl = store[p].ttl]
      OBVIOUS
    <2>2. /\ job' = [job EXCEPT ![w] = j] /\ j.ttl = store[p].ttl
          /\ j.phone = p /\ j.seen = job[w].seen
      BY <1>1, <1>2, <1>4, <2>1 DEF JobOK, Jobs
    <2>3. OthersKept(w) /\ pc'[w] = "write" /\ job'[w] = j
      BY <1>4, <2>2, GoneTo DEF Steps
    <2>4. store[p].code \in Issued /\ 0 \notin Issued
      BY <1>4, PlainChallenge DEF OtpInv, StoreOK, Issued, Types
    <2>5. ASSUME NEW q \in Phones \ crossed PROVE Current(q)'
      <3>1. Current(q)
        BY DEF CurrentInv
      <3>2. \A v \in Workers \ {w} : Holding(v)' =>
               Holding(v) /\ pc'[v] = pc[v] /\ job'[v] = job[v]
        BY <2>3 DEF OthersKept, Holding
      <3>3. CASE q # p
        BY <1>1, <2>2, <2>3, <3>1, <3>2, <3>3, CurrentKept
      <3>4. CASE q = p
        <4>1. job'[w].seen.code = latest'[p]
          BY <1>1, <1>2, <2>2, <2>3, <3>1, <3>4 DEF Current, Holding
        <4>2. job'[w].ttl >= left'[latest'[p]]
          BY <1>1, <2>2, <2>3, <2>4, <3>1, <3>4 DEF Current
        <4> QED
          BY <1>1, <2>3, <3>1, <3>2, <3>4, <4>1, <4>2 DEF Current
      <3> QED
        BY <3>3, <3>4
    <2> QED
      BY <1>1, <2>5 DEF CurrentInv
  <1> QED
    BY <1>2, <1>3, <1>4 DEF ReadTtl

(* What is written back is of the last code, under a TTL long enough.      *)
LEMMA CurrentWriteBack ==
    ASSUME OtpInv, CurrentInv, NEW w \in Workers, WriteBack(w)
    PROVE  CurrentInv'
  <1>1. /\ pc[w] = "write" /\ JobOK(w) /\ Answer(w)
        /\ UNCHANGED <<issued, left, latest, crossed>>
    BY DEF WriteBack, OtpInv, history
  <1>2. PICK p \in Phones : p = job[w].phone
    BY <1>1 DEF JobOK
  <1>3. PICK ch : /\ store' = [store EXCEPT ![p] = ch]
                  /\ ch.code = job[w].seen.code /\ ch.ttl = job[w].ttl
    <2> DEFINE seen == job[w].seen
               counted == [code |-> seen.code, ttl |-> job[w].ttl,
                           attempts |-> IF seen.attempts > MaxVerifyAttempts
                                        THEN seen.attempts ELSE seen.attempts + 1]
    <2>1. store' = [store EXCEPT ![p] = counted]
      BY <1>2 DEF WriteBack
    <2>2. counted.code = job[w].seen.code /\ counted.ttl = job[w].ttl
      OBVIOUS
    <2> QED
      BY <2>1, <2>2
  <1>4. OthersKept(w) /\ pc'[w] = "idle"
    BY <1>1, Answered
  <1>5. \A v \in Workers : Holding(v)' => Holding(v) /\ pc'[v] = pc[v] /\ job'[v] = job[v]
    BY <1>4 DEF OthersKept, Holding
  <1>6. ASSUME NEW q \in Phones \ crossed PROVE Current(q)'
    <2>1. Current(q)
      BY DEF CurrentInv
    <2>2. CASE q # p
      <3>1. store'[q] = store[q]
        BY <1>3, <2>2 DEF OtpInv, Types
      <3> QED
        BY <1>1, <1>5, <2>1, <3>1, CurrentKept
    <2>3. CASE q = p
      <3>1. store'[p] = ch
        BY <1>3 DEF OtpInv, Types
      <3>2. job[w].seen.code = latest[p] /\ job[w].ttl >= left[latest[p]]
        BY <1>1, <1>2, <2>1, <2>3 DEF Current, Holding
      <3> QED
        BY <1>1, <1>3, <1>5, <2>1, <2>3, <3>1, <3>2 DEF Current
    <2> QED
      BY <2>2, <2>3
  <1> QED
    BY <1>1, <1>6 DEF CurrentInv

LEMMA CurrentConsume ==
    ASSUME OtpInv, CurrentInv, NEW w \in Workers, Consume(w)
    PROVE  CurrentInv'
  <1>1. pc[w] = "consume" /\ JobOK(w) /\ UNCHANGED <<job, issued, left, latest, crossed>>
    BY DEF Consume, OtpInv, history
  <1>2. PICK p \in Phones : p = job[w].phone
    BY <1>1 DEF JobOK, Holding
  <1>3. store' = [store EXCEPT ![p] = NoChallenge] /\ pc' = [pc EXCEPT ![w] = "mint"]
    BY <1>2 DEF Consume, Goto
  <1>4. \A v \in Workers : Holding(v)' => Holding(v) /\ pc'[v] = pc[v] /\ job'[v] = job[v]
    BY <1>1, <1>3 DEF Holding, OtpInv, Types
  <1>5. ASSUME NEW q \in Phones \ crossed PROVE Current(q)'
    <2>1. Current(q)
      BY DEF CurrentInv
    <2>2. CASE q # p
      <3>1. store'[q] = store[q]
        BY <1>3, <2>2 DEF OtpInv, Types
      <3> QED
        BY <1>1, <1>4, <2>1, <3>1, CurrentKept
    <2>3. CASE q = p
      <3>1. store'[p].code = 0
        BY <1>3, PlainChallenge DEF OtpInv, Types
      <3> QED
        BY <1>1, <1>4, <2>1, <2>3, <3>1 DEF Current
    <2> QED
      BY <2>2, <2>3
  <1> QED
    BY <1>1, <1>5 DEF CurrentInv

(* A minute passes for the code and for its key.                           *)
LEMMA CurrentTick ==
    ASSUME OtpInv, CurrentInv, Tick
    PROVE  CurrentInv'
  <1>1. UNCHANGED <<pc, job, issued, latest, crossed>>
    BY DEF Tick, history
  <1>2. \A v \in Workers : Holding(v)' <=> Holding(v)
    BY <1>1 DEF Holding
  <1>3. ASSUME NEW q \in Phones \ crossed PROVE Current(q)'
    <2>1. Current(q) /\ store[q] \in Challenges
      BY DEF CurrentInv, OtpInv, Types
    <2>2. PICK c : c = latest[q]
      OBVIOUS
    <2>3. c \in Codes => left[c] \in -1 .. OtpTtl /\ left'[c] \in Int /\ left'[c] <= left[c]
                         /\ (left[c] >= 0 => left'[c] = left[c] - 1)
                         /\ (left[c] < 0 => left'[c] = -1)
      BY OtpAssumption, RateLimiterAssumption DEF Tick, OtpInv, Types
    <2>4. ASSUME NEW v \in Workers, Holding(v)', job'[v].phone = q
          PROVE  /\ job'[v].seen.code = latest'[q]
                 /\ pc'[v] = "write" => job'[v].ttl >= left'[latest'[q]]
      <3>1. job[v].seen.code = c /\ (pc[v] = "write" => job[v].ttl >= left[c])
        BY <1>1, <1>2, <2>1, <2>2, <2>4 DEF Current
      <3>2. c \in Codes /\ job[v].ttl \in Int
        <4>1. JobOK(v) /\ Holding(v) /\ Issued \subseteq Codes
          BY <1>2, <2>4, IssuedCodes DEF OtpInv
        <4> QED
          BY <3>1, <4>1, OtpAssumption, RateLimiterAssumption DEF JobOK, Jobs
      <3> QED
        BY <1>1, <2>2, <2>3, <3>1, <3>2, OtpAssumption, RateLimiterAssumption
    <2>5. store'[q] = IF store[q].ttl <= 1 THEN NoChallenge
                                           ELSE [store[q] EXCEPT !.ttl = @ - 1]
      BY DEF Tick
    <2>6. CASE store[q].ttl <= 1
      <3>1. store'[q].code = 0
        BY <2>5, <2>6, PlainChallenge
      <3> QED
        BY <2>4, <3>1 DEF Current
    <2>7. CASE ~(store[q].ttl <= 1)
      <3>1. /\ store'[q].code = store[q].code /\ store'[q].ttl = store[q].ttl - 1
            /\ store[q].ttl \in Int /\ store[q].ttl > 1
        BY <2>1, <2>5, <2>7, OtpAssumption, RateLimiterAssumption DEF Challenges
      <3>2. store[q].code \in Issued /\ store[q].code = c /\ c \in Codes
            /\ store[q].ttl >= left[c]
        BY <2>1, <2>2, <2>7, <3>1, PlainChallenge, OtpAssumption
        DEF Current, OtpInv, StoreOK, Issued, Codes, Types
      <3>3. store'[q].ttl >= left'[c]
        BY <2>3, <3>1, <3>2, OtpAssumption, RateLimiterAssumption
      <3> QED
        BY <1>1, <2>2, <2>4, <3>1, <3>2, <3>3 DEF Current
    <2> QED
      BY <2>6, <2>7
  <1> QED
    BY <1>1, <1>3 DEF CurrentInv

LEMMA CurrentNext ==
    ASSUME OtpInv, CurrentInv, [Next]_vars
    PROVE  CurrentInv'
  <1>1. CASE UNCHANGED vars
    <2>1. \A p \in Phones \ crossed : Current(p)'
      BY <1>1 DEF vars, CurrentInv, Current, Holding
    <2> QED
      BY <1>1, <2>1 DEF vars, CurrentInv
  <1>2. ASSUME NEW w \in Workers, NEW typed \in TypedPhones, VerifyOtp(w, typed)
        PROVE  CurrentInv'
    <2>1. pc[w] = "idle" /\ UNCHANGED <<store, issued, left, latest, crossed>>
      BY <1>2 DEF VerifyOtp, history
    <2>2. \/ UNCHANGED <<pc, job>>
          \/ Goto(w, "load") /\ \E j : job' = [job EXCEPT ![w] = j]
      BY <1>2 DEF VerifyOtp
    <2>3. OthersKept(w) /\ pc'[w] \in {"idle", "load"}
      BY <2>1, <2>2, GoneTo DEF Steps, OthersKept
    <2> QED
      BY <2>1, <2>3, CurrentQuiet
  <1>3. ASSUME NEW w \in Workers, QueueSms(w) \/ Mint(w) \/ Fault(w)
        PROVE  CurrentInv'
    <2>1. Answer(w) /\ UNCHANGED <<store, issued, left, latest, crossed>>
      BY <1>3 DEF QueueSms, Mint, Fault, redis, history
    <2> QED
      BY <2>1, Answered, CurrentQuiet
  <1>4. CASE Next
    BY <1>2, <1>3, <1>4, CurrentTick, CurrentRequest, CurrentSave, CurrentLoad,
       CurrentReadTtl, CurrentWriteBack, CurrentConsume
    DEF Next
  <1> QED
    BY <1>1, <1>4

THEOREM CurrentCodes == Spec => []CurrentInv
  <1>1. Init => CurrentInv
    <2> SUFFICES ASSUME Init PROVE CurrentInv
      OBVIOUS
    <2>1. \A p \in Phones : Current(p)
      BY PlainChallenge DEF Init, Current, Holding
    <2> QED
      BY <2>1, OtpAssumption DEF Init, CurrentInv, Wrong
  <1>2. OtpInv /\ CurrentInv /\ [Next]_vars => CurrentInv'
    BY CurrentNext
  <1> QED
    BY <1>1, <1>2, OtpSafety, PTL DEF Spec

(* Every variable has its type, for every limit and lifetime.              *)
THEOREM TypeCorrect == Spec => []TypeOK
  <1>1. OtpInv /\ CurrentInv => TypeOK
    BY DEF OtpInv, CurrentInv, Types, LimiterOK, JobOK, Jobs, TypeOK, Steps
  <1> QED
    BY <1>1, OtpSafety, CurrentCodes, PTL

(* "Requesting a new code must invalidate the old one": it does, for every *)
(* number of requests in flight, unless a code was saved while a           *)
(* verification held the challenge of the one before.                      *)
THEOREM OldCodesStayDead == Spec => []OldCodeDeadUnlessCrossed
  <1>1. CurrentInv => OldCodeDeadUnlessCrossed
    BY DEF CurrentInv, Current, OldCodeDeadUnlessCrossed, Wrong
  <1> QED
    BY <1>1, CurrentCodes, PTL

(* A challenge is removed by its own acceptance, by the save of another    *)
(* code or by the end of its time, and by nothing else.                    *)
THEOREM CodesStand == Spec => CodeStandsUnlessCrossed
  <1> DEFINE Stands(p) ==
         LET c == store[p].code IN
         c # Wrong /\ store'[p].code # c =>
            \/ latest'[p] # c
            \/ left'[c] <= 0
            \/ \E w \in Workers :
                  /\ pc[w] = "consume" /\ pc'[w] = "mint"
                  /\ job[w].phone = p /\ job[w].seen.code = c
  <1>1. ASSUME OtpInv, CurrentInv, [Next]_vars, NEW p \in Phones \ crossed
        PROVE  Stands(p)
    <2>1. Current(p) /\ store[p] \in Challenges
      BY <1>1 DEF CurrentInv, OtpInv, Types
    <2>2. CASE store' = store
      BY <2>2
    <2>3. ASSUME NEW w \in Workers, Save(w) PROVE Stands(p)
      <3>1. /\ store' = [store EXCEPT ![job[w].phone] = IssueOtp(job[w].code)]
            /\ latest' = [latest EXCEPT ![job[w].phone] = job[w].code]
        BY <2>3 DEF Save, Saved
      <3>2. CASE job[w].phone = p
        BY <1>1, <3>1, <3>2 DEF IssueOtp, CurrentInv, OtpInv, Types
      <3>3. CASE job[w].phone # p
        BY <1>1, <3>1, <3>3 DEF OtpInv, Types
      <3> QED
        BY <3>2, <3>3
    <2>4. ASSUME NEW w \in Workers, WriteBack(w) PROVE Stands(p)
      <3>1. PICK ch : /\ store' = [store EXCEPT ![job[w].phone] = ch]
                      /\ ch.code = job[w].seen.code /\ pc[w] = "write"
        BY <2>4 DEF WriteBack
      <3>2. CASE job[w].phone = p
        <4>1. store'[p].code = latest[p]
          BY <1>1, <2>1, <3>1, <3>2 DEF Current, Holding, OtpInv, Types
        <4> QED
          BY <2>1, <4>1 DEF Current, Wrong
      <3>3. CASE job[w].phone # p
        BY <1>1, <3>1, <3>3 DEF OtpInv, Types
      <3> QED
        BY <3>2, <3>3
    <2>5. ASSUME NEW w \in Workers, Consume(w) PROVE Stands(p)
      <3>1. /\ store' = [store EXCEPT ![job[w].phone] = NoChallenge]
            /\ pc[w] = "consume" /\ pc'[w] = "mint"
        BY <1>1, <2>5 DEF Consume, Goto, OtpInv, Types
      <3>2. CASE job[w].phone = p
        <4>1. job[w].seen.code = latest[p]
          BY <2>1, <3>1, <3>2 DEF Current, Holding
        <4> QED
          BY <2>1, <3>1, <3>2, <4>1 DEF Current, Wrong
      <3>3. CASE job[w].phone # p
        BY <1>1, <3>1, <3>3 DEF OtpInv, Types
      <3> QED
        BY <3>2, <3>3
    <2>6. ASSUME Tick PROVE Stands(p)
      <3>1. SUFFICES ASSUME store[p].code # 0, store'[p].code # store[p].code
                     PROVE  left'[store[p].code] <= 0
        BY DEF Wrong
      <3>2. store'[p] = IF store[p].ttl <= 1 THEN NoChallenge
                                             ELSE [store[p] EXCEPT !.ttl = @ - 1]
        BY <2>6 DEF Tick
      <3>3. store[p].ttl <= 1
        BY <2>1, <3>1, <3>2 DEF Challenges
      <3>4. PICK c \in Codes : c = store[p].code /\ c = latest[p] /\ store[p].ttl >= left[c]
        BY <2>1, <3>1, OtpAssumption DEF Current, Challenges, Codes
      <3>5. left[c] \in -1 .. OtpTtl /\ left'[c] = IF left[c] >= 0 THEN left[c] - 1 ELSE -1
        BY <1>1, <2>6 DEF Tick, OtpInv, Types
      <3>6. store[p].ttl \in Int /\ left[c] \in Int
        BY <2>1, <3>5, OtpAssumption, RateLimiterAssumption DEF Challenges
      <3> QED
        BY <3>3, <3>4, <3>5, <3>6
    <2>7. \/ store' = store
          \/ Tick
          \/ \E w \in Workers : Save(w) \/ WriteBack(w) \/ Consume(w)
      BY <1>1 DEF Next, vars, RequestOtp, VerifyOtp, QueueSms, Load, ReadTtl, Mint, Fault, redis
    <2> HIDE DEF Stands
    <2> QED
      BY <2>2, <2>3, <2>4, <2>5, <2>6, <2>7
  <1>2. OtpInv /\ CurrentInv /\ [Next]_vars =>
           [\A p \in Phones \ crossed : Stands(p)]_vars
    BY <1>1
  <1> QED
    BY <1>2, OtpSafety, CurrentCodes, PTL DEF Spec, CodeStandsUnlessCrossed

------------------------------------------------------------------------------
(* How many guesses the limiter lets at a code.  The argument is a budget: *)
(* a code meets at most two windows of its phone's limiter, because its    *)
(* lifetime is not longer than a window.                                   *)

(* A code that can still be compared, at the phone it is for.              *)
Known(p, c) ==
    \/ Stored(p, c)
    \/ \E w \in Workers : job[w].phone = p /\ (Holds(w, c) \/ Saves(w, c))

(* Verifications past the limiter that have not loaded the challenge.      *)
Loading(p) == {w \in Workers : pc[w] = "load" /\ job[w].phone = p}

(* The hits of the current window that were let through.                   *)
LetThrough(key) == IF key.count > VerifyLimit THEN VerifyLimit ELSE key.count

(* What the limiter can have let through since a code was issued that has  *)
(* l ticks left.  A window that ends within the code's lifetime is the     *)
(* first one it meets; any other may be the second.                        *)
SpentOf(key, l) ==
    IF key.ttl = 0 THEN (IF l = Window THEN 0 ELSE VerifyLimit)
    ELSE IF key.ttl <= l THEN LetThrough(key)
    ELSE VerifyLimit + LetThrough(key)

Spent(p, c) == SpentOf(hits["verify"][p], left[c])

GuessOK(c) ==
    /\ compared[c] <= 2 * VerifyLimit + Cardinality(Workers) + faults
    /\ \A p \in Phones :
          Known(p, c) /\ left[c] >= 0 =>
             compared[c] + Cardinality(Loading(p)) <=
                Spent(p, c) + Cardinality(Workers) + faults

GuessInv == faults \in Nat /\ \A c \in Codes : GuessOK(c)

(* A counter of the limiter, as numbers.                                   *)
LEMMA KeyNumbers ==
    ASSUME NEW key \in Keys("verify")
    PROVE  /\ key.count \in Nat /\ key.ttl \in Nat /\ key.ttl <= Window
           /\ key.count <= VerifyLimit + 1
           /\ VerifyLimit \in Nat /\ Window \in Nat /\ Window > 0
           /\ LetThrough(key) \in Nat /\ LetThrough(key) <= VerifyLimit
  BY RateLimiterAssumption DEF Keys, Limit, LetThrough

LEMMA SpentRange ==
    ASSUME NEW key \in Keys("verify"), NEW l \in Int
    PROVE  SpentOf(key, l) \in Nat /\ SpentOf(key, l) <= 2 * VerifyLimit
  BY KeyNumbers DEF SpentOf

(* A hit is paid for, and one that is let through pays for its guess.      *)
LEMMA HitPays ==
    ASSUME NEW key \in Keys("verify"), NEW l \in 0 .. OtpTtl,
           key.count > 0 => key.ttl > 0
    PROVE  LET new == Hit(key, "verify") IN
           /\ SpentOf(new, l) >= SpentOf(key, l)
           /\ Allowed(new, "verify") => SpentOf(new, l) >= SpentOf(key, l) + 1
  <1>1. PICK n \in Nat, t \in Nat, L \in Nat, W \in Nat :
           /\ n = key.count /\ t = key.ttl /\ L = VerifyLimit /\ W = Window
           /\ n <= L + 1 /\ t <= W /\ W > 0 /\ l \in Nat /\ l <= W /\ (n > 0 => t > 0)
    BY KeyNumbers, OtpAssumption
  <1> DEFINE new == Hit(key, "verify")
             n2 == IF n > L THEN n ELSE n + 1
             t2 == IF t = 0 THEN W ELSE t
  <1>2. new.count = n2 /\ new.ttl = t2
    BY <1>1 DEF Hit, Limit
  <1>3. Allowed(new, "verify") <=> n2 <= L
    BY <1>1, <1>2 DEF Allowed, Limit
  <1>4. SpentOf(key, l) = IF t = 0 THEN (IF l = W THEN 0 ELSE L)
                          ELSE IF t <= l THEN (IF n > L THEN L ELSE n)
                          ELSE L + (IF n > L THEN L ELSE n)
    BY <1>1 DEF SpentOf, LetThrough
  <1>5. SpentOf(new, l) = IF t2 = 0 THEN (IF l = W THEN 0 ELSE L)
                          ELSE IF t2 <= l THEN (IF n2 > L THEN L ELSE n2)
                          ELSE L + (IF n2 > L THEN L ELSE n2)
    BY <1>1, <1>2 DEF SpentOf, LetThrough
  <1> HIDE DEF new
  <1>6. /\ SpentOf(new, l) >= SpentOf(key, l)
        /\ n2 <= L => SpentOf(new, l) >= SpentOf(key, l) + 1
    BY <1>1, <1>4, <1>5
  <1> QED
    BY <1>3, <1>6 DEF new

(* A minute that passes costs a living code nothing.                       *)
LEMMA AgeingPays ==
    ASSUME NEW key \in Keys("verify"), NEW l \in 1 .. OtpTtl
    PROVE  SpentOf(Aged(key), l - 1) >= SpentOf(key, l)
  <1>1. PICK n \in Nat, t \in Nat, L \in Nat, W \in Nat :
           /\ n = key.count /\ t = key.ttl /\ L = VerifyLimit /\ W = Window
           /\ n <= L + 1 /\ t <= W /\ W > 0 /\ l \in Nat /\ l <= W /\ l >= 1
    BY KeyNumbers, OtpAssumption
  <1>2. SpentOf(key, l) = IF t = 0 THEN (IF l = W THEN 0 ELSE L)
                          ELSE IF t <= l THEN (IF n > L THEN L ELSE n)
                          ELSE L + (IF n > L THEN L ELSE n)
    BY <1>1 DEF SpentOf, LetThrough
  <1>3. CASE t <= 1
    <2>1. Aged(key).ttl = 0
      BY <1>1, <1>3 DEF Aged, NoKey
    <2>2. SpentOf(Aged(key), l - 1) = L
      BY <1>1, <2>1 DEF SpentOf
    <2> QED
      BY <1>1, <1>2, <1>3, <2>2
  <1>4. CASE ~(t <= 1)
    <2>1. Aged(key).ttl = t - 1 /\ Aged(key).count = n
      BY <1>1, <1>4 DEF Aged, Keys
    <2>2. SpentOf(Aged(key), l - 1) = IF t - 1 = 0 THEN (IF l - 1 = W THEN 0 ELSE L)
                          ELSE IF t - 1 <= l - 1 THEN (IF n > L THEN L ELSE n)
                          ELSE L + (IF n > L THEN L ELSE n)
      BY <1>1, <2>1 DEF SpentOf, LetThrough
    <2> QED
      BY <1>1, <1>2, <1>4, <2>2
  <1> QED
    BY <1>3, <1>4

(* Sets of requests.                                                       *)
LEMMA WorkerSets ==
    ASSUME NEW S \in SUBSET Workers
    PROVE  /\ Cardinality(S) \in Nat /\ Cardinality(Workers) \in Nat
           /\ Cardinality(S) <= Cardinality(Workers)
           /\ \A w : Cardinality(S \cup {w}) <= Cardinality(S) + 1
           /\ \A T \in SUBSET S : Cardinality(T) \in Nat /\ Cardinality(T) <= Cardinality(S)
           /\ \A w \in S : Cardinality(S) >= 1 /\ Cardinality(S \ {w}) = Cardinality(S) - 1
  <1>1. IsFiniteSet(Workers)
    BY OtpAssumption
  <1>2. IsFiniteSet(S) /\ Cardinality(S) <= Cardinality(Workers)
    BY <1>1, FS_Subset
  <1>3. Cardinality(S) \in Nat /\ Cardinality(Workers) \in Nat
    BY <1>1, <1>2, FS_CardinalityType
  <1>4. ASSUME NEW w PROVE Cardinality(S \cup {w}) <= Cardinality(S) + 1
    <2>1. Cardinality(S \cup {w}) =
             IF w \in S THEN Cardinality(S) ELSE Cardinality(S) + 1
      BY <1>2, FS_AddElement
    <2>2. CASE w \in S
      BY <1>3, <2>1, <2>2
    <2>3. CASE w \notin S
      BY <1>3, <2>1, <2>3
    <2> QED
      BY <2>2, <2>3
  <1>5. ASSUME NEW T \in SUBSET S PROVE Cardinality(T) \in Nat /\ Cardinality(T) <= Cardinality(S)
    BY <1>2, FS_Subset, FS_CardinalityType
  <1>6. ASSUME NEW w \in S
        PROVE  Cardinality(S) >= 1 /\ Cardinality(S \ {w}) = Cardinality(S) - 1
    <2>1. IsFiniteSet(S \ {w}) /\ Cardinality(S \ {w}) = Cardinality(S) - 1
      BY <1>2, FS_RemoveElement
    <2>2. Cardinality(S \ {w}) \in Nat
      BY <2>1, FS_CardinalityType
    <2> QED
      BY <1>3, <2>1, <2>2
  <1> QED
    BY <1>2, <1>3, <1>4, <1>5, <1>6

(* The numbers of the budget.                                              *)
LEMMA BudgetNumbers ==
    ASSUME OtpInv, GuessInv, NEW c \in Codes
    PROVE  /\ compared[c] \in Nat /\ left[c] \in -1 .. OtpTtl /\ faults \in Nat
           /\ VerifyLimit \in Nat /\ OtpTtl \in Nat
           /\ \A p \in Phones :
                 /\ hits["verify"][p] \in Keys("verify")
                 /\ hits["verify"][p].count > 0 => hits["verify"][p].ttl > 0
                 /\ Spent(p, c) \in Nat /\ Spent(p, c) <= 2 * VerifyLimit
  <1>1. /\ compared[c] \in Nat /\ left[c] \in -1 .. OtpTtl /\ faults \in Nat
        /\ VerifyLimit \in Nat /\ OtpTtl \in Nat
    BY OtpAssumption, RateLimiterAssumption DEF OtpInv, Types, GuessInv
  <1>2. ASSUME NEW p \in Phones
        PROVE  /\ hits["verify"][p] \in Keys("verify")
               /\ hits["verify"][p].count > 0 => hits["verify"][p].ttl > 0
    BY DEF OtpInv, LimiterOK, Policies
  <1>3. left[c] \in Int
    BY <1>1
  <1>4. \A p \in Phones : Spent(p, c) \in Nat /\ Spent(p, c) <= 2 * VerifyLimit
    BY <1>2, <1>3, SpentRange DEF Spent
  <1> QED
    BY <1>1, <1>2, <1>4

(* A code is known at a phone only if it was.                              *)
LEMMA KnownKept ==
    ASSUME NEW w \in Workers, NEW c \in Codes, OthersKept(w),
           \A p \in Phones : Stored(p, c)' => Known(p, c),
           Holds(w, c)' \/ Saves(w, c)' => Known(job'[w].phone, c)
    PROVE  \A p \in Phones : Known(p, c)' => Known(p, c)
  BY DEF Known, Holds, Holding, Saves, OthersKept

(* No guess is compared with c and no window changes: the budget holds as  *)
(* long as only an outage adds to the verifications under way.             *)
LEMMA BudgetKept ==
    ASSUME OtpInv, GuessInv, NEW c \in Codes, NEW w \in Workers,
           compared'[c] = compared[c], left'[c] = left[c],
           hits'["verify"] = hits["verify"],
           \A p \in Phones : Known(p, c)' => Known(p, c),
           \/ /\ faults' = faults \/ faults' = faults + 1
              /\ \A p \in Phones : Loading(p)' \subseteq Loading(p)
           \/ /\ faults' = faults + 1
              /\ \A p \in Phones : Loading(p)' \subseteq Loading(p) \cup {w}
    PROVE  GuessOK(c)'
  <1>1. GuessOK(c) /\ faults \in Nat /\ compared[c] \in Nat /\ VerifyLimit \in Nat
    BY BudgetNumbers DEF GuessInv
  <1>2. faults' \in Nat /\ faults <= faults'
    BY <1>1
  <1>3. Cardinality(Workers) \in Nat
    BY WorkerSets
  <1>4. compared'[c] <= 2 * VerifyLimit + Cardinality(Workers) + faults'
    BY <1>1, <1>2, <1>3 DEF GuessOK
  <1>5. ASSUME NEW p \in Phones, Known(p, c)', left'[c] >= 0
        PROVE  compared'[c] + Cardinality(Loading(p))' <=
                  Spent(p, c)' + Cardinality(Workers) + faults'
    <2>1. Known(p, c) /\ left[c] >= 0 /\ Spent(p, c)' = Spent(p, c)
      BY <1>5 DEF Spent
    <2>2. Loading(p) \in SUBSET Workers /\ Loading(p)' \in SUBSET Workers
      BY DEF Loading
    <2>3. /\ Cardinality(Loading(p)) \in Nat /\ Cardinality(Loading(p))' \in Nat
          /\ Cardinality(Loading(p))' <= Cardinality(Loading(p)) + (faults' - faults)
      <3>1. Cardinality(Loading(p)) \in Nat /\ Cardinality(Loading(p)') \in Nat
        BY <2>2, WorkerSets
      <3>2. CASE Loading(p)' \subseteq Loading(p)
        <4>1. Cardinality(Loading(p)') <= Cardinality(Loading(p))
          BY <2>2, <3>2, WorkerSets
        <4> QED
          BY <1>1, <1>2, <3>1, <4>1
      <3>3. CASE faults' = faults + 1 /\ Loading(p)' \subseteq Loading(p) \cup {w}
        <4>1. Cardinality(Loading(p) \cup {w}) <= Cardinality(Loading(p)) + 1
          BY <2>2, WorkerSets
        <4>2. Loading(p) \cup {w} \in SUBSET Workers
          BY <2>2
        <4>3. Cardinality(Loading(p)') <= Cardinality(Loading(p) \cup {w})
              /\ Cardinality(Loading(p) \cup {w}) \in Nat
          BY <3>3, <4>2, WorkerSets
        <4> QED
          BY <1>1, <3>1, <3>3, <4>1, <4>3
      <3> QED
        BY <3>2, <3>3
    <2>4. compared[c] + Cardinality(Loading(p)) <= Spent(p, c) + Cardinality(Workers) + faults
      BY <1>1, <2>1 DEF GuessOK
    <2>5. Spent(p, c) \in Nat
      BY BudgetNumbers
    <2>6. PICK a \in Nat, b \in Nat, x \in Nat, n \in Nat :
             /\ a = Cardinality(Loading(p)) /\ b = Cardinality(Loading(p))'
             /\ x = Spent(p, c) /\ n = Cardinality(Workers)
      BY <1>3, <2>3, <2>5
    <2>7. compared[c] + b <= x + n + faults'
      BY <1>1, <1>2, <2>3, <2>4, <2>6
    <2> QED
      BY <2>1, <2>6, <2>7
  <1> QED
    BY <1>4, <1>5 DEF GuessOK

(* A step of request w that compares nothing with c and counts no hit.     *)
LEMMA QuietBudget ==
    ASSUME OtpInv, GuessInv, NEW c \in Codes, NEW w \in Workers, OthersKept(w),
           compared'[c] = compared[c], left'[c] = left[c],
           hits'["verify"] = hits["verify"],
           \A p \in Phones : Stored(p, c)' => Known(p, c),
           Holds(w, c)' \/ Saves(w, c)' => Known(job'[w].phone, c),
           \/ (faults' = faults \/ faults' = faults + 1) /\ pc'[w] # "load"
           \/ faults' = faults + 1
    PROVE  GuessOK(c)'
  <1>1. \A p \in Phones : Known(p, c)' => Known(p, c)
    BY KnownKept
  <1>2. CASE (faults' = faults \/ faults' = faults + 1) /\ pc'[w] # "load"
    <2>1. \A p \in Phones : Loading(p)' \subseteq Loading(p)
      BY <1>2 DEF Loading, OthersKept
    <2> QED
      BY <1>1, <1>2, <2>1, BudgetKept
  <1>3. CASE faults' = faults + 1
    <2>1. \A p \in Phones : Loading(p)' \subseteq Loading(p) \cup {w}
      BY DEF Loading, OthersKept
    <2> QED
      BY <1>1, <1>3, <2>1, BudgetKept
  <1> QED
    BY <1>2, <1>3

(* What the limiter of a request leaves alone.                             *)
LEMMA RequestBudget ==
    ASSUME OtpInv, GuessInv, NEW w \in Workers, NEW typed \in TypedPhones,
           RequestOtp(w, typed), OtpInv'
    PROVE  \A c \in Codes : GuessOK(c)'
  <1> SUFFICES ASSUME NEW c \in Codes PROVE GuessOK(c)'
    OBVIOUS
  <1>1. PICK p \in Phones : p = NormaliseBdPhone(typed)
    BY DEF RequestOtp, Phones
  <1>2. /\ pc[w] = "idle" /\ UNCHANGED <<store, compared>>
        /\ faults' = faults \/ faults' = faults + 1
    BY DEF RequestOtp, HitLimiter, history
  <1>3. hits'["verify"] = hits["verify"]
    BY DEF RequestOtp, HitLimiter, OtpInv, LimiterOK, Policies
  <1>4. \A q \in Phones : Stored(q, c)' => Known(q, c)
    BY <1>2 DEF Stored, Known
  <1>5. CASE UNCHANGED <<pc, job, issued, left>>
    <2>1. OthersKept(w) /\ pc'[w] # "load" /\ ~Holds(w, c)' /\ ~Saves(w, c)'
      BY <1>2, <1>5 DEF OthersKept, Holds, Holding, Saves
    <2> QED
      BY <1>2, <1>3, <1>4, <1>5, <2>1, QuietBudget
  <1>6. CASE /\ issued < MaxIssues /\ issued' = issued + 1
             /\ left' = [left EXCEPT ![issued'] = OtpTtl]
             /\ job' = [job EXCEPT ![w] = [NoJob EXCEPT !.phone = p, !.code = issued']]
             /\ Goto(w, "save")
    <2>1. PICK j : j = [NoJob EXCEPT !.phone = p, !.code = issued']
      OBVIOUS
    <2>2. OthersKept(w) /\ pc'[w] = "save" /\ job'[w] = j
      BY <1>6, <2>1, GoneTo DEF Steps
    <2>3. j.code = issued'
      BY <2>1 DEF NoJob
    <2>4. CASE c # issued'
      <3>1. left'[c] = left[c]
        BY <1>6, <2>4 DEF OtpInv, Types
      <3>2. ~Holds(w, c)' /\ ~Saves(w, c)'
        BY <2>2, <2>3, <2>4 DEF Holds, Holding, Saves
      <3> QED
        BY <1>2, <1>3, <1>4, <2>2, <3>1, <3>2, QuietBudget
    <2>5. CASE c = issued'
      <3>1. compared'[c] = 0
        <4>1. issued \in Nat /\ c > issued
          BY <1>6, <2>5 DEF OtpInv, Types
        <4> QED
          BY <1>2, <4>1 DEF OtpInv, CodeOK, FreshOK, Fresh
      <3>2. faults' \in Nat /\ VerifyLimit \in Nat
        BY <1>2, RateLimiterAssumption DEF GuessInv
      <3>3. ASSUME NEW q \in Phones
            PROVE  /\ Spent(q, c)' \in Nat /\ Cardinality(Loading(q)') \in Nat
                   /\ Cardinality(Loading(q)') <= Cardinality(Workers)
        <4>1. hits'["verify"][q] \in Keys("verify") /\ left'[c] \in Int
          BY DEF OtpInv, Types, LimiterOK, Policies
        <4>2. SpentOf(hits'["verify"][q], left'[c]) \in Nat
          BY <4>1, SpentRange
        <4>3. Loading(q)' \in SUBSET Workers
          BY DEF Loading
        <4> QED
          BY <4>2, <4>3, WorkerSets DEF Spent
      <3>4. Cardinality(Workers) \in Nat
        BY WorkerSets
      <3> QED
        BY <3>1, <3>2, <3>3, <3>4 DEF GuessOK
    <2> QED
      BY <2>4, <2>5
  <1> QED
    BY <1>1, <1>5, <1>6 DEF RequestOtp

(* A verification meets the limiter: a counted hit that is let through has *)
(* paid for its guess, and one that an outage lets through is a fault.     *)
LEMMA VerifyBudget ==
    ASSUME OtpInv, GuessInv, NEW w \in Workers, NEW typed \in TypedPhones,
           VerifyOtp(w, typed)
    PROVE  \A c \in Codes : GuessOK(c)'
  <1> SUFFICES ASSUME NEW c \in Codes PROVE GuessOK(c)'
    OBVIOUS
  <1>1. PICK p \in Phones : p = NormaliseBdPhone(typed)
    BY DEF VerifyOtp, Phones
  <1>2. pc[w] = "idle" /\ UNCHANGED <<store, compared, left>>
    BY DEF VerifyOtp, history
  <1>3. /\ OthersKept(w) /\ pc'[w] \in {"idle", "load"}
        /\ pc'[w] = "load" => job'[w].phone = p
    <2>1. CASE UNCHANGED <<pc, job>>
      BY <1>2, <2>1 DEF OthersKept
    <2>2. CASE job' = [job EXCEPT ![w] = [NoJob EXCEPT !.phone = p]] /\ Goto(w, "load")
      <3>1. PICK j : j = [NoJob EXCEPT !.phone = p]
        OBVIOUS
      <3>2. OthersKept(w) /\ pc'[w] = "load" /\ job'[w] = j
        BY <2>2, <3>1, GoneTo DEF Steps
      <3> QED
        BY <3>1, <3>2 DEF NoJob
    <2> QED
      BY <1>1, <2>1, <2>2 DEF VerifyOtp
  <1>4. /\ \A q \in Phones : Stored(q, c)' => Known(q, c)
        /\ ~Holds(w, c)' /\ ~Saves(w, c)'
    BY <1>2, <1>3 DEF Stored, Known, Holds, Holding, Saves
  <1>5. CASE hits' = hits /\ faults' = faults + 1
    BY <1>2, <1>3, <1>4, <1>5, QuietBudget
  <1>6. CASE /\ hits' = [hits EXCEPT !["verify"][p] = Hit(@, "verify")]
             /\ faults' = faults
             /\ pc'[w] = "load" => Allowed(hits'["verify"][p], "verify")
    <2>1. GuessOK(c) /\ compared[c] \in Nat /\ faults \in Nat /\ left[c] \in Int
      BY BudgetNumbers DEF GuessInv
    <2>2. \A q \in Phones : Known(q, c)' => Known(q, c)
      BY <1>3, <1>4, KnownKept
    <2>3. compared'[c] <= 2 * VerifyLimit + Cardinality(Workers) + faults'
      BY <1>2, <1>6, <2>1 DEF GuessOK
    <2>4. Cardinality(Workers) \in Nat
      BY WorkerSets
    <2>5. PICK key \in Keys("verify") : key = hits["verify"][p] /\ (key.count > 0 => key.ttl > 0)
      BY BudgetNumbers
    <2>6. /\ hits'["verify"][p] = Hit(key, "verify")
          /\ \A q \in Phones \ {p} : hits'["verify"][q] = hits["verify"][q]
      BY <1>6, <2>5 DEF OtpInv, LimiterOK, Policies
    <2>7. ASSUME NEW q \in Phones, Known(q, c)', left'[c] >= 0
          PROVE  compared'[c] + Cardinality(Loading(q)') <=
                    Spent(q, c)' + Cardinality(Workers) + faults'
      <3>1. left'[c] = left[c] /\ left[c] \in 0 .. OtpTtl
        BY <1>2, <2>7, BudgetNumbers
      <3>2. compared[c] + Cardinality(Loading(q)) <=
               Spent(q, c) + Cardinality(Workers) + faults
        BY <2>1, <2>2, <2>7, <3>1 DEF GuessOK
      <3>3. Loading(q) \in SUBSET Workers /\ Loading(q)' \in SUBSET Workers
        BY DEF Loading
      <3>4. Cardinality(Loading(q)) \in Nat /\ Cardinality(Loading(q)') \in Nat
        BY <3>3, WorkerSets
      <3>5. Spent(q, c) \in Nat
        BY BudgetNumbers
      <3>6. CASE q # p \/ pc'[w] # "load"
        <4>1. Loading(q)' \subseteq Loading(q)
          BY <1>3, <3>6 DEF Loading, OthersKept
        <4>2. Cardinality(Loading(q)') <= Cardinality(Loading(q))
          BY <3>3, <4>1, WorkerSets
        <4>3. Spent(q, c)' \in Int /\ Spent(q, c)' >= Spent(q, c)
          <5>1. CASE q = p
            <6>1. SpentOf(Hit(key, "verify"), left[c]) >= SpentOf(key, left[c])
              BY <2>5, <3>1, HitPays
            <6>2. Hit(key, "verify") \in Keys("verify")
              BY KeyNumbers DEF Hit, Keys, Limit
            <6>3. SpentOf(Hit(key, "verify"), left[c]) \in Nat
              BY <2>1, <6>2, SpentRange
            <6> QED
              BY <2>5, <2>6, <3>1, <5>1, <6>1, <6>3 DEF Spent
          <5>2. CASE q # p
            BY <2>6, <3>1, <3>5, <5>2 DEF Spent
          <5> QED
            BY <5>1, <5>2
        <4> QED
          BY <1>2, <1>6, <2>1, <2>4, <3>2, <3>4, <3>5, <4>2, <4>3
      <3>7. CASE q = p /\ pc'[w] = "load"
        <4>1. Loading(q)' \subseteq Loading(q) \cup {w}
          BY <1>3 DEF Loading, OthersKept
        <4>2. Cardinality(Loading(q)') <= Cardinality(Loading(q)) + 1
          <5>1. Cardinality(Loading(q) \cup {w}) <= Cardinality(Loading(q)) + 1
            BY <3>3, WorkerSets
          <5>2. Loading(q) \cup {w} \in SUBSET Workers
            BY <3>3
          <5>3. /\ Cardinality(Loading(q)') <= Cardinality(Loading(q) \cup {w})
                /\ Cardinality(Loading(q) \cup {w}) \in Nat
            BY <4>1, <5>2, WorkerSets
          <5> QED
            BY <3>4, <5>1, <5>3
        <4>3. Spent(q, c)' \in Int /\ Spent(q, c)' >= Spent(q, c) + 1
          <5>1. SpentOf(Hit(key, "verify"), left[c]) >= SpentOf(key, left[c]) + 1
            BY <1>6, <2>5, <2>6, <3>1, <3>7, HitPays
          <5>2. Hit(key, "verify") \in Keys("verify")
            BY KeyNumbers DEF Hit, Keys, Limit
          <5>3. SpentOf(Hit(key, "verify"), left[c]) \in Nat
            BY <2>1, <5>2, SpentRange
          <5> QED
            BY <2>5, <2>6, <3>1, <3>7, <5>1, <5>3 DEF Spent
        <4> QED
          BY <1>2, <1>6, <2>1, <2>4, <3>2, <3>4, <3>5, <4>2, <4>3
      <3> QED
        BY <3>6, <3>7
    <2> QED
      BY <2>3, <2>7 DEF GuessOK
  <1> QED
    <2>1. \/ hits' = hits /\ faults' = faults + 1
          \/ /\ hits' = [hits EXCEPT !["verify"][p] = Hit(@, "verify")]
             /\ faults' = faults
             /\ pc'[w] = "load" => Allowed(hits'["verify"][p], "verify")
      BY <1>1, <1>2 DEF VerifyOtp, HitLimiter
    <2> QED
      BY <1>5, <1>6, <2>1

(* A challenge is loaded: a guess that is compared with its code is one    *)
(* verification fewer under way.                                           *)
LEMMA LoadBudget ==
    ASSUME OtpInv, GuessInv, NEW w \in Workers, NEW guess, Load(w, guess)
    PROVE  \A c \in Codes : GuessOK(c)'
  <1> SUFFICES ASSUME NEW c \in Codes PROVE GuessOK(c)'
    OBVIOUS
  <1>1. pc[w] = "load" /\ JobOK(w)
    BY DEF Load, OtpInv
  <1>2. PICK p \in Phones : p = job[w].phone
    BY <1>1 DEF JobOK
  <1>3. PICK ch \in Challenges : ch = store[p]
    BY DEF OtpInv, Types
  <1>4. UNCHANGED <<store, hits, left, faults>>
    BY DEF Load, redis
  <1>5. /\ OthersKept(w) /\ pc'[w] \in {"idle", "ttl", "consume"}
        /\ pc'[w] # "idle" => job'[w].phone = p /\ job'[w].seen = ch
    <2>1. CASE Answer(w)
      BY <2>1, Answered
    <2>2. CASE /\ job' = [job EXCEPT ![w].seen = ch]
               /\ Goto(w, "ttl") \/ Goto(w, "consume")
      <3>1. PICK j : j = [job[w] EXCEPT !.seen = ch]
        OBVIOUS
      <3>2. OthersKept(w) /\ pc'[w] \in {"ttl", "consume"} /\ job'[w] = j
        BY <2>2, <3>1, GoneTo DEF Steps
      <3> QED
        BY <1>1, <1>2, <3>1, <3>2 DEF JobOK, Jobs
    <2> QED
      BY <1>2, <1>3, <2>1, <2>2 DEF Load
  <1>6. /\ \A q \in Phones : Stored(q, c)' => Known(q, c)
        /\ Holds(w, c)' \/ Saves(w, c)' => Known(job'[w].phone, c)
    BY <1>2, <1>3, <1>4, <1>5 DEF Stored, Known, Holds, Holding, Saves
  <1>7. CASE compared'[c] = compared[c]
    BY <1>4, <1>5, <1>6, <1>7, QuietBudget
  <1>8. CASE OpenToGuesses(ch) /\ c = ch.code /\ compared'[c] = compared[c] + 1
    <2>1. /\ GuessOK(c) /\ compared[c] \in Nat /\ faults \in Nat /\ VerifyLimit \in Nat
          /\ Cardinality(Workers) \in Nat
      BY BudgetNumbers, WorkerSets DEF GuessInv
    <2>2. Stored(p, c) /\ left[c] >= 0
      BY <1>3, <1>8 DEF Stored, OpenToGuesses
    <2>3. \A q \in Phones : Known(q, c)' => q = p
      <3>1. \A q \in Phones : Known(q, c)' => Known(q, c)
        BY <1>5, <1>6, KnownKept
      <3>2. \A v \in Workers : ~Saves(v, c)
        BY <2>2 DEF OtpInv, CodeOK, FreshOK, Fresh
      <3>3. PhoneOK(c)
        BY DEF OtpInv, CodeOK
      <3> QED
        BY <2>2, <3>1, <3>2, <3>3 DEF Known, PhoneOK
    <2>4. /\ Loading(p) \in SUBSET Workers /\ w \in Loading(p)
          /\ Loading(p)' = Loading(p) \ {w}
      BY <1>1, <1>2, <1>5 DEF Loading, OthersKept
    <2>5. /\ Cardinality(Loading(p)) \in Nat /\ Cardinality(Loading(p)) >= 1
          /\ Cardinality(Loading(p) \ {w}) = Cardinality(Loading(p)) - 1
      BY <2>4, WorkerSets
    <2>6. compared[c] + Cardinality(Loading(p)) <=
             Spent(p, c) + Cardinality(Workers) + faults
      BY <2>1, <2>2 DEF GuessOK, Known
    <2>7. Spent(p, c) \in Nat /\ Spent(p, c) <= 2 * VerifyLimit /\ Spent(p, c)' = Spent(p, c)
      BY <1>4, BudgetNumbers DEF Spent
    <2>8. compared'[c] <= 2 * VerifyLimit + Cardinality(Workers) + faults'
      BY <1>4, <1>8, <2>1, <2>5, <2>6, <2>7
    <2>9. compared'[c] + Cardinality(Loading(p)') <=
             Spent(p, c)' + Cardinality(Workers) + faults'
      <3>1. Cardinality(Loading(p)') = Cardinality(Loading(p)) - 1
        BY <2>4, <2>5
      <3> QED
        BY <1>4, <1>8, <2>1, <2>5, <2>6, <2>7, <3>1
    <2> QED
      BY <2>3, <2>8, <2>9 DEF GuessOK
  <1> QED
    <2>1. \/ compared' = compared
          \/ OpenToGuesses(ch) /\ compared' = [compared EXCEPT ![ch.code] = @ + 1]
      BY <1>2, <1>3 DEF Load
    <2>2. compared \in [Codes -> Nat]
      BY DEF OtpInv, Types
    <2> QED
      BY <1>7, <1>8, <2>1, <2>2

(* A minute passes: a code that is still alive was alive before.           *)
LEMMA TickBudget ==
    ASSUME OtpInv, GuessInv, Tick
    PROVE  \A c \in Codes : GuessOK(c)'
  <1> SUFFICES ASSUME NEW c \in Codes PROVE GuessOK(c)'
    OBVIOUS
  <1>1. UNCHANGED <<pc, job, compared, faults>>
    BY DEF Tick, history
  <1>2. /\ GuessOK(c) /\ compared[c] \in Nat /\ faults \in Nat /\ VerifyLimit \in Nat
        /\ left[c] \in -1 .. OtpTtl /\ OtpTtl \in Nat /\ Cardinality(Workers) \in Nat
    BY BudgetNumbers, WorkerSets DEF GuessInv
  <1>3. compared'[c] <= 2 * VerifyLimit + Cardinality(Workers) + faults'
    BY <1>1, <1>2 DEF GuessOK
  <1>4. left'[c] = IF left[c] >= 0 THEN left[c] - 1 ELSE -1
    BY DEF Tick
  <1>5. ASSUME NEW p \in Phones, Known(p, c)', left'[c] >= 0
        PROVE  compared'[c] + Cardinality(Loading(p)') <=
                  Spent(p, c)' + Cardinality(Workers) + faults'
    <2>1. left[c] \in 1 .. OtpTtl /\ left'[c] = left[c] - 1 /\ left'[c] \in Int
      BY <1>2, <1>4, <1>5
    <2>2. Known(p, c)
      <3>1. Stored(p, c)' => Stored(p, c)
        <4>1. store'[p] = IF store[p].ttl <= 1 THEN NoChallenge
                                               ELSE [store[p] EXCEPT !.ttl = @ - 1]
          BY DEF Tick
        <4>2. store[p] \in Challenges
          BY DEF OtpInv, Types
        <4>3. store'[p] = NoChallenge \/ store'[p].code = store[p].code
          BY <4>1, <4>2 DEF Challenges
        <4>4. c # 0
          BY DEF Codes
        <4> QED
          BY <4>3, <4>4, PlainChallenge DEF Stored
      <3> QED
        BY <1>1, <1>5, <3>1 DEF Known, Holds, Holding, Saves
    <2>3. Loading(p)' = Loading(p) /\ Loading(p) \in SUBSET Workers
      BY <1>1 DEF Loading
    <2>4. Cardinality(Loading(p)) \in Nat
      BY <2>3, WorkerSets
    <2>5. compared[c] + Cardinality(Loading(p)) <=
             Spent(p, c) + Cardinality(Workers) + faults
      BY <1>2, <2>1, <2>2 DEF GuessOK
    <2>6. PICK key \in Keys("verify") : key = hits["verify"][p]
      BY BudgetNumbers
    <2>7. hits'["verify"][p] = Aged(key)
      BY <2>6 DEF Tick, Policies
    <2>8. SpentOf(Aged(key), left[c] - 1) >= SpentOf(key, left[c])
      BY <2>1, AgeingPays
    <2>9. SpentOf(Aged(key), left[c] - 1) \in Nat /\ SpentOf(key, left[c]) \in Nat
      <3>1. LimiterOK'
        BY LimiterAges DEF Tick, OtpInv
      <3>2. Aged(key) \in Keys("verify")
        BY <2>7, <3>1 DEF LimiterOK, Policies
      <3> QED
        BY <2>1, <3>2, SpentRange
    <2>10. Spent(p, c) = SpentOf(key, left[c]) /\ Spent(p, c)' = SpentOf(Aged(key), left[c] - 1)
      BY <2>1, <2>6, <2>7 DEF Spent
    <2>11. Cardinality(Loading(p)') = Cardinality(Loading(p))
      BY <2>3
    <2> QED
      BY <1>1, <1>2, <2>4, <2>5, <2>8, <2>9, <2>10, <2>11
  <1> QED
    BY <1>3, <1>5 DEF GuessOK

(* The steps that neither meet the limiter nor compare a guess.            *)
LEMMA OtherBudget ==
    ASSUME OtpInv, GuessInv, NEW w \in Workers,
           \/ Save(w) \/ QueueSms(w) \/ ReadTtl(w) \/ WriteBack(w)
           \/ Consume(w) \/ Mint(w) \/ Fault(w)
    PROVE  \A c \in Codes : GuessOK(c)'
  <1> SUFFICES ASSUME NEW c \in Codes PROVE GuessOK(c)'
    OBVIOUS
  <1>1. /\ UNCHANGED <<hits, compared, left>>
        /\ faults' = faults \/ faults' = faults + 1
    BY DEF Save, Saved, QueueSms, ReadTtl, WriteBack, Consume, Mint, Fault, redis, history
  <1>2. c # 0 /\ JobOK(w)
    BY DEF Codes, OtpInv
  <1>3. CASE Save(w)
    <2>1. pc[w] = "save" /\ pc' = [pc EXCEPT ![w] = "queue"] /\ job' = job
      BY <1>3 DEF Save, Goto
    <2>2. OthersKept(w) /\ pc'[w] = "queue"
      BY <2>1 DEF OthersKept, OtpInv, Types
    <2>3. PICK p, ch : /\ p \in Phones /\ p = job[w].phone
                      /\ ch.code = job[w].code
                      /\ store' = [store EXCEPT ![p] = ch]
      BY <1>2, <1>3, <2>1 DEF Save, JobOK, IssueOtp
    <2>4. \A q \in Phones : Stored(q, c)' => Known(q, c)
      BY <2>1, <2>3 DEF Stored, Known, Saves, OtpInv, Types
    <2> QED
      BY <1>1, <2>2, <2>4, QuietBudget DEF Holds, Holding, Saves
  <1>4. CASE QueueSms(w) \/ Mint(w) \/ Fault(w)
    <2>1. store' = store /\ Answer(w)
      BY <1>4 DEF QueueSms, Mint, Fault, redis
    <2>2. OthersKept(w) /\ pc'[w] = "idle"
      BY <2>1, Answered
    <2>3. \A q \in Phones : Stored(q, c)' => Known(q, c)
      BY <2>1 DEF Stored, Known
    <2> QED
      BY <1>1, <2>2, <2>3, QuietBudget DEF Holds, Holding, Saves
  <1>5. CASE ReadTtl(w)
    <2>1. store' = store /\ pc[w] = "ttl"
      BY <1>5 DEF ReadTtl, redis
    <2>2. \A q \in Phones : Stored(q, c)' => Known(q, c)
      BY <2>1 DEF Stored, Known
    <2>3. CASE Answer(w)
      <3>1. OthersKept(w) /\ pc'[w] = "idle"
        BY <2>3, Answered
      <3> QED
        BY <1>1, <2>2, <3>1, QuietBudget DEF Holds, Holding, Saves
    <2>4. CASE /\ job' = [job EXCEPT ![w].ttl = store[job[w].phone].ttl]
               /\ Goto(w, "write")
      <3>1. PICK j : j = [job[w] EXCEPT !.ttl = store[job[w].phone].ttl]
        OBVIOUS
      <3>2. OthersKept(w) /\ pc'[w] = "write" /\ job'[w] = j
        BY <2>4, <3>1, GoneTo DEF Steps
      <3>3. j.phone = job[w].phone /\ j.seen = job[w].seen /\ job[w].phone \in Phones
        BY <1>2, <2>1, <3>1 DEF JobOK, Jobs
      <3>4. Holds(w, c)' \/ Saves(w, c)' => Known(job'[w].phone, c)
        BY <2>1, <3>2, <3>3 DEF Known, Holds, Holding, Saves
      <3> QED
        BY <1>1, <2>2, <3>2, <3>4, QuietBudget
    <2> QED
      BY <1>5, <2>3, <2>4 DEF ReadTtl
  <1>6. CASE WriteBack(w)
    <2>1. OthersKept(w) /\ pc'[w] = "idle" /\ pc[w] = "write"
      BY <1>6, Answered DEF WriteBack
    <2>2. PICK p, ch : /\ p \in Phones /\ p = job[w].phone
                      /\ ch.code = job[w].seen.code
                      /\ store' = [store EXCEPT ![p] = ch]
      BY <1>2, <1>6, <2>1 DEF WriteBack, JobOK
    <2>3. \A q \in Phones : Stored(q, c)' => Known(q, c)
      BY <2>1, <2>2 DEF Stored, Known, Holds, Holding, OtpInv, Types
    <2> QED
      BY <1>1, <2>1, <2>3, QuietBudget DEF Holds, Holding, Saves
  <1>7. CASE Consume(w)
    <2>1. pc[w] = "consume" /\ pc' = [pc EXCEPT ![w] = "mint"] /\ job' = job
      BY <1>7 DEF Consume, Goto
    <2>2. OthersKept(w) /\ pc'[w] = "mint"
      BY <2>1 DEF OthersKept, OtpInv, Types
    <2>3. PICK p \in Phones : p = job[w].phone /\ store' = [store EXCEPT ![p] = NoChallenge]
      BY <1>2, <1>7, <2>1 DEF Consume, JobOK
    <2>4. \A q \in Phones : Stored(q, c)' => Known(q, c)
      BY <1>2, <2>3, PlainChallenge DEF Stored, Known, OtpInv, Types
    <2> QED
      BY <1>1, <2>2, <2>4, QuietBudget DEF Holds, Holding, Saves
  <1> QED
    BY <1>3, <1>4, <1>5, <1>6, <1>7

(* Overlapping verifications can get past the cap of attempts, but not     *)
(* past the limiter: however they interleave, with each other, with new    *)
(* requests and with the clock, at most two windows' worth of guesses are  *)
(* compared with a code, plus those already past the limiter when it was   *)
(* issued and those an outage of Redis lets through.                       *)
THEOREM GuessesAreBounded == Spec => []GuessesPerCode
  <1>1. Init /\ OtpInv => GuessInv
    <2> SUFFICES ASSUME Init, OtpInv PROVE GuessInv
      OBVIOUS
    <2>1. faults = 0 /\ \A c \in Codes : compared[c] = 0 /\ left[c] = -1
      BY DEF Init
    <2>2. VerifyLimit \in Nat /\ Cardinality(Workers) \in Nat
      BY RateLimiterAssumption, WorkerSets
    <2> QED
      BY <2>1, <2>2 DEF GuessInv, GuessOK
  <1>2. OtpInv /\ OtpInv' /\ GuessInv /\ [Next]_vars => GuessInv'
    <2> SUFFICES ASSUME OtpInv, OtpInv', GuessInv, [Next]_vars PROVE GuessInv'
      OBVIOUS
    <2>1. CASE UNCHANGED vars
      <3>1. faults' = faults /\ \A c \in Codes : GuessOK(c)' <=> GuessOK(c)
        BY <2>1 DEF vars, GuessOK, Known, Stored, Holds, Holding, Saves, Loading, Spent
      <3> QED
        BY <3>1 DEF GuessInv
    <2>2. CASE Next
      <3>1. \A c \in Codes : GuessOK(c)'
        BY <2>2, TickBudget, RequestBudget, VerifyBudget, LoadBudget, OtherBudget DEF Next
      <3>2. faults' = faults \/ faults' = faults + 1
        BY <2>2 DEF Next, Tick, RequestOtp, VerifyOtp, HitLimiter, Save, QueueSms, Load,
           ReadTtl, WriteBack, Consume, Mint, Fault
      <3> QED
        BY <3>1, <3>2 DEF GuessInv
    <2> QED
      BY <2>1, <2>2
  <1>3. GuessInv => GuessesPerCode
    BY DEF GuessInv, GuessOK, GuessesPerCode
  <1> QED
    BY <1>1, <1>2, <1>3, OtpSafety, PTL DEF Spec

------------------------------------------------------------------------------
(* One verification of a phone at a time.                                  *)

(* No verification loads a phone's challenge while another one is between  *)
(* its load and its write-back or its consume.                             *)
VerificationsSerial ==
    \A v, w \in Workers : Holding(v) /\ pc[w] = "load" => job[v].phone # job[w].phone

(* The attempts on record bound the guesses, but for the failures.         *)
SerialOK(c) ==
    /\ UseOK(c)
    /\ compared[c] <= MaxVerifyAttempts + faults
    /\ \A v, w \in Workers : Holds(v, c) /\ Holds(w, c) => v = w
    /\ \A w \in Workers : Holds(w, c) =>
          /\ compared[c] <= job[w].seen.attempts + 1 + faults
          /\ \A p \in Phones : Stored(p, c) => job[w].seen.attempts <= store[p].attempts
    /\ (\A w \in Workers : ~Holds(w, c)) =>
          \A p \in Phones : Stored(p, c) => compared[c] <= store[p].attempts + faults

SerialInv == faults \in Nat /\ \A c \in Codes : SerialOK(c)

LEMMA SerialNumbers ==
    ASSUME OtpInv, SerialInv, NEW c \in Codes
    PROVE  /\ compared[c] \in Nat /\ logins[c] \in Nat /\ faults \in Nat
           /\ MaxVerifyAttempts \in Nat /\ SerialOK(c) /\ CodeOK(c)
           /\ \A p \in Phones : store[p].attempts \in Nat
           /\ \A w \in Workers : job[w].seen.attempts \in Nat
  <1>1. \A p \in Phones : store[p].attempts \in Nat
    BY OtpAssumption DEF OtpInv, Types, Challenges
  <1>2. \A w \in Workers : job[w].seen.attempts \in Nat
    BY OtpAssumption DEF OtpInv, JobOK, Jobs, Challenges
  <1> QED
    BY <1>1, <1>2, OtpAssumption DEF OtpInv, Types, SerialInv

(* A code keeps its part when nothing of it is added and no copy of a code *)
(* that is still stored is dropped without a failure to account for it.    *)
LEMMA SerialKept ==
    ASSUME OtpInv, SerialInv, NEW c \in Codes, faults' \in Nat, faults <= faults',
           \A p \in Phones : Stored(p, c)' => /\ Stored(p, c)
                                              /\ store'[p].attempts = store[p].attempts,
           \A w \in Workers :
              /\ Holds(w, c)' => Holds(w, c) /\ job'[w].seen = job[w].seen
              /\ Mints(w, c)' => Mints(w, c),
           \/ faults' = faults + 1
           \/ \A p \in Phones : ~Stored(p, c)'
           \/ \A w \in Workers : Holds(w, c) => Holds(w, c)',
           compared'[c] = compared[c], logins'[c] = logins[c]
    PROVE  SerialOK(c)'
  <1>1. /\ compared[c] \in Nat /\ logins[c] \in Nat /\ faults \in Nat
        /\ MaxVerifyAttempts \in Nat /\ SerialOK(c)
        /\ \A p \in Phones : store[p].attempts \in Nat
        /\ \A w \in Workers : job[w].seen.attempts \in Nat
    BY SerialNumbers
  <1>2. UseOK(c)'
    BY <1>1 DEF SerialOK, UseOK
  <1>3. compared'[c] <= MaxVerifyAttempts + faults'
    BY <1>1 DEF SerialOK
  <1>4. \A v, w \in Workers : Holds(v, c)' /\ Holds(w, c)' => v = w
    BY <1>1 DEF SerialOK
  <1>5. ASSUME NEW w \in Workers, Holds(w, c)'
        PROVE  /\ compared'[c] <= job'[w].seen.attempts + 1 + faults'
               /\ \A p \in Phones : Stored(p, c)' => job'[w].seen.attempts <= store'[p].attempts
    <2>1. /\ Holds(w, c) /\ job'[w].seen.attempts = job[w].seen.attempts
          /\ job[w].seen.attempts \in Nat
      BY <1>1, <1>5
    <2>2. compared[c] <= job[w].seen.attempts + 1 + faults
      BY <1>1, <2>1 DEF SerialOK
    <2>3. compared'[c] <= job'[w].seen.attempts + 1 + faults'
      BY <1>1, <2>1, <2>2
    <2> QED
      BY <1>1, <2>1, <2>3 DEF SerialOK
  <1>6. ASSUME \A w \in Workers : ~Holds(w, c)', NEW p \in Phones, Stored(p, c)'
        PROVE  compared'[c] <= store'[p].attempts + faults'
    <2>1. /\ Stored(p, c) /\ store'[p].attempts = store[p].attempts
          /\ store[p].attempts \in Nat
      BY <1>1, <1>6
    <2>2. CASE \A w \in Workers : ~Holds(w, c)
      <3>1. compared[c] <= store[p].attempts + faults
        BY <1>1, <2>1, <2>2 DEF SerialOK
      <3> QED
        BY <1>1, <2>1, <3>1
    <2>3. ASSUME NEW w \in Workers, Holds(w, c) PROVE compared'[c] <= store'[p].attempts + faults'
      <3>1. faults' = faults + 1
        BY <1>6, <2>3
      <3>2. /\ compared[c] <= job[w].seen.attempts + 1 + faults
            /\ job[w].seen.attempts <= store[p].attempts
        BY <1>1, <2>1, <2>3 DEF SerialOK
      <3> QED
        BY <1>1, <2>1, <3>1, <3>2
    <2> QED
      BY <2>2, <2>3
  <1> QED
    BY <1>2, <1>3, <1>4, <1>5, <1>6 DEF SerialOK

(* A step of request w that holds nothing before or after it, and leaves   *)
(* the store and the counts alone.                                         *)
LEMMA QuietSerial ==
    ASSUME OtpInv, SerialInv, NEW w \in Workers, OthersKept(w), ~Holding(w),
           pc'[w] \notin {"ttl", "write", "consume", "mint"},
           faults' = faults \/ faults' = faults + 1,
           store' = store, compared' = compared, logins' = logins
    PROVE  SerialInv'
  <1>1. faults \in Nat /\ faults' \in Nat /\ faults <= faults'
    BY DEF SerialInv
  <1>2. ASSUME NEW c \in Codes PROVE SerialOK(c)'
    <2>1. \A p \in Phones : Stored(p, c)' => Stored(p, c) /\ store'[p].attempts = store[p].attempts
      BY DEF Stored
    <2>2. \A v \in Workers :
             /\ Holds(v, c)' => Holds(v, c) /\ job'[v].seen = job[v].seen
             /\ Holds(v, c) => Holds(v, c)'
             /\ Mints(v, c)' => Mints(v, c)
      BY DEF Holds, Holding, Mints, OthersKept
    <2> QED
      BY <1>1, <2>1, <2>2, SerialKept
  <1> QED
    BY <1>1, <1>2 DEF SerialInv

(* requestOtp, and verifyOtp up to its load.                               *)
LEMMA BeginSerial ==
    ASSUME OtpInv, SerialInv, NEW w \in Workers,
           \/ \E typed \in TypedPhones : RequestOtp(w, typed) \/ VerifyOtp(w, typed)
           \/ QueueSms(w)
    PROVE  SerialInv'
  <1>1. ASSUME NEW typed \in TypedPhones, RequestOtp(w, typed) \/ VerifyOtp(w, typed)
        PROVE  SerialInv'
    <2>1. /\ pc[w] = "idle" /\ store' = store /\ compared' = compared /\ logins' = logins
          /\ faults' = faults \/ faults' = faults + 1
      BY <1>1 DEF RequestOtp, VerifyOtp, HitLimiter, history
    <2>2. \/ pc' = pc /\ job' = job
          \/ \E step \in {"save", "load"} : \E j : pc' = [pc EXCEPT ![w] = step]
                                                  /\ job' = [job EXCEPT ![w] = j]
      BY <1>1 DEF RequestOtp, VerifyOtp, Goto
    <2>3. OthersKept(w) /\ pc'[w] \in {"idle", "save", "load"}
      BY <2>1, <2>2 DEF OthersKept, OtpInv, Types
    <2> QED
      BY <2>1, <2>3, QuietSerial DEF Holding
  <1>2. CASE QueueSms(w)
    <2>1. /\ pc[w] = "queue" /\ store' = store /\ compared' = compared /\ logins' = logins
          /\ faults' = faults /\ Answer(w)
      BY <1>2 DEF QueueSms, redis, history
    <2>2. OthersKept(w) /\ pc'[w] = "idle"
      BY <2>1, Answered
    <2> QED
      BY <2>1, <2>2, QuietSerial DEF Holding
  <1> QED
    BY <1>1, <1>2

LEMMA SaveSerial ==
    ASSUME OtpInv, SerialInv, NEW w \in Workers, Save(w)
    PROVE  SerialInv'
  <1>1. pc[w] = "save" /\ JobOK(w)
    BY DEF Save, OtpInv
  <1>2. PICK p \in Phones, new \in Codes : p = job[w].phone /\ new = job[w].code
    BY <1>1, IssuedCodes DEF JobOK
  <1>3. /\ store' = [store EXCEPT ![p] = IssueOtp(new)]
        /\ pc' = [pc EXCEPT ![w] = "queue"]
        /\ UNCHANGED <<job, compared, logins, faults>>
    BY <1>2 DEF Save, Saved, Goto
  <1>4. /\ store'[p].code = new /\ store'[p].attempts = 0
        /\ \A q \in Phones \ {p} : store'[q] = store[q]
    BY <1>3 DEF OtpInv, Types, IssueOtp
  <1>5. OthersKept(w) /\ pc'[w] = "queue" /\ faults \in Nat /\ faults' \in Nat
        /\ faults <= faults'
    BY <1>3 DEF OtpInv, Types, OthersKept, SerialInv
  <1>6. ASSUME NEW c \in Codes
        PROVE  /\ \A v \in Workers : Holds(v, c)' <=> Holds(v, c)
               /\ \A v \in Workers : Mints(v, c)' <=> Mints(v, c)
    BY <1>1, <1>3, <1>5 DEF Holds, Holding, Mints, OthersKept
  <1>7. ASSUME NEW c \in Codes, c # new PROVE SerialOK(c)'
    <2>1. \A q \in Phones : Stored(q, c)' => Stored(q, c) /\ store'[q].attempts = store[q].attempts
      BY <1>4, <1>7 DEF Stored
    <2> QED
      BY <1>3, <1>5, <1>6, <2>1, SerialKept
  <1>8. SerialOK(new)'
    <2>1. Fresh(new)
      BY <1>1, <1>2 DEF OtpInv, CodeOK, FreshOK, Saves
    <2>2. \A v \in Workers : ~Holds(v, new)' /\ ~Mints(v, new)'
      BY <1>6, <2>1 DEF Fresh
    <2>3. \A q \in Phones : Stored(q, new)' => q = p
      BY <1>4, <2>1 DEF Fresh, Stored
    <2>4. compared'[new] = 0 /\ logins'[new] = 0 /\ MaxVerifyAttempts \in Nat
      BY <1>3, <2>1, OtpAssumption DEF Fresh
    <2>5. UseOK(new)'
      BY <2>2, <2>4 DEF UseOK
    <2>6. PICK f \in Nat, m \in Nat : f = faults' /\ m = MaxVerifyAttempts
      BY <1>5, <2>4
    <2>7. compared'[new] <= m + f /\ compared'[new] <= 0 + f
      BY <2>4
    <2>8. \A q \in Phones : Stored(q, new)' => compared'[new] <= store'[q].attempts + faults'
      BY <1>4, <2>3, <2>6, <2>7
    <2> QED
      BY <2>2, <2>5, <2>6, <2>7, <2>8 DEF SerialOK
  <1> QED
    BY <1>5, <1>7, <1>8 DEF SerialInv

(* The only place where a guess is compared.                               *)
LEMMA LoadSerial ==
    ASSUME OtpInv, SerialInv, VerificationsSerial, NEW w \in Workers, NEW guess, Load(w, guess)
    PROVE  SerialInv'
  <1>1. pc[w] = "load" /\ JobOK(w)
    BY DEF Load, OtpInv
  <1>2. PICK p \in Phones : p = job[w].phone
    BY <1>1 DEF JobOK
  <1>3. PICK ch \in Challenges : ch = store[p]
    BY DEF OtpInv, Types
  <1>4. UNCHANGED <<store, logins, faults>> /\ faults \in Nat
    BY DEF Load, redis, SerialInv
  <1>5. CASE ch = NoChallenge
    <2>1. ~OpenToGuesses(ch)
      BY <1>5 DEF OpenToGuesses
    <2>2. compared' = compared /\ Answer(w)
      BY <1>2, <1>3, <1>5, <2>1 DEF Load
    <2>3. OthersKept(w) /\ pc'[w] = "idle"
      BY <2>2, Answered
    <2> QED
      BY <1>1, <1>4, <2>2, <2>3, QuietSerial DEF Holding
  <1>6. CASE ch # NoChallenge
    <2>1. StoreOK(p) /\ Stored(p, ch.code)
      BY <1>3 DEF OtpInv, Stored
    <2>2. PICK new \in Codes : new = ch.code
      BY <1>3, <1>6, <2>1, OtpAssumption DEF StoreOK, Issued, Codes, OtpInv, Types
    <2>3. PICK step \in {"consume", "ttl"} :
             Goto(w, step) /\ job' = [job EXCEPT ![w].seen = ch]
      BY <1>2, <1>3, <1>6 DEF Load
    <2>4. PICK j : j = [job[w] EXCEPT !.seen = ch]
      OBVIOUS
    <2>5. /\ OthersKept(w) /\ pc'[w] = step /\ job'[w] = j
      BY <2>3, <2>4, GoneTo DEF Steps
    <2>6. j.seen = ch
      BY <1>1, <2>4 DEF JobOK, Jobs
    <2>7. \/ OpenToGuesses(ch) /\ compared' = [compared EXCEPT ![new] = @ + 1]
          \/ compared' = compared
      BY <1>2, <1>3, <2>2 DEF Load
    <2>8. ASSUME NEW c \in Codes, c # new PROVE SerialOK(c)'
      <3>1. \A q \in Phones : Stored(q, c)' => Stored(q, c) /\ store'[q].attempts = store[q].attempts
        BY <1>4 DEF Stored
      <3>2. \A v \in Workers :
               /\ Holds(v, c)' => Holds(v, c) /\ job'[v].seen = job[v].seen
               /\ Holds(v, c) => Holds(v, c)'
               /\ Mints(v, c)' => Mints(v, c)
        BY <1>1, <2>2, <2>5, <2>6, <2>8 DEF Holds, Holding, Mints, OthersKept
      <3>3. compared'[c] = compared[c] /\ logins'[c] = logins[c] /\ faults' \in Nat
            /\ faults <= faults'
        BY <1>4, <2>7, <2>8 DEF OtpInv, Types
      <3> QED
        BY <3>1, <3>2, <3>3, SerialKept
    <2>9. SerialOK(new)'
      <3>1. /\ compared[new] \in Nat /\ logins[new] \in Nat
            /\ MaxVerifyAttempts \in Nat /\ SerialOK(new) /\ CodeOK(new)
            /\ ch.attempts \in Nat
        BY <1>3, SerialNumbers
      <3>2. Stored(p, new)
        BY <2>1, <2>2
      <3>3. \A v \in Workers : ~Holds(v, new)
        <4>1. ASSUME NEW v \in Workers, Holds(v, new) PROVE FALSE
          <5>1. job[v].phone = p /\ Holding(v)
            BY <3>1, <3>2, <4>1 DEF CodeOK, PhoneOK, Holds
          <5> QED
            BY <1>1, <1>2, <5>1 DEF VerificationsSerial
        <4> QED
          BY <4>1
      <3>4. \A v \in Workers : Holds(v, new)' => v = w
        BY <2>5, <3>3 DEF Holds, Holding, OthersKept
      <3>5. \A v \in Workers : ~Mints(v, new)'
        <4>1. \A v \in Workers : ~Mints(v, new)
          BY <3>1, <3>2 DEF SerialOK, UseOK
        <4> QED
          BY <2>5, <4>1 DEF Mints, OthersKept
      <3>6. logins'[new] = 0
        <4>1. logins[new] # 1 /\ logins[new] <= 1
          BY <3>1, <3>2 DEF SerialOK, UseOK
        <4> QED
          BY <1>4, <3>1, <4>1
      <3>7. UseOK(new)'
        BY <3>5, <3>6 DEF UseOK
      <3>8. compared[new] <= ch.attempts + faults
        BY <1>3, <3>1, <3>2, <3>3 DEF SerialOK
      <3>9. /\ compared'[new] <= ch.attempts + 1 + faults'
            /\ compared'[new] <= MaxVerifyAttempts + faults'
        <4>1. CASE compared' = compared
          BY <1>4, <3>1, <3>8, <4>1 DEF SerialOK
        <4>2. CASE OpenToGuesses(ch) /\ compared' = [compared EXCEPT ![new] = @ + 1]
          <5>1. ch.attempts < MaxVerifyAttempts
            BY <4>2 DEF OpenToGuesses
          <5>2. compared'[new] = compared[new] + 1
            BY <4>2 DEF OtpInv, Types
          <5> QED
            BY <1>4, <3>1, <3>8, <5>1, <5>2
        <4> QED
          BY <2>7, <4>1, <4>2
      <3>10. \A q \in Phones : Stored(q, new)' => q = p
        BY <1>4, <3>1, <3>2 DEF CodeOK, PhoneOK, Stored
      <3>11. job'[w].seen.attempts = ch.attempts /\ store'[p].attempts = ch.attempts
        BY <1>3, <1>4, <2>5, <2>6
      <3>12. Holds(w, new)'
        BY <2>2, <2>5, <2>6 DEF Holds, Holding
      <3>13. ch.attempts <= ch.attempts
        BY <3>1
      <3> QED
        BY <3>4, <3>7, <3>9, <3>10, <3>11, <3>12, <3>13 DEF SerialOK
    <2> QED
      BY <1>4, <2>8, <2>9 DEF SerialInv
  <1> QED
    BY <1>5, <1>6

LEMMA ReadTtlSerial ==
    ASSUME OtpInv, SerialInv, NEW w \in Workers, ReadTtl(w)
    PROVE  SerialInv'
  <1>1. pc[w] = "ttl" /\ JobOK(w)
    BY DEF ReadTtl, OtpInv
  <1>2. PICK p \in Phones : p = job[w].phone
    BY <1>1 DEF JobOK
  <1>3. UNCHANGED <<store, compared, logins, faults>> /\ faults \in Nat
    BY DEF ReadTtl, redis, history, SerialInv
  <1>4. faults' \in Nat /\ faults <= faults'
    BY <1>3
  <1>5. \/ store[p].ttl = 0 /\ Answer(w)
        \/ Goto(w, "write") /\ job' = [job EXCEPT ![w].ttl = store[p].ttl]
    BY <1>2 DEF ReadTtl
  <1>6. ASSUME NEW c \in Codes PROVE SerialOK(c)'
    <2>1. \A q \in Phones : Stored(q, c)' => Stored(q, c) /\ store'[q].attempts = store[q].attempts
      BY <1>3 DEF Stored
    <2>2. CASE store[p].ttl = 0 /\ Answer(w)
      <3>1. store[p] = NoChallenge
        BY <2>2 DEF OtpInv, StoreOK
      <3>2. OthersKept(w) /\ pc'[w] = "idle"
        BY <2>2, Answered
      <3>3. \A v \in Workers :
               /\ Holds(v, c)' => Holds(v, c) /\ job'[v].seen = job[v].seen
               /\ v # w /\ Holds(v, c) => Holds(v, c)'
               /\ Mints(v, c)' => Mints(v, c)
        BY <3>2 DEF Holds, Holding, Mints, OthersKept
      <3>4. Holds(w, c) => \A q \in Phones : ~Stored(q, c)'
        <4>1. ~Stored(p, c)
          BY <3>1, PlainChallenge DEF Stored, Codes
        <4> QED
          BY <1>2, <2>1, <4>1 DEF OtpInv, CodeOK, PhoneOK
      <3> QED
        BY <1>3, <1>4, <2>1, <3>3, <3>4, SerialKept
    <2>3. CASE Goto(w, "write") /\ job' = [job EXCEPT ![w].ttl = store[p].ttl]
      <3>1. PICK j : j = [job[w] EXCEPT !.ttl = store[p].ttl]
        OBVIOUS
      <3>2. OthersKept(w) /\ pc'[w] = "write" /\ job'[w] = j
        BY <2>3, <3>1, GoneTo DEF Steps
      <3>3. j.seen = job[w].seen
        BY <1>1, <3>1 DEF JobOK, Jobs
      <3>4. \A v \in Workers :
               /\ Holds(v, c)' => Holds(v, c) /\ job'[v].seen = job[v].seen
               /\ Holds(v, c) => Holds(v, c)'
               /\ Mints(v, c)' => Mints(v, c)
        BY <1>1, <3>2, <3>3 DEF Holds, Holding, Mints, OthersKept
      <3> QED
        BY <1>3, <1>4, <2>1, <3>4, SerialKept
    <2> QED
      BY <1>5, <2>2, <2>3
  <1> QED
    BY <1>4, <1>6 DEF SerialInv

LEMMA WriteBackSerial ==
    ASSUME OtpInv, SerialInv, NEW w \in Workers, WriteBack(w)
    PROVE  SerialInv'
  <1>1. pc[w] = "write" /\ JobOK(w)
    BY DEF WriteBack, OtpInv
  <1>2. PICK p \in Phones, old \in Codes, seen \in Challenges :
           p = job[w].phone /\ old = seen.code /\ seen = job[w].seen
    BY <1>1, OtpAssumption DEF JobOK, Jobs, Holding, Issued, Codes, OtpInv, Types
  <1>3. PICK counted \in Nat :
           counted = IF seen.attempts > MaxVerifyAttempts THEN seen.attempts
                                                          ELSE seen.attempts + 1
    BY OtpAssumption DEF Challenges
  <1>4. /\ store' = [store EXCEPT ![p] = [code |-> old, ttl |-> job[w].ttl, attempts |-> counted]]
        /\ Answer(w) /\ UNCHANGED <<compared, logins, faults>>
    BY <1>2, <1>3 DEF WriteBack, history
  <1>5. /\ store'[p].code = old /\ store'[p].attempts = counted
        /\ \A q \in Phones \ {p} : store'[q] = store[q]
    BY <1>4 DEF OtpInv, Types
  <1>6. OthersKept(w) /\ pc'[w] = "idle"
    BY <1>4, Answered
  <1>7. faults \in Nat /\ faults' \in Nat /\ faults' = faults /\ faults <= faults'
    BY <1>4 DEF SerialInv
  <1>8. Holds(w, old)
    BY <1>1, <1>2 DEF Holds, Holding
  <1>9. ASSUME NEW c \in Codes, c # old PROVE SerialOK(c)'
    <2>1. \A q \in Phones : Stored(q, c)' => Stored(q, c) /\ store'[q].attempts = store[q].attempts
      BY <1>5, <1>9 DEF Stored
    <2>2. \A v \in Workers :
             /\ Holds(v, c)' => Holds(v, c) /\ job'[v].seen = job[v].seen
             /\ Holds(v, c) => Holds(v, c)'
             /\ Mints(v, c)' => Mints(v, c)
      BY <1>1, <1>2, <1>6, <1>9 DEF Holds, Holding, Mints, OthersKept
    <2> QED
      BY <1>4, <1>7, <2>1, <2>2, SerialKept
  <1>10. SerialOK(old)'
    <2>1. /\ compared[old] \in Nat /\ logins[old] \in Nat
          /\ MaxVerifyAttempts \in Nat /\ SerialOK(old) /\ CodeOK(old)
          /\ seen.attempts \in Nat
      BY <1>2, SerialNumbers
    <2>2. \A v \in Workers : ~Holds(v, old)'
      BY <1>6, <1>8, <2>1 DEF SerialOK, Holds, Holding, OthersKept
    <2>3. \A v \in Workers : ~Mints(v, old)'
      <3>1. \A v \in Workers : ~Mints(v, old)
        BY <1>8, <2>1 DEF SerialOK, UseOK
      <3> QED
        BY <1>6, <3>1 DEF Mints, OthersKept
    <2>4. logins'[old] = 0
      <3>1. logins[old] # 1 /\ logins[old] <= 1
        BY <1>8, <2>1 DEF SerialOK, UseOK
      <3> QED
        BY <1>4, <2>1, <3>1
    <2>5. UseOK(old)'
      BY <2>3, <2>4 DEF UseOK
    <2>6. \A q \in Phones : Stored(q, old)' => q = p
      BY <1>2, <1>5, <1>8, <2>1 DEF CodeOK, PhoneOK, Stored
    <2>7. /\ compared[old] <= seen.attempts + 1 + faults
          /\ compared[old] <= MaxVerifyAttempts + faults
      BY <1>2, <1>8, <2>1 DEF SerialOK
    <2>8. compared[old] <= counted + faults
      BY <1>3, <1>7, <2>1, <2>7
    <2>9. \A q \in Phones : Stored(q, old)' => compared'[old] <= store'[q].attempts + faults'
      BY <1>4, <1>5, <1>7, <2>6, <2>8
    <2>10. compared'[old] <= MaxVerifyAttempts + faults'
      BY <1>4, <1>7, <2>7
    <2> QED
      BY <2>2, <2>5, <2>9, <2>10 DEF SerialOK
  <1> QED
    BY <1>7, <1>9, <1>10 DEF SerialInv

LEMMA ConsumeSerial ==
    ASSUME OtpInv, SerialInv, NEW w \in Workers, Consume(w)
    PROVE  SerialInv'
  <1>1. pc[w] = "consume" /\ JobOK(w)
    BY DEF Consume, OtpInv
  <1>2. PICK p \in Phones, used \in Codes : p = job[w].phone /\ used = job[w].seen.code
    BY <1>1, IssuedCodes DEF JobOK, Holding
  <1>3. Holds(w, used)
    BY <1>1, <1>2 DEF Holding, Holds
  <1>4. /\ store' = [store EXCEPT ![p] = NoChallenge]
        /\ pc' = [pc EXCEPT ![w] = "mint"]
        /\ UNCHANGED <<job, compared, logins, faults>>
    BY <1>2 DEF Consume, Goto, history
  <1>5. store'[p] = NoChallenge /\ \A q \in Phones \ {p} : store'[q] = store[q]
    BY <1>4 DEF OtpInv, Types
  <1>6. OthersKept(w) /\ pc'[w] = "mint" /\ job'[w] = job[w]
    BY <1>4 DEF OtpInv, Types, OthersKept
  <1>7. faults \in Nat /\ faults' \in Nat /\ faults' = faults /\ faults <= faults'
    BY <1>4 DEF SerialInv
  <1>8. \A c \in Codes : ~Stored(p, c)'
    BY <1>5, PlainChallenge DEF Stored, Codes
  <1>9. ASSUME NEW c \in Codes, c # used PROVE SerialOK(c)'
    <2>1. \A q \in Phones : Stored(q, c)' => Stored(q, c) /\ store'[q].attempts = store[q].attempts
      BY <1>5, <1>8 DEF Stored
    <2>2. \A v \in Workers :
             /\ Holds(v, c)' => Holds(v, c) /\ job'[v].seen = job[v].seen
             /\ Holds(v, c) => Holds(v, c)'
             /\ Mints(v, c)' => Mints(v, c)
      BY <1>1, <1>2, <1>6, <1>9 DEF Holds, Holding, Mints, OthersKept
    <2> QED
      BY <1>4, <1>7, <2>1, <2>2, SerialKept
  <1>10. SerialOK(used)'
    <2>1. /\ compared[used] \in Nat /\ logins[used] \in Nat /\ SerialOK(used) /\ CodeOK(used)
      BY SerialNumbers
    <2>2. \A v \in Workers : ~Holds(v, used)'
      BY <1>3, <1>6, <2>1 DEF SerialOK, Holds, Holding, OthersKept
    <2>3. \A v \in Workers : Mints(v, used)' => v = w
      <3>1. \A v \in Workers : ~Mints(v, used)
        BY <1>3, <2>1 DEF SerialOK, UseOK
      <3> QED
        BY <1>6, <3>1 DEF Mints, OthersKept
    <2>4. logins'[used] = 0
      <3>1. logins[used] # 1 /\ logins[used] <= 1
        BY <1>3, <2>1 DEF SerialOK, UseOK
      <3> QED
        BY <1>4, <2>1, <3>1
    <2>5. \A q \in Phones : ~Stored(q, used)'
      BY <1>2, <1>3, <1>5, <1>8, <2>1 DEF CodeOK, PhoneOK, Stored
    <2>6. UseOK(used)'
      BY <2>2, <2>3, <2>4, <2>5 DEF UseOK
    <2>7. compared'[used] <= MaxVerifyAttempts + faults'
      BY <1>4, <2>1 DEF SerialOK
    <2> QED
      BY <2>2, <2>5, <2>6, <2>7 DEF SerialOK
  <1> QED
    BY <1>7, <1>9, <1>10 DEF SerialInv

LEMMA MintSerial ==
    ASSUME OtpInv, SerialInv, NEW w \in Workers, Mint(w)
    PROVE  SerialInv'
  <1>1. pc[w] = "mint" /\ JobOK(w)
    BY DEF Mint, OtpInv
  <1>2. PICK used \in Codes : used = job[w].seen.code
    BY <1>1, IssuedCodes DEF JobOK
  <1>3. Mints(w, used)
    BY <1>1, <1>2 DEF Mints
  <1>4. /\ logins' = logins \/ logins' = [logins EXCEPT ![used] = @ + 1]
        /\ Answer(w) /\ UNCHANGED <<store, compared, faults>>
    BY <1>2 DEF Mint, redis
  <1>5. OthersKept(w) /\ pc'[w] = "idle"
    BY <1>4, Answered
  <1>6. faults \in Nat /\ faults' \in Nat /\ faults' = faults /\ faults <= faults'
    BY <1>4 DEF SerialInv
  <1>7. /\ logins'[used] = logins[used] \/ logins'[used] = logins[used] + 1
        /\ \A c \in Codes \ {used} : logins'[c] = logins[c]
    BY <1>4 DEF OtpInv, Types
  <1>8. ASSUME NEW c \in Codes
        PROVE  /\ \A q \in Phones : /\ Stored(q, c)' <=> Stored(q, c)
                                    /\ store'[q].attempts = store[q].attempts
               /\ \A v \in Workers :
                     /\ Holds(v, c)' <=> Holds(v, c)
                     /\ Holds(v, c)' => job'[v].seen = job[v].seen
                     /\ Mints(v, c)' => v # w /\ Mints(v, c)
    BY <1>1, <1>4, <1>5 DEF Stored, Holds, Holding, Mints, OthersKept
  <1>9. ASSUME NEW c \in Codes, c # used PROVE SerialOK(c)'
    BY <1>4, <1>6, <1>7, <1>8, <1>9, SerialKept
  <1>10. SerialOK(used)'
    <2>1. /\ compared[used] \in Nat /\ logins[used] \in Nat /\ SerialOK(used)
      BY SerialNumbers
    <2>2. /\ logins[used] = 0 /\ \A v \in Workers : ~Mints(v, used)'
          /\ \A q \in Phones : ~Stored(q, used)'
          /\ \A v \in Workers : ~Holds(v, used)'
      BY <1>3, <1>8, <2>1 DEF SerialOK, UseOK
    <2>3. logins'[used] <= 1
      BY <1>7, <2>2
    <2>4. UseOK(used)'
      BY <2>2, <2>3 DEF UseOK
    <2>5. compared'[used] <= MaxVerifyAttempts + faults'
      BY <1>4, <2>1 DEF SerialOK
    <2> QED
      BY <2>2, <2>4, <2>5 DEF SerialOK
  <1> QED
    BY <1>6, <1>9, <1>10 DEF SerialInv

(* A failure loses at most the one guess that its request has compared.    *)
LEMMA FaultSerial ==
    ASSUME OtpInv, SerialInv, NEW w \in Workers, Fault(w)
    PROVE  SerialInv'
  <1>1. /\ Answer(w) /\ faults' = faults + 1
        /\ UNCHANGED <<store, compared, logins>>
    BY DEF Fault, redis
  <1>2. OthersKept(w) /\ pc'[w] = "idle"
    BY <1>1, Answered
  <1>3. faults \in Nat /\ faults' \in Nat /\ faults <= faults'
    BY <1>1 DEF SerialInv
  <1>4. ASSUME NEW c \in Codes PROVE SerialOK(c)'
    <2>1. \A q \in Phones : Stored(q, c)' => Stored(q, c) /\ store'[q].attempts = store[q].attempts
      BY <1>1 DEF Stored
    <2>2. \A v \in Workers :
             /\ Holds(v, c)' => Holds(v, c) /\ job'[v].seen = job[v].seen
             /\ Mints(v, c)' => Mints(v, c)
      BY <1>2 DEF Holds, Holding, Mints, OthersKept
    <2> QED
      BY <1>1, <1>3, <2>1, <2>2, SerialKept
  <1> QED
    BY <1>3, <1>4 DEF SerialInv

LEMMA TickSerial ==
    ASSUME OtpInv, SerialInv, Tick \/ UNCHANGED vars
    PROVE  SerialInv'
  <1>1. UNCHANGED <<pc, job, compared, logins, faults>>
    BY DEF Tick, history, vars
  <1>2. faults \in Nat /\ faults' \in Nat /\ faults' = faults /\ faults <= faults'
    BY <1>1 DEF SerialInv
  <1>3. ASSUME NEW c \in Codes PROVE SerialOK(c)'
    <2>1. ASSUME NEW q \in Phones, Stored(q, c)'
          PROVE  Stored(q, c) /\ store'[q].attempts = store[q].attempts
      <3>1. store[q] \in Challenges
        BY DEF OtpInv, Types
      <3>2. \/ store'[q] = NoChallenge \/ store'[q] = store[q]
            \/ store'[q] = [store[q] EXCEPT !.ttl = @ - 1]
        BY DEF Tick, vars
      <3>3. store'[q] # NoChallenge
        BY <2>1, PlainChallenge DEF Stored, Codes
      <3>4. store'[q].code = store[q].code /\ store'[q].attempts = store[q].attempts
        BY <3>1, <3>2, <3>3 DEF Challenges
      <3> QED
        BY <2>1, <3>4 DEF Stored
    <2>2. \A v \in Workers :
             /\ Holds(v, c)' <=> Holds(v, c)
             /\ Mints(v, c)' <=> Mints(v, c)
             /\ job'[v] = job[v]
      BY <1>1 DEF Holds, Holding, Mints
    <2> QED
      BY <1>1, <1>2, <2>1, <2>2, SerialKept
  <1> QED
    BY <1>2, <1>3 DEF SerialInv

(* The limits of one code when the verifications of its phone are serial.  *)
SerialLimits ==
    \A c \in Codes : compared[c] <= MaxVerifyAttempts + faults /\ logins[c] <= 1

(* What the locks that verifyOtp does not take would give: while no two    *)
(* verifications of a phone overlap, a code opens one session at most,     *)
(* and "capped at 5 tries" holds but for one more guess for each failure   *)
(* of Redis, PostgreSQL or the process.  Requests, expiry and other phones *)
(* may run beside them freely.                                             *)
THEOREM SerialVerificationsAreCapped == Spec /\ []VerificationsSerial => []SerialLimits
  <1>1. Init => SerialInv
    <2> SUFFICES ASSUME Init PROVE SerialInv
      OBVIOUS
    <2>1. /\ faults = 0 /\ MaxVerifyAttempts \in Nat
          /\ \A c \in Codes : compared[c] = 0 /\ logins[c] = 0
      BY OtpAssumption DEF Init
    <2>2. ASSUME NEW c \in Codes PROVE SerialOK(c)
      <3>1. /\ \A p \in Phones : ~Stored(p, c)
            /\ \A w \in Workers : ~Holds(w, c) /\ ~Mints(w, c)
        BY PlainChallenge DEF Init, Stored, Holds, Holding, Mints, Codes
      <3>2. UseOK(c)
        BY <2>1, <3>1 DEF UseOK
      <3>3. compared[c] <= MaxVerifyAttempts + faults
        BY <2>1
      <3> QED
        BY <3>1, <3>2, <3>3 DEF SerialOK
    <2> QED
      BY <2>1, <2>2 DEF SerialInv
  <1>2. OtpInv /\ SerialInv /\ VerificationsSerial /\ [Next]_vars => SerialInv'
    BY BeginSerial, SaveSerial, LoadSerial, ReadTtlSerial, WriteBackSerial, ConsumeSerial,
       MintSerial, FaultSerial, TickSerial
    DEF Next
  <1>3. SerialInv => SerialLimits
    BY DEF SerialInv, SerialOK, UseOK, SerialLimits
  <1> QED
    BY <1>1, <1>2, <1>3, OtpSafety, PTL DEF Spec

NoFaults == faults = 0

(* "Capped at 5 tries, then the code dies" is true of a login whose        *)
(* requests come one after the other and whose stores answer.              *)
THEOREM SerialAttemptsCapped ==
    Spec /\ []VerificationsSerial /\ []NoFaults => []AttemptsCapped
  <1>1. SerialLimits /\ NoFaults => AttemptsCapped
    <2> SUFFICES ASSUME SerialLimits, NoFaults, NEW c \in Codes
                 PROVE  compared[c] <= MaxVerifyAttempts
      BY DEF AttemptsCapped
    <2>1. compared[c] <= MaxVerifyAttempts + 0 /\ MaxVerifyAttempts \in Nat
      BY OtpAssumption DEF SerialLimits, NoFaults
    <2> QED
      BY <2>1
  <1> QED
    BY <1>1, SerialVerificationsAreCapped, PTL
==============================================================================
