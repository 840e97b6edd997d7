--------------------------- MODULE MerchantsProofs ---------------------------
(***************************************************************************)
(* Proofs about sessions, onboarding, KYC and publishing, for any number   *)
(* of users, requests, submissions and administrators' decisions.          *)
(*                                                                         *)
(* The invariant is about what a request still knows when it resumes: the  *)
(* role it acts for exists for good, a submission was read as not          *)
(* verified, and a request past findMerchant saw its role eligible.        *)
(***************************************************************************)
EXTENDS Merchants, FiniteSetTheorems, TLAPS

KycStatuses == {"unverified", "pending", "verified", "rejected"}

TokenRows == [sub : Users, role : Users \cup {NoRole}, left : 1 .. SessionTtl]

(* A merchant row whose pickup location the foreign key knows.             *)
RoleRows == [kyc : KycStatuses, active : BOOLEAN, pickup : locations]

Steps == {"idle", "submit", "merchant", "category", "insert"}

(* What the rows of user u say together.                                   *)
UserOK(u) ==
    /\ role[u] = NoMerchant \/ role[u] \in RoleRows
    /\ submissions[u] \in 0 .. MaxSubmissions
    /\ decided[u] \in 0 .. submissions[u]
    /\ role[u].kyc = "pending" => submissions[u] > decided[u] /\ nid[u] # 0

(* What request w knows.                                                   *)
RequestOK(w) ==
    /\ pc[w] # "idle" => job[w].user \in Users
    /\ pc[w] = "submit" => /\ role[job[w].user] # NoMerchant
                           /\ job[w].kyc # "verified"
                           /\ job[w].nid # 0
    /\ pc[w] \in {"category", "insert"} => w \in eligible

Shape ==
    /\ tokens \subseteq TokenRows /\ OwnRoleOnly
    /\ locations \subseteq Addresses
    /\ DOMAIN role = Users /\ DOMAIN nid = Users
    /\ DOMAIN submissions = Users /\ DOMAIN decided = Users
    /\ pc \in [Workers -> Steps] /\ DOMAIN job = Workers

(* The inductive invariant.                                                *)
MerchantsInv ==
    /\ Shape
    /\ \A u \in Users : UserOK(u)
    /\ \A w \in Workers : RequestOK(w)

------------------------------------------------------------------------------
(* Facts about rows.                                                       *)

(* A merchant row is not the absence of one.                               *)
LEMMA RowIsMerchant ==
    ASSUME NEW row \in RoleRows PROVE row # NoMerchant
  <1>1. row.kyc \in KycStatuses
    BY DEF RoleRows
  <1>2. NoMerchant.kyc = NoRole
    BY DEF NoMerchant
  <1> QED
    BY <1>1, <1>2, MerchantsAssumption DEF KycStatuses

(* A user without a merchant row has nothing pending.                      *)
LEMMA NothingPending ==
    NoMerchant.kyc # "pending" /\ NoMerchant.kyc # "verified"
  BY MerchantsAssumption DEF NoMerchant

(* What the history variable keeps: a running request stays eligible, and  *)
(* becomes so when its role is seen eligible.                              *)
LEMMA EligibleKept ==
    ASSUME Observe, NEW w \in Workers, pc'[w] # "idle",
           \/ pc[w] # "idle" /\ w \in eligible
           \/ Eligible(role[job'[w].user])
    PROVE  w \in eligible'
  BY DEF Observe

(* A request that a step does not touch keeps its part, as long as no      *)
(* merchant row disappears.                                                *)
LEMMA OtherRequest ==
    ASSUME NEW w \in Workers, RequestOK(w), Observe,
           pc'[w] = pc[w], job'[w] = job[w],
           \A u \in Users : role[u] # NoMerchant => role'[u] # NoMerchant
    PROVE  RequestOK(w)'
  BY EligibleKept DEF RequestOK

(* A step that leaves the requests alone.                                  *)
LEMMA QuietStep ==
    ASSUME MerchantsInv, Observe, UNCHANGED <<pc, job>>,
           \A u \in Users : role[u] # NoMerchant => role'[u] # NoMerchant
    PROVE  \A w \in Workers : RequestOK(w)'
  BY OtherRequest DEF MerchantsInv

(* A step of request w only.                                               *)
LEMMA OneRequest ==
    ASSUME MerchantsInv, Observe, NEW w \in Workers,
           NEW q \in Steps, pc' = [pc EXCEPT ![w] = q],
           DOMAIN job' = Workers, \A v \in Workers \ {w} : job'[v] = job[v],
           \A u \in Users : role[u] # NoMerchant => role'[u] # NoMerchant,
           RequestOK(w)'
    PROVE  /\ \A v \in Workers : RequestOK(v)'
           /\ pc' \in [Workers -> Steps] /\ DOMAIN job' = Workers
  <1>1. \A v \in Workers \ {w} : pc'[v] = pc[v] /\ job'[v] = job[v]
    BY DEF MerchantsInv, Shape
  <1>2. \A v \in Workers \ {w} : RequestOK(v)'
    BY <1>1, OtherRequest DEF MerchantsInv
  <1> QED
    BY <1>2 DEF MerchantsInv, Shape

(* Rows that a step does not touch.                                        *)
LEMMA SamePeople ==
    ASSUME MerchantsInv, UNCHANGED people, locations \subseteq locations'
    PROVE  \A u \in Users : UserOK(u)'
  BY DEF MerchantsInv, UserOK, people, RoleRows

------------------------------------------------------------------------------
(* Sessions and addresses.                                                 *)

(* A step that only changes the tokens.                                    *)
LEMMA TokenStep ==
    ASSUME MerchantsInv, Observe, UNCHANGED <<locations, people, listings, pc, job>>,
           tokens' \subseteq TokenRows, \A t \in tokens' : t.role \in {NoRole, t.sub}
    PROVE  MerchantsInv'
  <1>1. \A u \in Users : UserOK(u)'
    BY SamePeople
  <1>2. \A w \in Workers : RequestOK(w)'
    BY QuietStep DEF people
  <1>3. Shape'
    BY DEF MerchantsInv, Shape, people, OwnRoleOnly, TokenRows
  <1> QED
    BY <1>1, <1>2, <1>3 DEF MerchantsInv

LEMMA NewToken ==
    ASSUME NEW u \in Users, NEW r \in {NoRole, u}
    PROVE  /\ IssueSessionToken(u, r) \in TokenRows
           /\ IssueSessionToken(u, r).role \in {NoRole, IssueSessionToken(u, r).sub}
  BY MerchantsAssumption DEF IssueSessionToken, TokenRows

LEMMA LoginInv ==
    ASSUME MerchantsInv, Observe, NEW u \in Users, Login(u)
    PROVE  MerchantsInv'
  <1>1. tokens' = tokens \cup {IssueSessionToken(u, NoRole)}
    BY DEF Login
  <1>2. tokens' \subseteq TokenRows /\ \A t \in tokens' : t.role \in {NoRole, t.sub}
    BY <1>1, NewToken DEF MerchantsInv, Shape, OwnRoleOnly
  <1> QED
    BY <1>2, TokenStep DEF Login

LEMMA SwitchRoleInv ==
    ASSUME MerchantsInv, Observe, NEW t \in tokens, NEW r \in Users, SwitchRole(t, r)
    PROVE  MerchantsInv'
  <1>1. tokens' = tokens \cup {IssueSessionToken(t.sub, r)} /\ r = t.sub
    BY DEF SwitchRole, FindRoles
  <1>2. t.sub \in Users
    BY DEF MerchantsInv, Shape, TokenRows
  <1>3. tokens' \subseteq TokenRows /\ \A s \in tokens' : s.role \in {NoRole, s.sub}
    BY <1>1, <1>2, NewToken DEF MerchantsInv, Shape, OwnRoleOnly
  <1> QED
    BY <1>3, TokenStep DEF SwitchRole

LEMMA TickInv ==
    ASSUME MerchantsInv, Observe, Tick
    PROVE  MerchantsInv'
  <1>1. tokens' = {[t EXCEPT !.left = @ - 1] : t \in {s \in tokens : s.left > 1}}
    BY DEF Tick
  <1>2. ASSUME NEW s \in tokens, s.left > 1
        PROVE  LET older == [s EXCEPT !.left = @ - 1] IN
               older \in TokenRows /\ older.role \in {NoRole, older.sub}
    <2>1. s \in TokenRows /\ s.role \in {NoRole, s.sub}
      BY DEF MerchantsInv, Shape, OwnRoleOnly
    <2>2. s.left - 1 \in 1 .. SessionTtl
      BY <1>2, <2>1, MerchantsAssumption DEF TokenRows
    <2> QED
      BY <2>1, <2>2 DEF TokenRows
  <1>3. tokens' \subseteq TokenRows /\ \A t \in tokens' : t.role \in {NoRole, t.sub}
    BY <1>1, <1>2
  <1> QED
    BY <1>3, TokenStep DEF Tick

LEMMA CreateLocationInv ==
    ASSUME MerchantsInv, Observe, NEW t \in tokens, NEW a \in Addresses, CreateLocation(t, a)
    PROVE  MerchantsInv'
  <1>1. /\ locations' = locations \cup {a}
        /\ UNCHANGED <<tokens, people, listings, pc, job>>
    BY DEF CreateLocation, InsertLocation
  <1>2. \A u \in Users : UserOK(u)'
    BY <1>1, SamePeople
  <1>3. \A w \in Workers : RequestOK(w)'
    BY <1>1, QuietStep DEF people
  <1>4. Shape'
    BY <1>1 DEF MerchantsInv, Shape, people, OwnRoleOnly
  <1> QED
    BY <1>2, <1>3, <1>4 DEF MerchantsInv

------------------------------------------------------------------------------
(* The rows of a merchant.                                                 *)

(* A step that writes the rows of user u only.                             *)
LEMMA UserStep ==
    ASSUME MerchantsInv, NEW u \in Users, UNCHANGED <<tokens, locations>>,
           DOMAIN role' = Users, DOMAIN nid' = Users,
           DOMAIN submissions' = Users, DOMAIN decided' = Users,
           pc' \in [Workers -> Steps], DOMAIN job' = Workers,
           \A v \in Users \ {u} : /\ role'[v] = role[v] /\ nid'[v] = nid[v]
                                  /\ submissions'[v] = submissions[v]
                                  /\ decided'[v] = decided[v],
           UserOK(u)', \A w \in Workers : RequestOK(w)'
    PROVE  MerchantsInv'
  <1>1. \A v \in Users \ {u} : UserOK(v)'
    BY DEF MerchantsInv, UserOK, RoleRows
  <1>2. Shape'
    BY DEF MerchantsInv, Shape, OwnRoleOnly, TokenRows
  <1> QED
    BY <1>1, <1>2 DEF MerchantsInv

LEMMA CreateMerchantInv ==
    ASSUME MerchantsInv, Observe, NEW t \in tokens, NEW a \in Addresses, CreateMerchant(t, a)
    PROVE  MerchantsInv'
  <1> DEFINE row == [kyc |-> "unverified", active |-> TRUE, pickup |-> a]
  <1>1. PICK u \in Users : u = t.sub
    BY DEF MerchantsInv, Shape, TokenRows
  <1>2. /\ a \in locations /\ role[u] = NoMerchant
        /\ role' = [role EXCEPT ![u] = row]
        /\ UNCHANGED <<tokens, locations, nid, submissions, decided, pc, job>>
    BY <1>1 DEF CreateMerchant, CreateMerchantRole
  <1>3. row \in RoleRows /\ row.kyc # "pending"
    BY <1>2 DEF RoleRows, KycStatuses
  <1> HIDE DEF row
  <1>4. /\ DOMAIN role' = Users /\ role'[u] = row
        /\ \A v \in Users \ {u} : role'[v] = role[v]
    BY <1>2 DEF MerchantsInv, Shape
  <1>5. \A v \in Users : role[v] # NoMerchant => role'[v] # NoMerchant
    BY <1>2, <1>4
  <1>6. \A w \in Workers : RequestOK(w)'
    BY <1>2, <1>5, QuietStep
  <1>7. UserOK(u)'
    BY <1>2, <1>3, <1>4 DEF MerchantsInv, UserOK, RoleRows
  <1> QED
    BY <1>2, <1>4, <1>6, <1>7, UserStep DEF MerchantsInv, Shape

LEMMA SubmitKycInv ==
    ASSUME MerchantsInv, Observe, NEW w \in Workers, SubmitKyc(w)
    PROVE  MerchantsInv'
  <1>0. pc[w] = "submit" /\ RequestOK(w)
    BY DEF SubmitKyc, MerchantsInv
  <1>1. PICK u \in Users : u = job[w].user
    BY <1>0 DEF RequestOK
  <1>2. PICK number : number = job[w].nid
    OBVIOUS
  <1>3. /\ submissions[u] < MaxSubmissions
        /\ nid' = [nid EXCEPT ![u] = number]
        /\ role' = [role EXCEPT ![u].kyc = "pending"]
        /\ submissions' = [submissions EXCEPT ![u] = @ + 1]
        /\ pc' = [pc EXCEPT ![w] = "idle"] /\ job' = [job EXCEPT ![w] = NoJob]
        /\ UNCHANGED <<tokens, locations, decided>>
    BY <1>1, <1>2 DEF SubmitKyc, Finish
  <1>4. role[u] # NoMerchant /\ number # 0 /\ UserOK(u)
    BY <1>0, <1>1, <1>2 DEF RequestOK, MerchantsInv
  <1>5. role[u] \in RoleRows /\ submissions[u] \in 0 .. MaxSubmissions
        /\ decided[u] \in 0 .. submissions[u]
    BY <1>4 DEF UserOK
  <1>6. /\ DOMAIN role' = Users /\ DOMAIN nid' = Users /\ DOMAIN submissions' = Users
        /\ role'[u] = [role[u] EXCEPT !.kyc = "pending"]
        /\ nid'[u] = number /\ submissions'[u] = submissions[u] + 1
        /\ decided'[u] = decided[u]
        /\ \A v \in Users \ {u} : /\ role'[v] = role[v] /\ nid'[v] = nid[v]
                                  /\ submissions'[v] = submissions[v]
                                  /\ decided'[v] = decided[v]
    BY <1>3 DEF MerchantsInv, Shape
  <1>7. role'[u] \in RoleRows
    BY <1>5, <1>6 DEF RoleRows, KycStatuses
  <1>8. UserOK(u)'
    <2>1. /\ submissions[u] + 1 \in 0 .. MaxSubmissions
          /\ decided[u] \in 0 .. submissions[u] + 1
          /\ submissions[u] + 1 > decided[u]
      BY <1>3, <1>5, MerchantsAssumption
    <2> QED
      BY <2>1, <1>3, <1>4, <1>6, <1>7 DEF UserOK, RoleRows
  <1>9. \A v \in Users : role[v] # NoMerchant => role'[v] # NoMerchant
    BY <1>6, <1>7, RowIsMerchant
  <1>10. pc'[w] = "idle"
    BY <1>3 DEF MerchantsInv, Shape
  <1>11. RequestOK(w)'
    BY <1>10 DEF RequestOK
  <1>12. "idle" \in Steps
    BY DEF Steps
  <1>13. /\ \A v \in Workers : RequestOK(v)'
         /\ pc' \in [Workers -> Steps] /\ DOMAIN job' = Workers
    BY <1>3, <1>9, <1>11, <1>12, OneRequest DEF MerchantsInv, Shape
  <1>14. DOMAIN decided' = Users
    BY <1>3 DEF MerchantsInv, Shape
  <1> QED
    BY <1>3, <1>6, <1>8, <1>13, <1>14, UserStep

LEMMA DecideInv ==
    ASSUME MerchantsInv, Observe, NEW u \in Users, NEW v \in {"verified", "rejected"},
           Decide(u, v)
    PROVE  MerchantsInv'
  <1>1. /\ role[u].kyc = "pending"
        /\ role' = [role EXCEPT ![u].kyc = v]
        /\ decided' = [decided EXCEPT ![u] = submissions[u]]
        /\ UNCHANGED <<tokens, locations, nid, submissions, pc, job>>
    BY DEF Decide
  <1>2. /\ role[u] \in RoleRows /\ submissions[u] \in 0 .. MaxSubmissions
    BY <1>1, NothingPending DEF MerchantsInv, UserOK
  <1>3. /\ DOMAIN role' = Users /\ DOMAIN decided' = Users
        /\ role'[u] = [role[u] EXCEPT !.kyc = v] /\ decided'[u] = submissions[u]
        /\ \A x \in Users \ {u} : role'[x] = role[x] /\ decided'[x] = decided[x]
    BY <1>1 DEF MerchantsInv, Shape
  <1>4. role'[u] \in RoleRows /\ role'[u].kyc # "pending"
    BY <1>2, <1>3 DEF RoleRows, KycStatuses
  <1>5. UserOK(u)'
    BY <1>1, <1>2, <1>3, <1>4, MerchantsAssumption DEF UserOK, RoleRows
  <1>6. \A x \in Users : role[x] # NoMerchant => role'[x] # NoMerchant
    BY <1>3, <1>4, RowIsMerchant
  <1>7. \A w \in Workers : RequestOK(w)'
    BY <1>1, <1>6, QuietStep
  <1>8. /\ DOMAIN nid' = Users /\ DOMAIN submissions' = Users
        /\ pc' \in [Workers -> Steps] /\ DOMAIN job' = Workers
    BY <1>1 DEF MerchantsInv, Shape
  <1> QED
    BY <1>1, <1>3, <1>5, <1>7, <1>8, UserStep

LEMMA SuspendInv ==
    ASSUME MerchantsInv, Observe, NEW u \in Users, Suspend(u)
    PROVE  MerchantsInv'
  <1>1. /\ role[u] # NoMerchant
        /\ role' = [role EXCEPT ![u].active = ~@]
        /\ UNCHANGED <<tokens, locations, nid, submissions, decided, pc, job>>
    BY DEF Suspend
  <1>2. role[u] \in RoleRows /\ UserOK(u)
    BY <1>1 DEF MerchantsInv, UserOK
  <1>3. /\ DOMAIN role' = Users
        /\ role'[u] = [role[u] EXCEPT !.active = ~@]
        /\ \A x \in Users \ {u} : role'[x] = role[x]
    BY <1>1 DEF MerchantsInv, Shape
  <1>4. role'[u] \in RoleRows /\ role'[u].kyc = role[u].kyc
    BY <1>2, <1>3 DEF RoleRows
  <1>5. UserOK(u)'
    BY <1>1, <1>2, <1>4 DEF UserOK, RoleRows
  <1>6. \A x \in Users : role[x] # NoMerchant => role'[x] # NoMerchant
    BY <1>3, <1>4, RowIsMerchant
  <1>7. \A w \in Workers : RequestOK(w)'
    BY <1>1, <1>6, QuietStep
  <1>8. /\ DOMAIN nid' = Users /\ DOMAIN submissions' = Users /\ DOMAIN decided' = Users
        /\ pc' \in [Workers -> Steps] /\ DOMAIN job' = Workers
    BY <1>1 DEF MerchantsInv, Shape
  <1> QED
    BY <1>1, <1>3, <1>5, <1>7, <1>8, UserStep

------------------------------------------------------------------------------
(* Steps of a request.                                                     *)

(* A step of request w that leaves sessions, people and addresses alone.   *)
LEMMA RequestStep ==
    ASSUME MerchantsInv, Observe, NEW w \in Workers, NEW q \in Steps,
           pc' = [pc EXCEPT ![w] = q],
           DOMAIN job' = Workers, \A v \in Workers \ {w} : job'[v] = job[v],
           UNCHANGED <<tokens, locations, people>>,
           RequestOK(w)'
    PROVE  MerchantsInv'
  <1>1. \A u \in Users : role[u] # NoMerchant => role'[u] # NoMerchant
    BY DEF people
  <1>2. /\ \A v \in Workers : RequestOK(v)'
        /\ pc' \in [Workers -> Steps] /\ DOMAIN job' = Workers
    BY <1>1, OneRequest
  <1>3. \A u \in Users : UserOK(u)'
    BY SamePeople
  <1>4. Shape'
    BY <1>2 DEF MerchantsInv, Shape, people, OwnRoleOnly, TokenRows
  <1> QED
    BY <1>2, <1>3, <1>4 DEF MerchantsInv

(* A request is answered.                                                  *)
LEMMA FinishInv ==
    ASSUME MerchantsInv, Observe, NEW w \in Workers, Finish(w),
           UNCHANGED <<tokens, locations, people>>
    PROVE  MerchantsInv'
  <1>1. pc' = [pc EXCEPT ![w] = "idle"] /\ job' = [job EXCEPT ![w] = NoJob]
    BY DEF Finish
  <1>2. pc'[w] = "idle"
    BY <1>1 DEF MerchantsInv, Shape
  <1>3. RequestOK(w)'
    BY <1>2 DEF RequestOK
  <1>4. "idle" \in Steps
    BY DEF Steps
  <1> QED
    BY <1>1, <1>3, <1>4, RequestStep DEF MerchantsInv, Shape

LEMMA SubmitInv ==
    ASSUME MerchantsInv, Observe, NEW w \in Workers, NEW t \in tokens,
           NEW n \in NidInputs, Submit(w, t, n)
    PROVE  MerchantsInv'
  <1>1. PICK j : j = [NoJob EXCEPT !.user = t.role, !.kyc = role[t.role].kyc,
                                   !.nid = NormaliseNidNumber(n)]
    OBVIOUS
  <1>2. /\ pc' = [pc EXCEPT ![w] = "submit"] /\ job' = [job EXCEPT ![w] = j]
        /\ UNCHANGED <<tokens, locations, people>>
        /\ NormaliseNidNumber(n) # 0 /\ role[t.role].kyc # "verified"
        /\ t.role \in FindRoles(t.sub)
    BY <1>1 DEF Submit
  <1>3. t.role \in Users /\ role[t.role] # NoMerchant
    BY <1>2 DEF FindRoles, MerchantsInv, Shape, TokenRows
  <1>4. j.user = t.role /\ j.kyc = role[t.role].kyc /\ j.nid = NormaliseNidNumber(n)
    BY <1>1 DEF NoJob
  <1>5. pc'[w] = "submit" /\ job'[w] = j /\ role' = role
    BY <1>2 DEF MerchantsInv, Shape, people
  <1>6. RequestOK(w)'
    BY <1>2, <1>3, <1>4, <1>5 DEF RequestOK
  <1>7. "submit" \in Steps
    BY DEF Steps
  <1> QED
    BY <1>2, <1>6, <1>7, RequestStep DEF MerchantsInv, Shape

LEMMA CreateListingInv ==
    ASSUME MerchantsInv, Observe, NEW w \in Workers, NEW t \in tokens,
           NEW o \in Offers, CreateListing(w, t, o)
    PROVE  MerchantsInv'
  <1>1. PICK j : j = [NoJob EXCEPT !.user = t.role, !.offer = o]
    OBVIOUS
  <1>2. /\ pc' = [pc EXCEPT ![w] = "merchant"] /\ job' = [job EXCEPT ![w] = j]
        /\ UNCHANGED <<tokens, locations, people>> /\ t.role # NoRole
    BY <1>1 DEF CreateListing
  <1>3. t.role \in Users
    BY <1>2 DEF MerchantsInv, Shape, TokenRows
  <1>4. j.user = t.role
    BY <1>1 DEF NoJob
  <1>5. pc'[w] = "merchant" /\ job'[w] = j
    BY <1>2 DEF MerchantsInv, Shape
  <1>6. RequestOK(w)'
    BY <1>3, <1>4, <1>5 DEF RequestOK
  <1>7. "merchant" \in Steps
    BY DEF Steps
  <1> QED
    BY <1>2, <1>6, <1>7, RequestStep DEF MerchantsInv, Shape

LEMMA FindMerchantInv ==
    ASSUME MerchantsInv, Observe, NEW w \in Workers, FindMerchant(w)
    PROVE  MerchantsInv'
  <1> DEFINE row == role[job[w].user]
  <1>1. pc[w] = "merchant" /\ RequestOK(w)
    BY DEF FindMerchant, MerchantsInv
  <1>2. CASE ~MayPublish(row) /\ Reject(w)
    BY <1>2, FinishInv DEF Reject
  <1>3. CASE /\ MayPublish(row)
             /\ pc' = [pc EXCEPT ![w] = "category"]
             /\ job' = [job EXCEPT ![w].pickup = row.pickup]
             /\ UNCHANGED <<tokens, locations, people, listings>>
    <2>1. PICK j : j = [job[w] EXCEPT !.pickup = row.pickup]
      OBVIOUS
    <2>2. job' = [job EXCEPT ![w] = j]
      BY <1>3, <2>1
    <2>3. pc'[w] = "category" /\ job'[w] = j /\ j.user = job[w].user
      BY <1>3, <2>1, <2>2 DEF MerchantsInv, Shape
    <2>4. Eligible(role[job'[w].user])
      BY <1>3, <2>3 DEF MayPublish, Eligible
    <2>5. w \in eligible'
      BY <2>3, <2>4, EligibleKept
    <2>6. RequestOK(w)'
      BY <1>1, <2>3, <2>5 DEF RequestOK
    <2>7. "category" \in Steps
      BY DEF Steps
    <2> QED
      BY <1>3, <2>2, <2>6, <2>7, RequestStep DEF MerchantsInv, Shape
  <1> QED
    BY <1>2, <1>3 DEF FindMerchant

LEMMA FindCategoryInv ==
    ASSUME MerchantsInv, Observe, NEW w \in Workers, FindCategory(w)
    PROVE  MerchantsInv'
  <1>1. pc[w] = "category" /\ RequestOK(w)
    BY DEF FindCategory, MerchantsInv
  <1>2. CASE Reject(w)
    BY <1>2, FinishInv DEF Reject
  <1>3. CASE /\ pc' = [pc EXCEPT ![w] = "insert"]
             /\ UNCHANGED <<tokens, locations, people, listings, job>>
    <2>2. pc'[w] = "insert" /\ job'[w] = job[w]
      BY <1>3 DEF MerchantsInv, Shape
    <2>3. w \in eligible'
      BY <1>1, <2>2, EligibleKept DEF RequestOK
    <2>4. RequestOK(w)'
      BY <1>1, <2>2, <2>3 DEF RequestOK
    <2>5. "insert" \in Steps
      BY DEF Steps
    <2> QED
      BY <1>3, <2>4, <2>5, RequestStep DEF MerchantsInv, Shape
  <1> QED
    BY <1>2, <1>3 DEF FindCategory

LEMMA InsertListingInv ==
    ASSUME MerchantsInv, Observe, NEW w \in Workers, InsertListing(w)
    PROVE  MerchantsInv'
  BY FinishInv DEF InsertListing

------------------------------------------------------------------------------
(* Every step preserves the invariant.                                     *)
LEMMA NextInv == MerchantsInv /\ [Next]_vars => MerchantsInv'
  <1> SUFFICES ASSUME MerchantsInv, [Next]_vars PROVE MerchantsInv'
    OBVIOUS
  <1>1. CASE UNCHANGED vars
    BY <1>1 DEF vars, MerchantsInv, Shape, OwnRoleOnly, TokenRows, UserOK, RequestOK, RoleRows
  <1>2. CASE Actions /\ Observe
    BY <1>2, TickInv, LoginInv, SuspendInv, DecideInv, SwitchRoleInv, CreateLocationInv,
       CreateMerchantInv, SubmitInv, CreateListingInv, SubmitKycInv, FindMerchantInv,
       FindCategoryInv, InsertListingInv
    DEF Actions
  <1> QED
    BY <1>1, <1>2 DEF Next

(* The inductive invariant holds throughout.                               *)
THEOREM MerchantsSafety == Spec => []MerchantsInv
  <1>1. Init => MerchantsInv
    <2> SUFFICES ASSUME Init PROVE MerchantsInv
      OBVIOUS
    <2>1. Shape
      BY DEF Init, Shape, Steps, OwnRoleOnly
    <2>2. ASSUME NEW u \in Users PROVE UserOK(u)
      <3>1. role[u] = NoMerchant /\ submissions[u] = 0 /\ decided[u] = 0
        BY DEF Init
      <3> QED
        BY <3>1, NothingPending, MerchantsAssumption DEF UserOK
    <2>3. ASSUME NEW w \in Workers PROVE RequestOK(w)
      BY DEF Init, RequestOK
    <2> QED
      BY <2>1, <2>2, <2>3 DEF MerchantsInv
  <1> QED
    BY <1>1, NextInv, PTL DEF Spec

(* Every row has its type, and every merchant row's pickup location is a   *)
(* row of location.                                                        *)
THEOREM TypeCorrect == Spec => []TypeOK
  <1>1. MerchantsInv => TypeOK
    BY DEF MerchantsInv, Shape, TypeOK, UserOK, TokenRows, RoleRows, KycStatuses, Steps
  <1> QED
    BY <1>1, MerchantsSafety, PTL

(* K1: whatever administrators decide meanwhile and however old the token  *)
(* is, no request gets to insert a listing unless its role was verified    *)
(* and active at some moment while it ran.                                 *)
THEOREM PublishingIsEligible == Spec => []PublishedWhileEligible
  <1>1. MerchantsInv => PublishedWhileEligible
    BY DEF MerchantsInv, RequestOK, PublishedWhileEligible
  <1> QED
    BY <1>1, MerchantsSafety, PTL

(* No sequence of logins and role switches gives a session another user's  *)
(* role.                                                                   *)
THEOREM SessionsActForOneself == Spec => []OwnRoleOnly
  <1>1. MerchantsInv => OwnRoleOnly
    BY DEF MerchantsInv, Shape
  <1> QED
    BY <1>1, MerchantsSafety, PTL

(* A role that waits for an administrator has an unanswered submission and *)
(* an NID, whichever submissions and verdicts crossed.                     *)
THEOREM PendingIsAnswerable == Spec => []PendingHasSubmission
  <1>1. MerchantsInv => PendingHasSubmission
    BY DEF MerchantsInv, UserOK, PendingHasSubmission
  <1> QED
    BY <1>1, MerchantsSafety, PTL

(* A verified role goes back to pending only by a submission that read it  *)
(* before it was verified: the check of submit is not void, only early.    *)
THEOREM DemotionNeedsOverlap == Spec => DemotedOnlyByOverlap
  <1> DEFINE Overlap(u) == \E w \in Workers : /\ pc[w] = "submit" /\ job[w].user = u
                                              /\ job[w].kyc # "verified"
  <1>1. ASSUME MerchantsInv, [Next]_vars, NEW u \in Users,
               role[u].kyc = "verified", role'[u].kyc = "pending"
        PROVE  Overlap(u)
    <2>0. u \in DOMAIN role /\ role[u] # role'[u]
      BY <1>1 DEF MerchantsInv, Shape
    <2>1. role' # role
      BY <2>0
    <2>2. ASSUME NEW w \in Workers, SubmitKyc(w) PROVE Overlap(u)
      <3>1. pc[w] = "submit" /\ RequestOK(w) /\ job[w].user \in Users
        BY <1>1, <2>2 DEF SubmitKyc, MerchantsInv, RequestOK
      <3>2. role' = [role EXCEPT ![job[w].user].kyc = "pending"]
        BY <2>2 DEF SubmitKyc
      <3>3. job[w].user = u
        BY <2>0, <3>2
      <3> QED
        BY <3>1, <3>3 DEF RequestOK
    <2>3. ASSUME NEW v \in Users, NEW verdict \in {"verified", "rejected"}, Decide(v, verdict)
          PROVE  FALSE
      <3>1. role' = [role EXCEPT ![v].kyc = verdict] /\ role[v].kyc = "pending"
        BY <2>3 DEF Decide
      <3>2. u = v
        BY <2>0, <3>1
      <3> QED
        BY <1>1, <3>1, <3>2
    <2>4. ASSUME NEW v \in Users, Suspend(v) PROVE FALSE
      <3>1. role' = [role EXCEPT ![v].active = ~@]
        BY <2>4 DEF Suspend
      <3>2. u = v
        BY <2>0, <3>1
      <3>3. role'[u] = [role[u] EXCEPT !.active = ~@]
        BY <2>0, <3>1, <3>2
      <3>4. role[u] \in RoleRows
        BY <1>1, NothingPending DEF MerchantsInv, UserOK
      <3>5. role'[u].kyc = role[u].kyc
        BY <3>3, <3>4 DEF RoleRows
      <3> QED
        BY <1>1, <3>5
    <2>5. ASSUME NEW t \in tokens, NEW a \in Addresses, CreateMerchant(t, a) PROVE FALSE
      <3>1. /\ role' = [role EXCEPT ![t.sub] =
                          [kyc |-> "unverified", active |-> TRUE, pickup |-> a]]
            /\ role[t.sub] = NoMerchant
        BY <2>5 DEF CreateMerchant, CreateMerchantRole
      <3>2. u = t.sub
        BY <2>0, <3>1
      <3> QED
        BY <1>1, <3>1, <3>2, NothingPending
    <2>6. \/ \E w \in Workers : SubmitKyc(w)
          \/ \E v \in Users, verdict \in {"verified", "rejected"} : Decide(v, verdict)
          \/ \E v \in Users : Suspend(v)
          \/ \E t \in tokens, a \in Addresses : CreateMerchant(t, a)
      BY <1>1, <2>1 DEF Next, Actions, vars, Tick, Login, SwitchRole, CreateLocation, Submit,
                        CreateListing, FindMerchant, FindCategory, InsertListing, Reject, people
    <2> QED
      BY <2>2, <2>3, <2>4, <2>5, <2>6
  <1>2. MerchantsInv /\ [Next]_vars =>
           [\A u \in Users : role[u].kyc = "verified" /\ role'[u].kyc = "pending" =>
               \E w \in Workers : pc[w] = "submit" /\ job[w].user = u /\ job[w].kyc # "verified"]_vars
    BY <1>1
  <1> QED
    BY <1>2, MerchantsSafety, PTL DEF Spec, DemotedOnlyByOverlap

------------------------------------------------------------------------------
(* The search.  SQL sorts; here a row's place is its rank, and the proof   *)
(* is that ranks number the rows found, nearest first.                     *)

(* Rows that can be compared: with a number and a distance.                *)
Located(S, at) == IsFiniteSet(S) /\ \A i \in S : i \in Nat /\ Distance(i, at) \in Int

(* Rows are ordered by distance, and by age where distances are equal.     *)
LEMMA NearerIsAnOrder ==
    ASSUME NEW at, NEW S, Located(S, at), NEW i \in S, NEW j \in S, NEW k \in S
    PROVE  /\ ~Nearer(i, i, at)
           /\ Nearer(i, j, at) /\ Nearer(j, k, at) => Nearer(i, k, at)
           /\ i # j => Nearer(i, j, at) \/ Nearer(j, i, at)
           /\ Nearer(i, j, at) => ~Nearer(j, i, at) /\ Distance(i, at) <= Distance(j, at)
           /\ ~Nearer(i, j, at) => Distance(j, at) <= Distance(i, at)
  BY DEF Located, Nearer

(* A rank is a place among the rows, and the nearer row has the lower one. *)
LEMMA RankType ==
    ASSUME NEW at, NEW S, Located(S, at), NEW i \in S
    PROVE  Rank(i, S, at) \in 1 .. Cardinality(S)
  <1> DEFINE T == {j \in S : j = i \/ Nearer(j, i, at)}
  <1>1. T \in SUBSET S /\ T # {}
    OBVIOUS
  <1>2. IsFiniteSet(T) /\ Cardinality(T) <= Cardinality(S)
    BY <1>1, FS_Subset DEF Located
  <1>3. Cardinality(T) \in Nat /\ Cardinality(S) \in Nat /\ Cardinality(T) # 0
    BY <1>1, <1>2, FS_CardinalityType, FS_EmptySet DEF Located
  <1> QED
    BY <1>2, <1>3 DEF Rank

LEMMA RankOrders ==
    ASSUME NEW at, NEW S, Located(S, at), NEW i \in S, NEW j \in S, Nearer(i, j, at)
    PROVE  Rank(i, S, at) < Rank(j, S, at)
  <1> DEFINE T == {k \in S : k = i \/ Nearer(k, i, at)}
             U == {k \in S : k = j \/ Nearer(k, j, at)}
  <1>1. T \in SUBSET U
    BY NearerIsAnOrder
  <1>2. j \in U /\ j \notin T
    BY NearerIsAnOrder
  <1>3. U \in SUBSET S /\ IsFiniteSet(U)
    BY FS_Subset DEF Located
  <1>4. Cardinality(T) <= Cardinality(U) /\ Cardinality(T) # Cardinality(U)
    BY <1>1, <1>2, <1>3, FS_Subset
  <1>5. IsFiniteSet(T) /\ Cardinality(T) \in Nat /\ Cardinality(U) \in Nat
    BY <1>1, <1>3, FS_Subset, FS_CardinalityType
  <1>6. Rank(i, S, at) = Cardinality(T) /\ Rank(j, S, at) = Cardinality(U)
    BY DEF Rank
  <1> QED
    BY <1>4, <1>5, <1>6

(* Every place has exactly one row.                                        *)
LEMMA RanksNumberRows ==
    ASSUME NEW at, NEW S, Located(S, at)
    PROVE  /\ \A i, j \in S : Rank(i, S, at) = Rank(j, S, at) => i = j
           /\ \A k \in 1 .. Cardinality(S) : \E i \in S : Rank(i, S, at) = k
  <1> DEFINE n == Cardinality(S)
             f == [i \in S |-> Rank(i, S, at)]
  <1>1. n \in Nat /\ IsFiniteSet(S)
    BY FS_CardinalityType DEF Located
  <1>2. \A i \in S : Rank(i, S, at) \in 1 .. n
    BY RankType
  <1>3. \A i, j \in S : Rank(i, S, at) = Rank(j, S, at) => i = j
    <2> SUFFICES ASSUME NEW i \in S, NEW j \in S, Rank(i, S, at) = Rank(j, S, at), i # j
                 PROVE  FALSE
      OBVIOUS
    <2>1. Nearer(i, j, at) \/ Nearer(j, i, at)
      BY NearerIsAnOrder
    <2>2. Rank(i, S, at) < Rank(j, S, at) \/ Rank(j, S, at) < Rank(i, S, at)
      BY <2>1, RankOrders
    <2> QED
      BY <1>1, <1>2, <2>2
  <1>4. f \in Injection(S, 1 .. n)
    BY <1>2, <1>3 DEF Injection, IsInjective
  <1>5. IsFiniteSet(1 .. n) /\ Cardinality(1 .. n) = n
    BY <1>1, FS_Interval
  <1>6. f \in Surjection(S, 1 .. n)
    BY <1>4, <1>5, FS_Injection
  <1>7. \A k \in 1 .. n : \E i \in S : f[i] = k
    BY <1>6 DEF Surjection
  <1> QED
    BY <1>3, <1>7

(* LIMIT takes the smaller of two numbers.                                 *)
LEMMA MinOfTwo ==
    ASSUME NEW a \in Nat, NEW b \in Nat
    PROVE  /\ Min({a, b}) \in Nat /\ Min({a, b}) <= a /\ Min({a, b}) <= b
           /\ Min({a, b}) \in {a, b}
  <1>1. \E x \in {a, b} : \A y \in {a, b} : x <= y
    <2>1. CASE a <= b
      BY <2>1
    <2>2. CASE b <= a
      BY <2>2
    <2> QED
      BY <2>1, <2>2
  <1> QED
    BY <1>1 DEF Min

(* What the result of a search says, once the rows can be compared.        *)
LEMMA ResultIsNearest ==
    ASSUME NEW at, NEW radius, Located(Found(at, radius), at)
    PROVE  LET s == SearchNearby(at, radius)
               found == Found(at, radius)
           IN  /\ Len(s) = Min({MaxResults, Cardinality(found)})
               /\ \A k \in DOMAIN s : s[k] \in found
               /\ \A k, m \in DOMAIN s :
                     k < m => s[k] # s[m] /\ Distance(s[k], at) <= Distance(s[m], at)
               /\ \A i \in found \ ToSet(s), k \in DOMAIN s :
                     Distance(s[k], at) <= Distance(i, at)
  <1> DEFINE found == Found(at, radius)
             n == Cardinality(found)
             limit == Min({MaxResults, n})
             s == SearchNearby(at, radius)
  <1>1. n \in Nat /\ limit \in Nat /\ limit <= n
    BY MerchantsAssumption, FS_CardinalityType, MinOfTwo DEF Located
  <1>2. s = [k \in 1 .. limit |-> CHOOSE i \in found : Rank(i, found, at) = k]
    BY DEF SearchNearby
  <1>3. DOMAIN s = 1 .. limit /\ Len(s) = limit
    BY <1>1, <1>2
  <1>4. ASSUME NEW k \in DOMAIN s PROVE s[k] \in found /\ Rank(s[k], found, at) = k
    <2>1. k \in 1 .. n
      BY <1>1, <1>3, <1>4
    <2>2. \E i \in found : Rank(i, found, at) = k
      BY <2>1, RanksNumberRows
    <2>3. s[k] = CHOOSE i \in found : Rank(i, found, at) = k
      BY <1>2, <1>3, <1>4
    <2> QED
      BY <2>2, <2>3
  <1>5. ASSUME NEW k \in DOMAIN s, NEW i \in found, k < Rank(i, found, at)
        PROVE  Distance(s[k], at) <= Distance(i, at)
    <2>1. ~(Rank(i, found, at) < Rank(s[k], found, at))
      BY <1>1, <1>3, <1>4, <1>5, RankType
    <2>2. ~Nearer(i, s[k], at)
      BY <1>4, <1>5, <2>1, RankOrders
    <2> QED
      BY <1>4, <1>5, <2>2, NearerIsAnOrder
  <1>6. ASSUME NEW k \in DOMAIN s, NEW m \in DOMAIN s, k < m
        PROVE  s[k] # s[m] /\ Distance(s[k], at) <= Distance(s[m], at)
    <2>1. Rank(s[k], found, at) = k /\ Rank(s[m], found, at) = m /\ s[m] \in found
      BY <1>4, <1>6
    <2>2. k # m
      BY <1>3, <1>6
    <2> QED
      BY <1>5, <1>6, <2>1, <2>2
  <1>7. ASSUME NEW i \in found \ ToSet(s), NEW k \in DOMAIN s
        PROVE  Distance(s[k], at) <= Distance(i, at)
    <2>1. Rank(i, found, at) \in 1 .. n
      BY <1>7, RankType
    <2>2. Rank(i, found, at) \notin DOMAIN s
      <3> SUFFICES ASSUME Rank(i, found, at) \in DOMAIN s PROVE i \in ToSet(s)
        BY <1>7
      <3>1. s[Rank(i, found, at)] = i
        BY <1>4, <1>7, RanksNumberRows
      <3> QED
        BY <3>1 DEF ToSet
    <2>3. k < Rank(i, found, at)
      BY <1>1, <1>3, <1>7, <2>1, <2>2
    <2> QED
      BY <1>5, <1>7, <2>3
  <1> QED
    BY <1>3, <1>4, <1>6, <1>7

------------------------------------------------------------------------------
(* The rows there are to search: each was offered at an address.           *)
ListingRows ==
    {NewListing(u, o, a) : u \in Users, o \in Offers, a \in Addresses}

(* What a listing request carries is an offer and, past findMerchant, the  *)
(* address of a merchant.                                                  *)
CarriesOK(w) ==
    /\ "pickup" \in DOMAIN job[w]
    /\ pc[w] \in {"merchant", "category", "insert"} => job[w].offer \in Offers
    /\ pc[w] \in {"category", "insert"} => job[w].pickup \in Addresses

ListingsInv == listings \in Seq(ListingRows) /\ \A w \in Workers : CarriesOK(w)

LEMMA ListingsKept ==
    ASSUME MerchantsInv, ListingsInv, [Next]_vars
    PROVE  ListingsInv'
  <1>1. CASE UNCHANGED <<listings, pc, job>>
    BY <1>1 DEF ListingsInv, CarriesOK
  <1>2. ASSUME NEW w \in Workers, UNCHANGED listings,
               \A v \in Workers \ {w} : pc'[v] = pc[v] /\ job'[v] = job[v],
               CarriesOK(w)'
        PROVE  ListingsInv'
    BY <1>2 DEF ListingsInv, CarriesOK
  <1>3. ASSUME NEW w \in Workers, Finish(w)
        PROVE  /\ \A v \in Workers \ {w} : pc'[v] = pc[v] /\ job'[v] = job[v]
               /\ CarriesOK(w)'
    <2>1. /\ \A v \in Workers \ {w} : pc'[v] = pc[v] /\ job'[v] = job[v]
          /\ pc'[w] = "idle" /\ job'[w] = NoJob
      BY <1>3 DEF Finish, MerchantsInv, Shape
    <2>2. "pickup" \in DOMAIN NoJob
      BY DEF NoJob
    <2> QED
      BY <2>1, <2>2 DEF CarriesOK
  <1>4. ASSUME NEW w \in Workers, NEW t \in tokens, NEW m \in NidInputs, Submit(w, t, m)
        PROVE  ListingsInv'
    <2>1. /\ \A v \in Workers \ {w} : pc'[v] = pc[v] /\ job'[v] = job[v]
          /\ pc'[w] = "submit" /\ UNCHANGED listings
          /\ job'[w] = [NoJob EXCEPT !.user = t.role, !.kyc = role[t.role].kyc,
                                     !.nid = NormaliseNidNumber(m)]
      BY <1>4 DEF Submit, MerchantsInv, Shape
    <2>2. "pickup" \in DOMAIN job'[w]
      BY <2>1 DEF NoJob
    <2> QED
      BY <1>2, <2>1, <2>2 DEF CarriesOK
  <1>5. ASSUME NEW w \in Workers, NEW t \in tokens, NEW o \in Offers, CreateListing(w, t, o)
        PROVE  ListingsInv'
    <2>1. /\ \A v \in Workers \ {w} : pc'[v] = pc[v] /\ job'[v] = job[v]
          /\ pc'[w] = "merchant" /\ UNCHANGED listings
          /\ job'[w] = [NoJob EXCEPT !.user = t.role, !.offer = o]
      BY <1>5 DEF CreateListing, MerchantsInv, Shape
    <2>2. job'[w].offer = o /\ "pickup" \in DOMAIN job'[w]
      BY <2>1 DEF NoJob
    <2> QED
      BY <1>2, <2>1, <2>2 DEF CarriesOK
  <1>6. ASSUME NEW w \in Workers, FindMerchant(w) PROVE ListingsInv'
    <2> DEFINE row == role[job[w].user]
    <2>1. pc[w] = "merchant" /\ job[w].user \in Users
      BY <1>6 DEF FindMerchant, MerchantsInv, RequestOK
    <2>2. CASE Reject(w)
      BY <1>2, <1>3, <2>2 DEF Reject
    <2>3. CASE /\ MayPublish(row)
               /\ pc' = [pc EXCEPT ![w] = "category"]
               /\ job' = [job EXCEPT ![w].pickup = row.pickup]
               /\ UNCHANGED listings
      <3>1. row \in RoleRows
        BY <2>1, <2>3, NothingPending DEF MayPublish, MerchantsInv, UserOK
      <3>2. row.pickup \in Addresses
        BY <3>1 DEF RoleRows, MerchantsInv, Shape
      <3>3. /\ \A v \in Workers \ {w} : pc'[v] = pc[v] /\ job'[v] = job[v]
            /\ pc'[w] = "category" /\ job'[w] = [job[w] EXCEPT !.pickup = row.pickup]
        BY <2>3 DEF MerchantsInv, Shape
      <3>4. job'[w].offer = job[w].offer /\ job[w].offer \in Offers
        BY <2>1, <3>3 DEF ListingsInv, CarriesOK
      <3>5. "pickup" \in DOMAIN job'[w] /\ job'[w].pickup = row.pickup
        BY <3>3 DEF ListingsInv, CarriesOK
      <3> QED
        BY <1>2, <2>3, <3>2, <3>3, <3>4, <3>5 DEF CarriesOK
    <2> QED
      BY <1>6, <2>2, <2>3 DEF FindMerchant
  <1>7. ASSUME NEW w \in Workers, FindCategory(w) PROVE ListingsInv'
    <2>1. CASE Reject(w)
      BY <1>2, <1>3, <2>1 DEF Reject
    <2>2. CASE pc' = [pc EXCEPT ![w] = "insert"] /\ UNCHANGED <<listings, job>>
      <3>1. pc[w] = "category" /\ CarriesOK(w)
        BY <1>7 DEF FindCategory, ListingsInv
      <3>2. /\ \A v \in Workers \ {w} : pc'[v] = pc[v] /\ job'[v] = job[v]
            /\ pc'[w] = "insert" /\ job'[w] = job[w]
        BY <2>2 DEF MerchantsInv, Shape
      <3> QED
        BY <1>2, <2>2, <3>1, <3>2 DEF CarriesOK
    <2> QED
      BY <1>7, <2>1, <2>2 DEF FindCategory
  <1>8. ASSUME NEW w \in Workers, InsertListing(w) PROVE ListingsInv'
    <2> DEFINE row == NewListing(job[w].user, job[w].offer, job[w].pickup)
    <2>1. pc[w] = "insert" /\ job[w].user \in Users /\ CarriesOK(w)
      BY <1>8 DEF InsertListing, ListingsInv, MerchantsInv, RequestOK
    <2>2. row \in ListingRows
      BY <2>1 DEF CarriesOK, ListingRows
    <2>3. listings' = Append(listings, row) /\ Finish(w)
      BY <1>8 DEF InsertListing
    <2>4. listings' \in Seq(ListingRows)
      BY <2>2, <2>3 DEF ListingsInv
    <2> QED
      BY <1>3, <2>3, <2>4 DEF ListingsInv, CarriesOK
  <1>9. ASSUME NEW w \in Workers, SubmitKyc(w) PROVE ListingsInv'
    BY <1>2, <1>3, <1>9 DEF SubmitKyc
  <1> QED
    BY <1>1, <1>4, <1>5, <1>6, <1>7, <1>8, <1>9
    DEF Next, Actions, vars, Tick, Login, Suspend, Decide, SwitchRole, CreateLocation,
        CreateMerchant

(* Every search, from wherever and as far as one asks, answers with the    *)
(* nearest active listings in the radius, nearest first, and leaves one    *)
(* out only because the answer is full.                                    *)
THEOREM SearchesFindNearest == Spec => []SearchFindsNearest
  <1>1. Init => ListingsInv
    <2> SUFFICES ASSUME Init PROVE ListingsInv
      OBVIOUS
    <2>1. listings = <<>> /\ \A w \in Workers : pc[w] = "idle" /\ job[w] = NoJob
      BY DEF Init
    <2>2. "pickup" \in DOMAIN NoJob
      BY DEF NoJob
    <2> QED
      BY <2>1, <2>2 DEF ListingsInv, CarriesOK
  <1>2. ASSUME MerchantsInv, ListingsInv PROVE SearchFindsNearest
    <2> SUFFICES ASSUME NEW at \in {a.lat : a \in locations} \ {NoPoint},
                        NEW radius \in MinRadius .. MaxRadius
                 PROVE  LET s == SearchNearby(at, radius)
                            matches == Found(at, radius)
                        IN  /\ Len(s) = Min({MaxResults, Cardinality(matches)})
                            /\ \A k \in DOMAIN s : s[k] \in matches
                            /\ \A k, m \in DOMAIN s :
                                  k < m => s[k] # s[m] /\ Distance(s[k], at) <= Distance(s[m], at)
                            /\ \A i \in matches \ ToSet(s), k \in DOMAIN s :
                                  Distance(s[k], at) <= Distance(i, at)
      BY DEF SearchFindsNearest, Found
    <2>1. at \in Int
      BY <1>2, MerchantsAssumption DEF MerchantsInv, Shape
    <2>2. DOMAIN listings = 1 .. Len(listings) /\ Len(listings) \in Nat
      BY <1>2 DEF ListingsInv
    <2>3. ASSUME NEW i \in Found(at, radius) PROVE i \in Nat /\ Distance(i, at) \in Int
      <3>1. i \in DOMAIN listings /\ listings[i].geo # NoPoint
        BY <2>3 DEF Found
      <3>2. listings[i] \in ListingRows
        BY <1>2, <2>2, <3>1 DEF ListingsInv
      <3>3. PICK u \in Users, o \in Offers, a \in Addresses : listings[i] = NewListing(u, o, a)
        BY <3>2 DEF ListingRows
      <3>4. listings[i].geo = a.lat
        BY <3>3 DEF NewListing, FindById
      <3>5. listings[i].geo \in Int
        BY <3>1, <3>4, MerchantsAssumption
      <3> QED
        BY <2>1, <2>2, <3>1, <3>5 DEF Distance
    <2>4. IsFiniteSet(Found(at, radius))
      <3>1. IsFiniteSet(1 .. Len(listings))
        BY <2>2, FS_Interval
      <3>2. Found(at, radius) \in SUBSET (1 .. Len(listings))
        BY <2>2 DEF Found
      <3> QED
        BY <3>1, <3>2, FS_Subset
    <2> QED
      BY <2>3, <2>4, ResultIsNearest DEF Located
  <1>3. MerchantsInv /\ ListingsInv /\ [Next]_vars => ListingsInv'
    BY ListingsKept
  <1> QED
    BY <1>1, <1>2, <1>3, MerchantsSafety, PTL DEF Spec
==============================================================================
