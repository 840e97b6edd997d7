------------------------------ MODULE Merchants ------------------------------
(***************************************************************************)
(* From a signed-in user to a published listing: session tokens and role   *)
(* switching, merchant onboarding, KYC submission, addresses, creating     *)
(* listings and finding them by distance.                                  *)
(*                                                                         *)
(* A user has at most one merchant role, UNIQUE (user_id, type), so the    *)
(* role is named by its user.  A token carries the active role for its     *)
(* whole life and is never revoked; what a role may do is read again by    *)
(* each request, in queries of their own, while administrators decide.     *)
(***************************************************************************)
EXTENDS Integers, Sequences, FiniteSets, SequencesExt

CONSTANTS
    Users,
    Workers,         \* concurrent KYC and listing requests
    NoRole,          \* activeRoleId null, and a role row that is not there
    NoPoint,         \* a coordinate that is not given, a geo that is NULL
    NoLocation,      \* pickup_location_id NULL
    Addresses,       \* what POST /locations may be sent: [lat, lng]
    NidInputs,       \* what users type as NID: [digits, length]
    Categories,      \* category rows: [restricted, licence]
    Offers,          \* what a listing may be sent with: [type, stock, category]
    SessionTtl,      \* SESSION_TTL_SECONDS, in ticks
    MaxRadius,       \* MAX_RADIUS_KM
    MaxResults,      \* MAX_SEARCH_RESULTS
    MaxListings,     \* bound: listings ever created
    MaxSubmissions,  \* bound: KYC submissions of one role
    MaxDecisions     \* bound: administrators' decisions

NoStock == -1   \* stock_qty NULL
MinRadius == 1  \* MIN_RADIUS_KM

ASSUME MerchantsAssumption ==
    /\ SessionTtl \in Nat \ {0} /\ MaxRadius \in Nat /\ MaxResults \in Nat
    /\ MaxSubmissions \in Nat
    /\ NoRole \notin Users \cup {"unverified", "pending", "verified", "rejected"}
    /\ \A o \in Offers : o.category \in Categories
    /\ \A a \in Addresses : a.lat \in Int \cup {NoPoint}

VARIABLES
    tokens,       \* session tokens that have not expired: [sub, role, left]
    locations,    \* rows of location, as [lat, lng]
    role,         \* merchant row of each user: [kyc, active, pickup]
    nid,          \* app_user.nid_number: its length, 0 for NULL
    submissions,  \* rows of kyc_submission of each role
    decided,      \* submissions an administrator has answered
    decisions,    \* decisions and suspensions so far
    listings,     \* rows of listing, oldest first
    pc, job,      \* progress of each request
    eligible      \* requests whose role was verified and active at some
                  \* moment since they began

vars == <<tokens, locations, role, nid, submissions, decided, decisions,
          listings, pc, job, eligible>>
people == <<role, nid, submissions, decided, decisions>>

NoMerchant == [kyc |-> NoRole, active |-> FALSE, pickup |-> NoLocation]
NoJob == [user |-> NoRole, kyc |-> NoRole, nid |-> 0, offer |-> NoRole, pickup |-> NoLocation]

Init ==
    /\ tokens = {} /\ locations = {} /\ listings = <<>>
    /\ role = [u \in Users |-> NoMerchant]
    /\ nid = [u \in Users |-> 0]
    /\ submissions = [u \in Users |-> 0] /\ decided = [u \in Users |-> 0]
    /\ decisions = 0
    /\ pc = [w \in Workers |-> "idle"] /\ job = [w \in Workers |-> NoJob]
    /\ eligible = {}

------------------------------------------------------------------------------
(* Sessions.                                                               *)

IssueSessionToken(u, r) == [sub |-> u, role |-> r, left |-> SessionTtl]

(* verifySessionToken: what was issued and is not past its exp.            *)
ValidTokens == {t \in tokens : t.left > 0}

(* AuthGuard: a request without a token that verifies gets no further.     *)
CanActivate(t) == t \in ValidTokens

(* The end of OtpLogin: a token without a role.                            *)
Login(u) ==
    /\ tokens' = tokens \cup {IssueSessionToken(u, NoRole)}
    /\ UNCHANGED <<locations, people, listings, pc, job>>

(* findRoles: WHERE user_id = $1 AND is_active.                            *)
FindRoles(u) == {r \in {u} : role[r] # NoMerchant /\ role[r].active}

(* Mutant: any active role can be switched into.                           *)
SwitchRoleAny(t, r) ==
    /\ role[r] # NoMerchant /\ role[r].active
    /\ tokens' = tokens \cup {IssueSessionToken(t.sub, r)}
    /\ UNCHANGED <<locations, people, listings, pc, job>>

(* switchRole with a role id from the request.                             *)
SwitchRole(t, r) ==
    /\ r \in FindRoles(t.sub)
    /\ tokens' = tokens \cup {IssueSessionToken(t.sub, r)}
    /\ UNCHANGED <<locations, people, listings, pc, job>>

(* Time passes and tokens run out.                                         *)
Tick ==
    /\ tokens' = {[t EXCEPT !.left = @ - 1] : t \in {s \in tokens : s.left > 1}}
    /\ UNCHANGED <<locations, people, listings, pc, job>>

------------------------------------------------------------------------------
(* Addresses and onboarding.                                               *)

InsertLocation(address) == locations' = locations \cup {address}

(* The point of a location, NULL for a manual address.                     *)
FindById(address) == [hasGeo |-> address.lat # NoPoint, point |-> address.lat]

(* createLocation: both coordinates or neither.                            *)
CreateLocation(t, address) ==
    /\ (address.lat = NoPoint) <=> (address.lng = NoPoint)
    /\ InsertLocation(address)
    /\ UNCHANGED <<tokens, people, listings, pc, job>>

(* Mutant: nothing vouches for the pickup location.                        *)
CreateMerchantAnywhere(t, address) ==
    /\ role[t.sub] = NoMerchant
    /\ role' = [role EXCEPT ![t.sub] =
                  [kyc |-> "unverified", active |-> TRUE, pickup |-> address]]
    /\ UNCHANGED <<tokens, locations, nid, submissions, decided, decisions, listings, pc, job>>

(* ON CONFLICT (user_id, type) DO NOTHING: a user's only merchant role.    *)
CreateMerchantRole(u, address) ==
    /\ role[u] = NoMerchant
    /\ role' = [role EXCEPT ![u] =
                  [kyc |-> "unverified", active |-> TRUE, pickup |-> address]]

(* createMerchant: a user who has a role, or a pickup location the foreign *)
(* key does not know, is refused.                                          *)
CreateMerchant(t, address) ==
    /\ address \in locations
    /\ CreateMerchantRole(t.sub, address)
    /\ UNCHANGED <<tokens, locations, nid, submissions, decided, decisions, listings, pc, job>>

------------------------------------------------------------------------------
(* KYC.                                                                    *)

(* normaliseNidNumber: separators are stripped, then digits of one of the  *)
(* three live lengths remain or nothing does.                              *)
NormaliseNidNumber(typed) ==
    IF typed.digits /\ typed.length \in {10, 13, 17} THEN typed.length ELSE 0

(* Mutant: a verified role may submit again.                               *)
SubmitReverified(w, t, typed) ==
    /\ pc[w] = "idle" /\ t.role # NoRole
    /\ NormaliseNidNumber(typed) # 0
    /\ t.role \in FindRoles(t.sub)
    /\ pc' = [pc EXCEPT ![w] = "submit"]
    /\ job' = [job EXCEPT ![w] = [NoJob EXCEPT !.user = t.role, !.kyc = role[t.role].kyc,
                                               !.nid = NormaliseNidNumber(typed)]]
    /\ UNCHANGED <<tokens, locations, people, listings>>

(* KycService.submit up to its reads: an own, active, unverified role.     *)
Submit(w, t, typed) ==
    /\ pc[w] = "idle" /\ t.role # NoRole
    /\ NormaliseNidNumber(typed) # 0
    /\ t.role \in FindRoles(t.sub)
    /\ role[t.role].kyc # "verified"
    /\ pc' = [pc EXCEPT ![w] = "submit"]
    /\ job' = [job EXCEPT ![w] = [NoJob EXCEPT !.user = t.role, !.kyc = role[t.role].kyc,
                                               !.nid = NormaliseNidNumber(typed)]]
    /\ UNCHANGED <<tokens, locations, people, listings>>

Finish(w) ==
    /\ pc' = [pc EXCEPT ![w] = "idle"]
    /\ job' = [job EXCEPT ![w] = NoJob]

(* Mutant: the submission is not recorded.                                 *)
SubmitKycUnrecorded(w) ==
    LET u == job[w].user IN
    /\ pc[w] = "submit"
    /\ nid' = [nid EXCEPT ![u] = job[w].nid]
    /\ role' = [role EXCEPT ![u].kyc = "pending"]
    /\ Finish(w)
    /\ UNCHANGED <<tokens, locations, submissions, decided, decisions, listings>>

(* submitKyc: three writes of one transaction, unconditional.              *)
SubmitKyc(w) ==
    LET u == job[w].user IN
    /\ pc[w] = "submit" /\ submissions[u] < MaxSubmissions
    /\ nid' = [nid EXCEPT ![u] = job[w].nid]
    /\ role' = [role EXCEPT ![u].kyc = "pending"]
    /\ submissions' = [submissions EXCEPT ![u] = @ + 1]
    /\ Finish(w)
    /\ UNCHANGED <<tokens, locations, decided, decisions, listings>>

(* An administrator answers what is pending, or suspends or reinstates a   *)
(* role.  No endpoint does it yet.                                         *)
Decide(u, verdict) ==
    /\ role[u].kyc = "pending" /\ decisions < MaxDecisions
    /\ role' = [role EXCEPT ![u].kyc = verdict]
    /\ decided' = [decided EXCEPT ![u] = submissions[u]]
    /\ decisions' = decisions + 1
    /\ UNCHANGED <<tokens, locations, nid, submissions, listings, pc, job>>

Suspend(u) ==
    /\ role[u] # NoMerchant /\ decisions < MaxDecisions
    /\ role' = [role EXCEPT ![u].active = ~@]
    /\ decisions' = decisions + 1
    /\ UNCHANGED <<tokens, locations, nid, submissions, decided, listings, pc, job>>

------------------------------------------------------------------------------
(* Listings.                                                               *)

(* A request passes the guard with a token that names its role.            *)
CreateListing(w, t, offer) ==
    /\ pc[w] = "idle" /\ t.role # NoRole
    /\ pc' = [pc EXCEPT ![w] = "merchant"]
    /\ job' = [job EXCEPT ![w] = [NoJob EXCEPT !.user = t.role, !.offer = offer]]
    /\ UNCHANGED <<tokens, locations, people, listings>>

Reject(w) == Finish(w) /\ UNCHANGED <<tokens, locations, people, listings>>

(* Mutant: the token's role is taken to be still active.                   *)
MayPublishInactive(row) == row.kyc = "verified" /\ row.pickup # NoLocation

MayPublish(row) == row.active /\ row.kyc = "verified" /\ row.pickup # NoLocation

(* findMerchant and the three checks on it.                                *)
FindMerchant(w) ==
    LET row == role[job[w].user] IN
    /\ pc[w] = "merchant"
    /\ \/ /\ MayPublish(row)
          /\ pc' = [pc EXCEPT ![w] = "category"]
          /\ job' = [job EXCEPT ![w].pickup = row.pickup]
          /\ UNCHANGED <<tokens, locations, people, listings>>
       \/ ~MayPublish(row) /\ Reject(w)

Sellable(category) == ~category.restricted /\ ~category.licence

(* findCategory, the C8/C9 checks, and the pickup location.                *)
FindCategory(w) ==
    /\ pc[w] = "category"
    /\ \/ /\ Sellable(job[w].offer.category)
          /\ pc' = [pc EXCEPT ![w] = "insert"]
          /\ UNCHANGED <<tokens, locations, people, listings, job>>
       \/ ~Sellable(job[w].offer.category) /\ Reject(w)

(* The row of insertListing: a service slot has no stock count, and a      *)
(* point only if the address has one.                                      *)
NewListing(owner, offer, pickup) ==
    [owner |-> owner, category |-> offer.category, active |-> TRUE,
     stock |-> IF offer.type = "service_slot" THEN NoStock ELSE offer.stock,
     geo |-> FindById(pickup).point]

InsertListing(w) ==
    /\ pc[w] = "insert" /\ Len(listings) < MaxListings
    /\ listings' = Append(listings, NewListing(job[w].user, job[w].offer, job[w].pickup))
    /\ Finish(w)
    /\ UNCHANGED <<tokens, locations, people>>

------------------------------------------------------------------------------
(* Radius search over points of a line.                                    *)

Distance(i, at) == IF listings[i].geo < at THEN at - listings[i].geo ELSE listings[i].geo - at

(* Rows with a point within the radius.                                    *)
Found(at, radius) ==
    {i \in DOMAIN listings : /\ listings[i].active /\ listings[i].geo # NoPoint
                             /\ Distance(i, at) <= radius}

(* Rows at one distance come in any order; the model takes the older first.*)
Nearer(i, j, at) ==
    \/ Distance(i, at) < Distance(j, at)
    \/ Distance(i, at) = Distance(j, at) /\ i < j

(* The place of row i among the rows of S, nearest first.                  *)
Rank(i, S, at) == Cardinality({j \in S : j = i \/ Nearer(j, i, at)})

(* Mutant: the limit is taken before the rows are ordered.                 *)
SearchUnordered(at, radius) ==
    LET found == Found(at, radius)
    IN  [k \in 1 .. Min({MaxResults, Cardinality(found)}) |->
            CHOOSE i \in found : Cardinality({j \in found : j <= i}) = k]

(* searchNearby: active rows with a point within the radius, nearest       *)
(* first, at most MaxResults.                                              *)
SearchNearby(at, radius) ==
    LET found == Found(at, radius)
    IN  [k \in 1 .. Min({MaxResults, Cardinality(found)}) |->
            CHOOSE i \in found : Rank(i, found, at) = k]

------------------------------------------------------------------------------
Eligible(row) == row.active /\ row.kyc = "verified"

(* Keeps the history variable.                                             *)
Observe ==
    eligible' = {w \in Workers :
                   /\ pc'[w] # "idle"
                   /\ \/ pc[w] # "idle" /\ w \in eligible
                      \/ Eligible(role[job'[w].user])
                      \/ Eligible(role'[job'[w].user])}

Actions ==
    \/ Tick
    \/ \E u \in Users : Login(u) \/ Suspend(u) \/ \E v \in {"verified", "rejected"} : Decide(u, v)
    \/ \E t \in {s \in tokens : CanActivate(s)} :
          \/ \E r \in Users : SwitchRole(t, r)
          \/ \E a \in Addresses : CreateLocation(t, a) \/ CreateMerchant(t, a)
          \/ \E w \in Workers : \/ \E n \in NidInputs : Submit(w, t, n)
                                \/ \E o \in Offers : CreateListing(w, t, o)
    \/ \E w \in Workers :
          SubmitKyc(w) \/ FindMerchant(w) \/ FindCategory(w) \/ InsertListing(w)

Next == Actions /\ Observe

Spec == Init /\ [][Next]_vars

------------------------------------------------------------------------------
(* Every variable has its type, and a role picks up where there is a        *)
(* location.                                                               *)
TypeOK ==
    /\ tokens \subseteq [sub : Users, role : Users \cup {NoRole}, left : 1 .. SessionTtl]
    /\ locations \subseteq Addresses
    /\ \A u \in Users :
          \/ role[u] = NoMerchant
          \/ role[u] \in [kyc : {"unverified", "pending", "verified", "rejected"},
                          active : BOOLEAN, pickup : locations]
    /\ \A u \in Users : submissions[u] \in 0 .. MaxSubmissions /\ decided[u] \in 0 .. submissions[u]
    /\ pc \in [Workers -> {"idle", "submit", "merchant", "category", "insert"}]

(* K1, "merchants cannot publish listings until verified"                  *)
(* (compliance-matrix.md): a request gets to its insert only if its role   *)
(* was verified and active at some moment while it ran, however long ago   *)
(* the token that names the role was issued.                               *)
PublishedWhileEligible ==
    \A w \in Workers : pc[w] \in {"category", "insert"} => w \in eligible

(* A session only ever acts for its own user: the guard trusts the role in *)
(* the token, so no sequence of logins and switches may put another user's *)
(* role there.                                                             *)
OwnRoleOnly == \A t \in tokens : t.role \in {NoRole, t.sub}

(* A role waits for an administrator only if there is something to answer: *)
(* a submission newer than the last verdict, and the NID it came with.     *)
PendingHasSubmission ==
    \A u \in Users : role[u].kyc = "pending" => submissions[u] > decided[u] /\ nid[u] # 0

(* "Resubmitting a verified role would move it back to 'pending', which    *)
(* reads as a regression" (kyc.service.ts): it does happen, but only by a  *)
(* submission that read the role before it was verified.                   *)
DemotedOnlyByOverlap ==
    [][\A u \in Users :
          role[u].kyc = "verified" /\ role'[u].kyc = "pending" =>
             \E w \in Workers : pc[w] = "submit" /\ job[w].user = u /\ job[w].kyc # "verified"]_vars

(* Wherever and how far one searches, the answer is the nearest of the     *)
(* active listings with a point in the radius, nearest first, and drops a  *)
(* match only when it is full.                                             *)
SearchFindsNearest ==
    \A at \in {a.lat : a \in locations} \ {NoPoint}, radius \in MinRadius .. MaxRadius :
        LET s == SearchNearby(at, radius)
            matches == {i \in DOMAIN listings : listings[i].active /\ listings[i].geo # NoPoint
                                                /\ Distance(i, at) <= radius}
        IN  /\ Len(s) = Min({MaxResults, Cardinality(matches)})
            /\ \A k \in DOMAIN s : s[k] \in matches
            /\ \A k, m \in DOMAIN s : k < m => s[k] # s[m] /\ Distance(s[k], at) <= Distance(s[m], at)
            /\ \A i \in matches \ ToSet(s), k \in DOMAIN s : Distance(s[k], at) <= Distance(i, at)
==============================================================================
