---------------------------- MODULE AccessProofs ----------------------------
(***************************************************************************)
(* Proofs about Access: what is taken back stays taken back, and the       *)
(* counters hold, for any number of requests, links and keys, any limits   *)
(* and any length of a window.                                             *)
(***************************************************************************)
EXTENDS Access, FiniteSetTheorems, TLAPS

Stages == {"idle", "insert", "done", "failed", "render", "count", "viewed",
           "stamp", "scope", "expire", "decide", "admitted", "refused",
           "lost", "orphaned"}

RequestStates ==
  [at : Stages, of : Links \cup Keys \cup {None},
   read : Nat \cup BOOLEAN \cup {None}, late : BOOLEAN,
   limit : Nat \cup {None}, window : Nat \cup {None}, count : Nat \cup {None}]

LinkRows == [made : BOOLEAN, revoked : BOOLEAN, expired : BOOLEAN, views : Nat]

Counters ==
  [count : Nat, ttl : (Nat \ {0}) \cup {None}, age : Nat, n : Nat]

\* Types, and what a handler knows at the stage it is at.
AccessTypeOK ==
  /\ plan \in Plans
  /\ html \in BOOLEAN
  /\ link \in [Links -> LinkRows]
  /\ revoked \subseteq Keys
  /\ bucket \in Counters
  /\ request \in [Requests -> RequestStates]
  /\ taken \subseteq Links \cup Keys

StagesFit ==
  \A r \in Requests :
    /\ request[r].at = "idle" => request[r].of = None
    /\ request[r].at = "stamp" => request[r].of \in Keys
    /\ request[r].at = "insert" => request[r].of \in Links \cup {None}
    /\ request[r].at \in {"render", "count", "viewed"} => request[r].of \in Links
    /\ request[r].at = "count" => request[r].read \in Nat
    /\ request[r].at \in {"expire", "decide"} => request[r].window # None
    /\ request[r].at \in {"idle", "insert", "render", "count", "stamp", "scope"}
         => request[r].window = None
    /\ request[r].window # None => request[r].limit # None

TypesInv == AccessTypeOK /\ StagesFit

LEMMA LimitType ==
  ASSUME NEW p \in Plans
  PROVE  LimitOf(p) \in Nat \cup {None}
  BY AccessAssumption DEF Plans, LimitOf

LEMMA TypesInitially == AccessInit => TypesInv
<1> SUFFICES ASSUME AccessInit PROVE TypesInv
  OBVIOUS
<1>1. Idle \in RequestStates
  BY DEF Idle, RequestStates, Stages
<1>2. AccessTypeOK
  BY <1>1 DEF AccessInit, AccessTypeOK, NoCounter, Counters, LinkRows
<1>3. StagesFit
  BY DEF AccessInit, StagesFit, Idle
<1> QED
  BY <1>2, <1>3 DEF TypesInv

\* A step of the handler of one request leaves the others alone.
LEMMA HandlerTypes ==
  ASSUME TypesInv, NEW r \in Requests, Handle(r)
  PROVE  TypesInv'
<1> USE DEF TypesInv, AccessTypeOK
<1>1. request[r] \in RequestStates
  OBVIOUS
<1>2. ASSUME NEW l \in Links, BeginCreateLink(r, l) PROVE TypesInv'
  BY <1>1, <1>2 DEF BeginCreateLink, StagesFit, RequestStates, Stages
<1>3. ASSUME NEW l \in Links, ReadLink(r, l) PROVE TypesInv'
  <2> DEFINE answer == IF link[l].revoked \/ link[l].expired THEN "refused"
                       ELSE "render"
             late == l \in taken
  <2>1. answer \in {"refused", "render"} /\ late \in BOOLEAN
    OBVIOUS
  <2>2. request' = [request EXCEPT ![r].at = answer, ![r].of = l,
                                   ![r].late = late]
    BY <1>3 DEF ReadLink
  <2> HIDE DEF answer, late
  <2>3. request' \in [Requests -> RequestStates]
    BY <1>1, <2>1, <2>2 DEF RequestStates, Stages
  <2>4. StagesFit'
    BY <1>1, <1>3, <2>1, <2>2 DEF ReadLink, StagesFit, RequestStates
  <2> QED
    BY <1>3, <2>3, <2>4 DEF ReadLink
<1>4. CASE BeginListLinks(r)
  <2>1. request' \in [Requests -> RequestStates]
    BY <1>1, <1>4 DEF BeginListLinks, RequestStates, Stages
  <2>2. StagesFit'
    BY <1>1, <1>4 DEF BeginListLinks, StagesFit, RequestStates
  <2> QED
    BY <1>4, <2>1, <2>2 DEF BeginListLinks
<1>5. CASE FinishShare(r)
  <2>1. link' \in [Links -> LinkRows]
    <3>1. CASE request[r].of = None
      BY <1>5, <3>1 DEF FinishShare
    <3>2. CASE request[r].of \in Links
      BY <1>5, <3>2, AccessAssumption DEF FinishShare, LinkRows
    <3> QED
      BY <1>5, <3>1, <3>2 DEF FinishShare, StagesFit
  <2> QED
    BY <1>1, <1>5, <2>1
       DEF FinishShare, Answers, StagesFit, RequestStates, Stages
<1>6. CASE ShareFails(r)
  BY <1>1, <1>6 DEF ShareFails, Answers, StagesFit, RequestStates, Stages
<1>7. CASE ReadViews(r)
  BY <1>1, <1>7 DEF ReadViews, StagesFit, RequestStates, Stages, LinkRows
<1>8. CASE RecordView(r)
  BY <1>1, <1>8 DEF RecordView, Answers, StagesFit, RequestStates, Stages, LinkRows
<1>9. ASSUME NEW k \in Keys, ReadKey(r, k) PROVE TypesInv'
  <2> DEFINE answer == IF k \in revoked THEN "refused" ELSE "stamp"
             late == k \in taken
             limit == LimitOf(plan)
  <2>1. /\ answer \in {"refused", "stamp"} /\ late \in BOOLEAN
        /\ limit \in Nat \cup {None}
    BY LimitType
  <2>2. request' = [request EXCEPT ![r].at = answer, ![r].of = k,
                           ![r].late = late, ![r].limit = limit]
    BY <1>9 DEF ReadKey
  <2> HIDE DEF answer, late, limit
  <2>3. request' \in [Requests -> RequestStates]
    BY <1>1, <2>1, <2>2 DEF RequestStates, Stages
  <2>4. StagesFit'
    BY <1>1, <1>9, <2>1, <2>2 DEF ReadKey, StagesFit, RequestStates
  <2> QED
    BY <1>9, <2>3, <2>4 DEF ReadKey
<1>10. CASE StampKey(r)
  BY <1>1, <1>10 DEF StampKey, Answers, StagesFit, RequestStates, Stages
<1>11. CASE ScopeMissing(r)
  BY <1>1, <1>11 DEF ScopeMissing, Answers, StagesFit, RequestStates, Stages
<1>12. CASE Unlimited(r)
  BY <1>1, <1>12 DEF Unlimited, Answers, StagesFit, RequestStates, Stages
<1>13. CASE Incr(r)
  BY <1>1, <1>13, AccessAssumption DEF Incr, StagesFit, RequestStates, Stages, Counters
<1>14. CASE SetExpiry(r)
  BY <1>1, <1>14, AccessAssumption DEF SetExpiry, Answers, StagesFit, RequestStates, Stages, Counters
<1>15. CASE Decide(r)
  BY <1>1, <1>15 DEF Decide, Answers, StagesFit, RequestStates, Stages
<1>16. CASE HandlerLost(r)
  BY <1>1, <1>16 DEF HandlerLost, Answers, StagesFit, RequestStates, Stages
<1> QED
  BY <1>2, <1>3, <1>4, <1>5, <1>6, <1>7, <1>8, <1>9, <1>10, <1>11, <1>12,
     <1>13, <1>14, <1>15, <1>16 DEF Handle

LEMMA TypesStep == TypesInv /\ [AccessNext]_accessVars => TypesInv'
<1> SUFFICES ASSUME TypesInv, [AccessNext]_accessVars PROVE TypesInv'
  OBVIOUS
<1>1. ASSUME NEW r \in Requests, Handle(r) PROVE TypesInv'
  BY <1>1, HandlerTypes
<1>2. CASE Owner
  <2>1. /\ UNCHANGED <<html, bucket, request>>
        /\ plan' \in Plans
        /\ revoked' \subseteq Keys /\ taken' \subseteq Links \cup Keys
    BY <1>2 DEF Owner, RevokeLink, RevokeKey, LinkExpires, PlanChanges,
                TypesInv, AccessTypeOK
  <2>2. link' \in [Links -> LinkRows]
    BY <1>2 DEF Owner, RevokeLink, RevokeKey, LinkExpires, PlanChanges,
                TypesInv, AccessTypeOK, LinkRows
  <2> QED
    BY <2>1, <2>2 DEF TypesInv, AccessTypeOK, StagesFit
<1>3. CASE Tick
  <2>1. bucket \in Counters /\ bucket.ttl \in Nat \ {0}
    BY <1>3 DEF Tick, Counters, TypesInv, AccessTypeOK
  <2>2. ASSUME bucket.ttl = 1 PROVE bucket' \in Counters
    <3>1. bucket' = NoCounter(bucket.n + 1) /\ bucket.n + 1 \in Nat
      BY <1>3, <2>1, <2>2 DEF Tick, Counters
    <3> QED
      BY <3>1 DEF NoCounter, Counters
  <2>3. ASSUME bucket.ttl # 1 PROVE bucket' \in Counters
    <3>1. bucket' = [bucket EXCEPT !.ttl = bucket.ttl - 1, !.age = bucket.age + 1]
      BY <1>3, <2>3 DEF Tick
    <3>2. bucket.ttl - 1 \in Nat \ {0} /\ bucket.age + 1 \in Nat
      BY <2>1, <2>3 DEF Counters
    <3> QED
      BY <2>1, <3>1, <3>2 DEF Counters
  <2> QED
    BY <1>3, <2>2, <2>3 DEF Tick, TypesInv, AccessTypeOK, StagesFit
<1>4. CASE UNCHANGED accessVars
  BY <1>4 DEF accessVars, TypesInv, AccessTypeOK, StagesFit
<1> QED
  BY <1>1, <1>2, <1>3, <1>4 DEF AccessNext

THEOREM AccessTypes == AccessSpec => []TypesInv
  BY TypesInitially, TypesStep, PTL DEF AccessSpec

-----------------------------------------------------------------------------
(* Revocation.                                                             *)

\* Requests only write the counters of a link.
LEMMA HandlerRevokesNothing ==
  ASSUME TypesInv, NEW r \in Requests, Handle(r)
  PROVE  /\ UNCHANGED <<revoked, taken>>
         /\ \A l \in Links : link'[l].revoked = link[l].revoked
<1>1. link \in [Links -> LinkRows] /\ StagesFit
  BY DEF TypesInv, AccessTypeOK
<1>2. CASE FinishShare(r)
  <2>1. CASE request[r].of = None
    BY <1>2, <2>1 DEF FinishShare
  <2>2. CASE request[r].of \in Links
    BY <1>1, <1>2, <2>2, AccessAssumption DEF FinishShare, LinkRows
  <2> QED
    BY <1>1, <1>2, <2>1, <2>2 DEF FinishShare, StagesFit
<1>3. CASE RecordView(r)
  BY <1>1, <1>3 DEF RecordView, StagesFit, LinkRows
<1>4. CASE ~FinishShare(r) /\ ~RecordView(r)
  BY <1>4 DEF Handle, BeginCreateLink, ReadLink, BeginListLinks, ShareFails,
     ReadViews, ReadKey, StampKey, ScopeMissing, Unlimited, Incr, SetExpiry,
     Decide, HandlerLost
<1> QED
  BY <1>2, <1>3, <1>4

\* A refused request is over, and one that came late is refused as it comes.
LEMMA HandlerRefusesLate ==
  ASSUME TypesInv, RevocationHolds, NEW r \in Requests, Handle(r)
  PROVE  \A q \in Requests : request'[q].late => request'[q].at = "refused"
<1>1. \A q \in Requests : request[q].late => request[q].at = "refused"
  BY DEF RevocationHolds
<1>2. /\ request \in [Requests -> RequestStates] /\ request[r] \in RequestStates
  BY DEF TypesInv, AccessTypeOK
<1>3. ASSUME NEW l \in Links, ReadLink(r, l)
      PROVE  request'[r].late => request'[r].at = "refused"
  BY <1>2, <1>3 DEF ReadLink, RevocationHolds, RequestStates
<1>4. ASSUME NEW k \in Keys, ReadKey(r, k)
      PROVE  request'[r].late => request'[r].at = "refused"
  BY <1>2, <1>4 DEF ReadKey, RevocationHolds, RequestStates
<1>5. ASSUME ~(\E l \in Links : ReadLink(r, l)),
             ~(\E k \in Keys : ReadKey(r, k))
      PROVE  request'[r].late => request'[r].at = "refused"
  <2>1. request[r].at # "refused" /\ request'[r].late = request[r].late
    <3>1. CASE \/ FinishShare(r) \/ ShareFails(r) \/ RecordView(r)
               \/ StampKey(r) \/ ScopeMissing(r) \/ Unlimited(r)
               \/ SetExpiry(r) \/ Decide(r) \/ HandlerLost(r)
      BY <1>2, <3>1 DEF FinishShare, ShareFails, RecordView, StampKey,
         ScopeMissing, Unlimited, SetExpiry, Decide, HandlerLost, Answers,
         RequestStates
    <3>2. CASE BeginListLinks(r) \/ ReadViews(r) \/ Incr(r)
      BY <1>2, <3>2 DEF BeginListLinks, ReadViews, Incr, RequestStates
    <3>3. ASSUME NEW l \in Links, BeginCreateLink(r, l)
          PROVE  request[r].at # "refused" /\ request'[r].late = request[r].late
      BY <1>2, <3>3 DEF BeginCreateLink, RequestStates
    <3> QED
      BY <1>5, <3>1, <3>2, <3>3 DEF Handle
  <2> QED
    BY <1>1, <2>1
<1>6. \A q \in Requests \ {r} : request'[q] = request[q]
  BY <1>2 DEF Handle, BeginCreateLink, BeginListLinks, FinishShare,
     ShareFails, ReadViews, RecordView, StampKey, ScopeMissing, Unlimited, Incr,
     SetExpiry, Decide, HandlerLost, Answers, ReadLink, ReadKey
<1> QED
  BY <1>1, <1>3, <1>4, <1>5, <1>6

LEMMA RevocationStep ==
  TypesInv /\ RevocationHolds /\ [AccessNext]_accessVars => RevocationHolds'
<1> SUFFICES ASSUME TypesInv, RevocationHolds, [AccessNext]_accessVars
             PROVE  RevocationHolds'
  OBVIOUS
<1>1. ASSUME NEW r \in Requests, Handle(r) PROVE RevocationHolds'
  BY <1>1, HandlerRevokesNothing, HandlerRefusesLate DEF RevocationHolds
<1>2. CASE Owner
  <2>1. ASSUME NEW l \in Links, RevokeLink(l) PROVE RevocationHolds'
    BY <2>1, AccessAssumption
       DEF RevokeLink, RevocationHolds, TypesInv, AccessTypeOK, LinkRows
  <2>2. ASSUME NEW l \in Links, LinkExpires(l) PROVE RevocationHolds'
    BY <2>2 DEF LinkExpires, RevocationHolds, TypesInv, AccessTypeOK, LinkRows
  <2>3. ASSUME NEW k \in Keys, RevokeKey(k) PROVE RevocationHolds'
    BY <2>3, AccessAssumption DEF RevokeKey, RevocationHolds
  <2>4. ASSUME NEW p \in Plans, PlanChanges(p) PROVE RevocationHolds'
    BY <2>4 DEF PlanChanges, RevocationHolds
  <2> QED
    BY <1>2, <2>1, <2>2, <2>3, <2>4 DEF Owner
<1>3. CASE Tick
  BY <1>3 DEF Tick, RevocationHolds
<1>4. CASE UNCHANGED accessVars
  BY <1>4 DEF accessVars, RevocationHolds
<1> QED
  BY <1>1, <1>2, <1>3, <1>4 DEF AccessNext

\* What the owner took back stays taken back, whatever requests do beside and
\* afterwards, and no request that presents it later is served.
THEOREM RevocationHoldsAlways == AccessSpec => []RevocationHolds
<1>1. AccessInit => RevocationHolds
  BY DEF AccessInit, RevocationHolds, Idle
<1> QED
  BY <1>1, RevocationStep, AccessTypes, PTL DEF AccessSpec

-----------------------------------------------------------------------------
(* The rate limit.                                                         *)

Counted(r) == request[r].window # None

\* The increments of a window have different results, none above the counter
\* of the window that is open, and who was admitted was within its limit.
CountsInv ==
  /\ \A r \in Requests : Counted(r) =>
       /\ request[r].count \in Nat \ {0}
       /\ request[r].window <= bucket.n
       /\ request[r].window = bucket.n => request[r].count <= bucket.count
       /\ request[r].at = "admitted" => request[r].count <= request[r].limit
  /\ \A r, q \in Requests :
       (r # q /\ Counted(r) /\ request[r].window = request[q].window)
         => request[r].count # request[q].count

\* The first request of a window is the one to set the time to live, which
\* the age of the counter then completes to the length of the window.
ExpiryInv ==
  /\ bucket.count = 0 => bucket.ttl = None
  /\ bucket.ttl = None => bucket.age = 0
  /\ bucket.ttl # None => bucket.age + bucket.ttl = Window
  /\ \A r \in Requests : request[r].at = "expire" =>
       /\ request[r].window = bucket.n /\ request[r].count = 1
       /\ bucket.count > 0 /\ bucket.ttl = None
  /\ (bucket.count > 0 /\ bucket.ttl = None) =>
       \E r \in Requests : /\ request[r].window = bucket.n
                           /\ request[r].at \in {"expire", "orphaned"}

RateInv == CountsInv /\ ExpiryInv

\* The steps in which nothing is counted, expires or is decided.
RateUntouched ==
  /\ bucket' = bucket
  /\ \A q \in Requests :
       /\ request'[q].window = request[q].window
       /\ request'[q].count = request[q].count
       /\ Counted(q) => request'[q].limit = request[q].limit
       /\ \/ request'[q].at = request[q].at
          \/ ~Counted(q) /\ request'[q].at \notin {"expire", "orphaned"}

LEMMA UntouchedKeepsRate ==
  ASSUME TypesInv, RateInv, RateUntouched
  PROVE  RateInv'
<1>1. \A q \in Requests : Counted(q)' <=> Counted(q)
  BY DEF Counted, RateUntouched
<1>2. CountsInv'
  BY <1>1 DEF RateInv, CountsInv, RateUntouched
<1>3. bucket.n # None
  BY AccessAssumption DEF TypesInv, AccessTypeOK, Counters
<1>4. ExpiryInv'
  BY <1>1, <1>3 DEF RateInv, ExpiryInv, RateUntouched, Counted
<1> QED
  BY <1>2, <1>4 DEF RateInv

LEMMA MostStepsLeaveRate ==
  ASSUME TypesInv, NEW r \in Requests, Handle(r),
         ~Incr(r), ~SetExpiry(r), ~Decide(r),
         ~(HandlerLost(r) /\ Counted(r))
  PROVE  RateUntouched
<1>1. /\ request \in [Requests -> RequestStates]
      /\ request[r] \in RequestStates /\ StagesFit
  BY DEF TypesInv, AccessTypeOK
<1> DEFINE Quietly ==
      /\ bucket' = bucket
      /\ ~Counted(r) /\ request'[r].window = request[r].window
      /\ request'[r].count = request[r].count
      /\ request'[r].at \notin {"expire", "orphaned"}
      /\ \A q \in Requests \ {r} : request'[q] = request[q]
<1>2. ~Counted(r) /\ bucket' = bucket
  <2>1. request[r].at \in {"idle", "insert", "render", "count", "stamp", "scope"}
          \/ (HandlerLost(r) /\ ~Counted(r))
    BY DEF Handle, BeginCreateLink, ReadLink, BeginListLinks, ReadViews,
       FinishShare, ShareFails, RecordView, ReadKey, StampKey, ScopeMissing,
       Unlimited
  <2>2. bucket' = bucket
    BY DEF Handle, BeginCreateLink, ReadLink, BeginListLinks, ReadViews,
       FinishShare, ShareFails, RecordView, ReadKey, StampKey, ScopeMissing,
       Unlimited, HandlerLost
  <2> QED
    BY <1>1, <2>1, <2>2 DEF StagesFit, Counted
<1>3. ASSUME BeginListLinks(r) \/ ReadViews(r) PROVE Quietly
  BY <1>1, <1>2, <1>3 DEF BeginListLinks, ReadViews, RequestStates
<1>4. ASSUME FinishShare(r) \/ ShareFails(r) \/ RecordView(r) PROVE Quietly
  BY <1>1, <1>2, <1>4
     DEF FinishShare, ShareFails, RecordView, Answers, RequestStates
<1>5. ASSUME NEW k \in Keys, ReadKey(r, k) PROVE Quietly
  BY <1>1, <1>2, <1>5 DEF ReadKey, RequestStates
<1>6. ASSUME StampKey(r) \/ ScopeMissing(r) \/ Unlimited(r) PROVE Quietly
  BY <1>1, <1>2, <1>6
     DEF StampKey, ScopeMissing, Unlimited, Answers, RequestStates
<1>7. ASSUME HandlerLost(r) PROVE Quietly
  <2>1. request[r].at # "expire"
    BY <1>1, <1>2 DEF StagesFit, Counted
  <2> QED
    BY <1>1, <1>2, <1>7, <2>1 DEF HandlerLost, Answers, RequestStates
<1>8. ASSUME NEW l \in Links, BeginCreateLink(r, l) PROVE Quietly
  BY <1>1, <1>2, <1>8 DEF BeginCreateLink, RequestStates
<1>9. ASSUME NEW l \in Links, ReadLink(r, l) PROVE Quietly
  BY <1>1, <1>2, <1>9 DEF ReadLink, RequestStates
<1>10. Quietly
  BY <1>3, <1>4, <1>5, <1>6, <1>7, <1>8, <1>9 DEF Handle
<1> QED
  BY <1>10 DEF RateUntouched

LEMMA IncrKeepsRate ==
  ASSUME TypesInv, RateInv, NEW r \in Requests, Incr(r)
  PROVE  RateInv'
<1>1. /\ request \in [Requests -> RequestStates]
      /\ request[r] \in RequestStates /\ bucket \in Counters
      /\ request[r].window = None /\ request[r].limit \in Nat
      /\ bucket.n # None
  BY AccessAssumption DEF TypesInv, AccessTypeOK, Incr, StagesFit, RequestStates, Counters
<1>2. /\ bucket' = [bucket EXCEPT !.count = bucket.count + 1]
      /\ bucket'.count = bucket.count + 1 /\ bucket'.n = bucket.n
      /\ bucket'.ttl = bucket.ttl /\ bucket'.age = bucket.age
      /\ bucket.count \in Nat /\ bucket.n \in Nat
  BY <1>1 DEF Incr, Counters
<1>3. /\ request'[r].window = bucket.n
      /\ request'[r].count = bucket.count + 1
      /\ request'[r].limit = request[r].limit
      /\ request'[r].at = IF bucket.count = 0 THEN "expire" ELSE "decide"
      /\ \A q \in Requests \ {r} : request'[q] = request[q]
  BY <1>1 DEF Incr, RequestStates
<1>4. CountsInv'
  <2>1. ASSUME NEW q \in Requests, Counted(q)'
        PROVE  /\ request'[q].count \in Nat \ {0}
               /\ request'[q].window <= bucket'.n
               /\ request'[q].window = bucket'.n =>
                    request'[q].count <= bucket'.count
               /\ request'[q].at = "admitted" =>
                    request'[q].count <= request'[q].limit
    <3>1. CASE q = r
      BY <1>2, <1>3, <3>1
    <3>2. CASE q # r
      BY <1>2, <1>3, <2>1, <3>2 DEF RateInv, CountsInv, Counted
    <3> QED
      BY <3>1, <3>2
  <2>2. ASSUME NEW p \in Requests, NEW q \in Requests, p # q, Counted(p)',
               request'[p].window = request'[q].window
        PROVE  request'[p].count # request'[q].count
    <3>1. ASSUME NEW o \in Requests \ {r}, request[o].window = bucket.n
          PROVE  request[o].count # bucket.count + 1
      BY <1>1, <1>2, <3>1 DEF RateInv, CountsInv, Counted
    <3>2. CASE p = r
      BY <1>3, <2>2, <3>1, <3>2
    <3>3. CASE q = r
      BY <1>3, <2>2, <3>1, <3>3
    <3>4. CASE p # r /\ q # r
      BY <1>3, <2>2, <3>4 DEF RateInv, CountsInv, Counted
    <3> QED
      BY <3>2, <3>3, <3>4
  <2> QED
    BY <2>1, <2>2 DEF CountsInv
<1>5. ExpiryInv'
  <2>1. CASE bucket.count = 0
    <3>1. \A q \in Requests \ {r} : request[q].at # "expire"
      BY <1>2, <2>1 DEF RateInv, ExpiryInv
    <3>2. bucket.ttl = None
      BY <2>1 DEF RateInv, ExpiryInv
    <3> QED
      BY <1>2, <1>3, <2>1, <3>1, <3>2 DEF RateInv, ExpiryInv
  <2>2. CASE bucket.count # 0
    <3>1. request'[r].at = "decide" /\ bucket.count > 0
      BY <1>2, <1>3, <2>2
    <3>2. \A q \in Requests : request[q].window = bucket.n => q # r
      BY <1>1
    <3> QED
      BY <1>2, <1>3, <2>2, <3>1, <3>2 DEF RateInv, ExpiryInv
  <2> QED
    BY <2>1, <2>2
<1> QED
  BY <1>4, <1>5 DEF RateInv

\* There is one request that sets the time to live.
LEMMA ExpiryKeepsRate ==
  ASSUME TypesInv, RateInv, NEW r \in Requests, SetExpiry(r)
  PROVE  RateInv'
<1>1. /\ request \in [Requests -> RequestStates]
      /\ request[r] \in RequestStates /\ bucket \in Counters
      /\ bucket.count > 0 /\ bucket.age = 0 /\ bucket.n # None
      /\ request[r].window = bucket.n /\ request[r].count = 1
  BY AccessAssumption
     DEF TypesInv, AccessTypeOK, SetExpiry, RateInv, ExpiryInv, Counters
<1>2. /\ bucket'.count = bucket.count /\ bucket'.n = bucket.n
      /\ bucket'.ttl = Window /\ bucket'.age = 0
  BY <1>1 DEF SetExpiry, Counters
<1>3. /\ \A q \in Requests : /\ request'[q].window = request[q].window
                              /\ request'[q].count = request[q].count
                              /\ request'[q].limit = request[q].limit
      /\ request'[r].at = "decide"
      /\ \A q \in Requests \ {r} : request'[q] = request[q]
  BY <1>1 DEF SetExpiry, Answers, RequestStates
<1>4. CountsInv'
  BY <1>2, <1>3 DEF RateInv, CountsInv, Counted
<1>5. \A q \in Requests \ {r} : request[q].at # "expire"
  BY <1>1 DEF RateInv, CountsInv, ExpiryInv, Counted
<1>6. ExpiryInv'
  BY <1>1, <1>2, <1>3, <1>5, AccessAssumption DEF ExpiryInv
<1> QED
  BY <1>4, <1>6 DEF RateInv

LEMMA DecisionKeepsRate ==
  ASSUME TypesInv, RateInv, NEW r \in Requests,
         Decide(r) \/ (HandlerLost(r) /\ Counted(r))
  PROVE  RateInv'
<1>1. /\ request \in [Requests -> RequestStates]
      /\ request[r] \in RequestStates /\ bucket' = bucket
  BY DEF TypesInv, AccessTypeOK, Decide, HandlerLost
<1>2. /\ \A q \in Requests : /\ request'[q].window = request[q].window
                              /\ request'[q].count = request[q].count
                              /\ request'[q].limit = request[q].limit
      /\ \A q \in Requests \ {r} : request'[q] = request[q]
  BY <1>1 DEF Decide, HandlerLost, Answers, RequestStates
<1>3. /\ request'[r].at # "expire"
      /\ request[r].at = "expire" => request'[r].at = "orphaned"
      /\ request[r].at # "orphaned"
      /\ request'[r].at = "admitted" => request[r].count <= request[r].limit
  BY <1>1 DEF Decide, HandlerLost, Answers, RequestStates
<1>4. CountsInv'
  BY <1>1, <1>2, <1>3 DEF RateInv, CountsInv, Counted
<1>5. ExpiryInv'
  BY <1>1, <1>2, <1>3 DEF RateInv, ExpiryInv
<1> QED
  BY <1>4, <1>5 DEF RateInv

LEMMA TickKeepsRate ==
  ASSUME TypesInv, RateInv, Tick
  PROVE  RateInv'
<1>1. /\ bucket \in Counters /\ bucket.ttl \in Nat \ {0}
      /\ request' = request /\ bucket.age + bucket.ttl = Window
      /\ \A r \in Requests : request[r] \in RequestStates
      /\ \A r \in Requests : request[r].at # "expire"
  BY DEF TypesInv, AccessTypeOK, Tick, Counters, RateInv, ExpiryInv
<1>2. CASE bucket.ttl = 1
  <2>1. bucket' = NoCounter(bucket.n + 1)
    BY <1>2, AccessAssumption DEF Tick
  <2>2. /\ bucket'.count = 0 /\ bucket'.ttl = None /\ bucket'.age = 0
        /\ bucket'.n = bucket.n + 1 /\ bucket.n \in Nat
    BY <1>1, <2>1 DEF NoCounter, Counters
  <2>3. \A r \in Requests : Counted(r) =>
          request[r].window \in Nat /\ request[r].window < bucket'.n
    BY <1>1, <2>2 DEF RateInv, CountsInv, Counted, RequestStates
  <2>4. CountsInv'
    BY <1>1, <2>2, <2>3 DEF RateInv, CountsInv, Counted
  <2>5. ExpiryInv'
    BY <1>1, <2>2 DEF ExpiryInv
  <2> QED
    BY <2>4, <2>5 DEF RateInv
<1>3. CASE bucket.ttl # 1
  <2>1. bucket' = [bucket EXCEPT !.ttl = bucket.ttl - 1, !.age = bucket.age + 1]
    BY <1>3 DEF Tick
  <2>2. /\ bucket'.count = bucket.count /\ bucket'.ttl = bucket.ttl - 1
        /\ bucket'.age = bucket.age + 1 /\ bucket'.n = bucket.n
        /\ bucket'.ttl \in Nat /\ bucket.age \in Nat /\ bucket.count # 0
    BY <1>1, <1>3, <2>1, AccessAssumption DEF Counters, RateInv, ExpiryInv
  <2>3. CountsInv'
    BY <1>1, <2>2 DEF RateInv, CountsInv, Counted
  <2>4. ExpiryInv'
    BY <1>1, <2>2, AccessAssumption DEF ExpiryInv
  <2> QED
    BY <2>3, <2>4 DEF RateInv
<1> QED
  BY <1>2, <1>3

LEMMA RateStep ==
  TypesInv /\ RateInv /\ [AccessNext]_accessVars => RateInv'
<1> SUFFICES ASSUME TypesInv, RateInv, [AccessNext]_accessVars
             PROVE  RateInv'
  OBVIOUS
<1>1. ASSUME NEW r \in Requests, Handle(r) PROVE RateInv'
  BY <1>1, IncrKeepsRate, ExpiryKeepsRate, DecisionKeepsRate,
     MostStepsLeaveRate, UntouchedKeepsRate
<1>2. CASE Owner \/ UNCHANGED accessVars
  BY <1>2 DEF Owner, RevokeLink, RevokeKey, LinkExpires, PlanChanges, accessVars,
              RateInv, CountsInv, ExpiryInv, Counted
<1>3. CASE Tick
  BY <1>3, TickKeepsRate
<1> QED
  BY <1>1, <1>2, <1>3 DEF AccessNext

\* The requests a window lets through have different counts up to the limit.
LEMMA RateInvBounds ==
  TypesInv /\ RateInv => RateIsBounded /\ WindowEnds
<1> SUFFICES ASSUME TypesInv, RateInv PROVE RateIsBounded /\ WindowEnds
  OBVIOUS
<1>1. RateIsBounded
  <2> SUFFICES ASSUME NEW n \in 0 .. bucket.n,
                      NEW ceiling \in {LimitOf(p) : p \in Plans} \ {None},
                      \A r \in Requests : request[r].window = n =>
                        request[r].limit <= ceiling
               PROVE  Cardinality(Admitted(n)) <= ceiling
    BY DEF RateIsBounded
  <2>1. ceiling \in Nat /\ n \in Nat /\ n # None
    BY LimitType, AccessAssumption DEF TypesInv, AccessTypeOK, Counters
  <2>2. ASSUME NEW r \in Admitted(n)
        PROVE  r \in Requests /\ request[r].count \in 1 .. ceiling
    <3>1. /\ r \in Requests /\ Counted(r) /\ request[r].window = n
          /\ request[r].at = "admitted"
      BY <2>1 DEF Admitted, Counted
    <3>2. request[r].limit \in Nat
      BY <3>1 DEF TypesInv, AccessTypeOK, StagesFit, RequestStates, Counted
    <3>3. /\ request[r].count \in Nat \ {0}
          /\ request[r].count <= request[r].limit
      BY <3>1 DEF RateInv, CountsInv
    <3>4. request[r].limit <= ceiling
      BY <3>1
    <3> QED
      BY <2>1, <3>1, <3>2, <3>3, <3>4
  <2>3. \A r, q \in Admitted(n) :
          request[r].count = request[q].count => r = q
    BY <2>1 DEF RateInv, CountsInv, Admitted, Counted
  <2> DEFINE place == [r \in Admitted(n) |-> request[r].count]
  <2>4. place \in Injection(Admitted(n), 1 .. ceiling)
    BY <2>2, <2>3 DEF Injection, IsInjective
  <2>5. IsFiniteSet(1 .. ceiling) /\ Cardinality(1 .. ceiling) = ceiling
    BY <2>1, FS_Interval
  <2>6. Cardinality(Admitted(n)) <= Cardinality(1 .. ceiling)
    BY <2>4, <2>5, FS_Injection
  <2> QED
    BY <2>5, <2>6
<1>2. WindowEnds
  <2>1. ASSUME bucket.ttl # None PROVE bucket.age < Window
    <3>1. bucket.ttl \in Nat \ {0} /\ bucket.age \in Nat
      BY <2>1 DEF TypesInv, AccessTypeOK, Counters
    <3> QED
      BY <2>1, <3>1, AccessAssumption DEF RateInv, ExpiryInv
  <2> QED
    BY <2>1 DEF WindowEnds, RateInv, ExpiryInv
<1> QED
  BY <1>1, <1>2

-----------------------------------------------------------------------------
(* The view counter.                                                       *)

Viewers(l) == {r \in Requests : request[r].at = "viewed" /\ request[r].of = l}

\* What a handler read of a counter was served before.
ViewsInv ==
  \A l \in Links :
    /\ link[l].views <= Cardinality(Viewers(l))
    /\ \A r \in Requests : (request[r].at = "count" /\ request[r].of = l) =>
         request[r].read <= Cardinality(Viewers(l))

LEMMA ViewersFinite ==
  ASSUME NEW l \in Links
  PROVE  /\ IsFiniteSet(Viewers(l)) /\ Cardinality(Viewers(l)) \in Nat
         /\ IsFiniteSet(Viewers(l)') /\ Cardinality(Viewers(l)') \in Nat
<1>1. Viewers(l) \in SUBSET Requests /\ Viewers(l)' \in SUBSET Requests
  BY DEF Viewers
<1>2. IsFiniteSet(Viewers(l)) /\ IsFiniteSet(Viewers(l)')
  BY <1>1, AccessAssumption, FS_Subset
<1> QED
  BY <1>2, FS_CardinalityType

\* A step that serves no view keeps the viewers, and reads what the row says.
LEMMA ViewsKept ==
  ASSUME TypesInv, ViewsInv,
         \A l \in Links : link'[l].views = link[l].views,
         \A q \in Requests :
           /\ (request[q].at = "viewed") <=> (request'[q].at = "viewed")
           /\ request[q].at = "viewed" => request'[q].of = request[q].of
           /\ request'[q].at = "count" =>
                \/ /\ request[q].at = "count" /\ request'[q].of = request[q].of
                   /\ request'[q].read = request[q].read
                \/ request'[q].read = link[request'[q].of].views
  PROVE  ViewsInv'
<1> SUFFICES ASSUME NEW l \in Links
             PROVE  /\ link'[l].views <= Cardinality(Viewers(l)')
                    /\ \A q \in Requests :
                         (request'[q].at = "count" /\ request'[q].of = l) =>
                           request'[q].read <= Cardinality(Viewers(l)')
  BY DEF ViewsInv
<1>1. Viewers(l)' = Viewers(l)
  BY DEF Viewers
<1> QED
  BY <1>1 DEF ViewsInv

LEMMA RecordedViewKeepsViews ==
  ASSUME TypesInv, ViewsInv, NEW r \in Requests, RecordView(r)
  PROVE  ViewsInv'
<1>1. /\ request \in [Requests -> RequestStates]
      /\ request[r] \in RequestStates /\ link \in [Links -> LinkRows]
      /\ request[r].at = "count" /\ request[r].of \in Links
      /\ request[r].read \in Nat
  BY DEF TypesInv, AccessTypeOK, StagesFit, RecordView
<1>2. /\ request'[r].at = "viewed" /\ request'[r].of = request[r].of
      /\ \A q \in Requests \ {r} : request'[q] = request[q]
  BY <1>1 DEF RecordView, Answers, RequestStates
<1>3. /\ link'[request[r].of].views = request[r].read + 1
      /\ \A l \in Links \ {request[r].of} : link'[l].views = link[l].views
  BY <1>1 DEF RecordView, LinkRows
<1> SUFFICES ASSUME NEW l \in Links
             PROVE  /\ link'[l].views <= Cardinality(Viewers(l)')
                    /\ \A q \in Requests :
                         (request'[q].at = "count" /\ request'[q].of = l) =>
                           request'[q].read <= Cardinality(Viewers(l)')
  BY DEF ViewsInv
<1>4. CASE l = request[r].of
  <2>1. Viewers(l)' = Viewers(l) \cup {r} /\ r \notin Viewers(l)
    BY <1>1, <1>2, <1>4 DEF Viewers
  <2>2. /\ Cardinality(Viewers(l)') = Cardinality(Viewers(l)) + 1
        /\ Cardinality(Viewers(l)) \in Nat
    BY <2>1, ViewersFinite, FS_AddElement
  <2>3. request[r].read <= Cardinality(Viewers(l))
    BY <1>1, <1>4 DEF ViewsInv
  <2>4. link'[l].views <= Cardinality(Viewers(l)')
    BY <1>1, <1>3, <1>4, <2>2, <2>3
  <2>5. ASSUME NEW q \in Requests, request'[q].at = "count", request'[q].of = l
        PROVE  request'[q].read <= Cardinality(Viewers(l)')
    <3>1. /\ request[q].at = "count" /\ request[q].of = l
          /\ request'[q].read = request[q].read
      BY <1>2, <2>5
    <3>2. request[q].read \in Nat /\ request[q].read <= Cardinality(Viewers(l))
      BY <3>1 DEF ViewsInv, TypesInv, StagesFit
    <3> QED
      BY <2>2, <3>1, <3>2
  <2> QED
    BY <2>4, <2>5
<1>5. CASE l # request[r].of
  <2>1. Viewers(l)' = Viewers(l)
    BY <1>1, <1>2, <1>5 DEF Viewers
  <2> QED
    BY <1>2, <1>3, <1>5, <2>1 DEF ViewsInv
<1> QED
  BY <1>4, <1>5

LEMMA ViewsStep ==
  TypesInv /\ ViewsInv /\ [AccessNext]_accessVars => ViewsInv'
<1> SUFFICES ASSUME TypesInv, ViewsInv, [AccessNext]_accessVars
             PROVE  ViewsInv'
  OBVIOUS
<1>1. /\ request \in [Requests -> RequestStates]
      /\ link \in [Links -> LinkRows] /\ StagesFit
  BY DEF TypesInv, AccessTypeOK
<1>2. ASSUME NEW r \in Requests, Handle(r), ~RecordView(r)
      PROVE  ViewsInv'
  <2>1. \A l \in Links : link'[l].views = link[l].views
    <3>1. CASE FinishShare(r)
      <4>1. CASE request[r].of = None
        BY <3>1, <4>1 DEF FinishShare
      <4>2. CASE request[r].of \in Links
        BY <1>1, <3>1, <4>2, AccessAssumption DEF FinishShare, LinkRows
      <4> QED
        BY <1>1, <3>1, <4>1, <4>2 DEF FinishShare, StagesFit
    <3>2. CASE ~FinishShare(r)
      BY <1>2, <3>2 DEF Handle, BeginCreateLink, ReadLink, BeginListLinks,
         ShareFails, ReadViews, ReadKey, StampKey, ScopeMissing, Unlimited,
         Incr, SetExpiry, Decide, HandlerLost
    <3> QED
      BY <3>1, <3>2
  <2>2. \A q \in Requests \ {r} : request'[q] = request[q]
    BY <1>1, <1>2 DEF Handle, BeginCreateLink, ReadLink, BeginListLinks,
       FinishShare, ShareFails, ReadViews, ReadKey, StampKey, ScopeMissing,
       Unlimited, Incr, SetExpiry, Decide, HandlerLost, Answers
  <2> DEFINE Served ==
        /\ request[r].at # "viewed" /\ request'[r].at # "viewed"
        /\ request'[r].at = "count" =>
             request'[r].read = link[request'[r].of].views
  <2>3. request[r] \in RequestStates
    BY <1>1
  <2>4. ASSUME NEW l \in Links, BeginCreateLink(r, l) PROVE Served
    BY <1>1, <2>3, <2>4 DEF BeginCreateLink, RequestStates
  <2>5. ASSUME NEW l \in Links, ReadLink(r, l) PROVE Served
    BY <1>1, <2>3, <2>5 DEF ReadLink, RequestStates
  <2>6. ASSUME BeginListLinks(r) PROVE Served
    BY <1>1, <2>3, <2>6 DEF BeginListLinks, RequestStates
  <2>7. ASSUME ReadViews(r) PROVE Served
    BY <1>1, <2>3, <2>7 DEF ReadViews, RequestStates
  <2>8. ASSUME NEW k \in Keys, ReadKey(r, k) PROVE Served
    BY <1>1, <2>3, <2>8 DEF ReadKey, RequestStates
  <2>9. ASSUME Incr(r) PROVE Served
    BY <1>1, <2>3, <2>9 DEF Incr, RequestStates
  <2>10. ASSUME \/ FinishShare(r) \/ ShareFails(r) \/ StampKey(r)
                \/ ScopeMissing(r) \/ Unlimited(r) \/ SetExpiry(r)
                \/ Decide(r) \/ HandlerLost(r)
         PROVE  Served
    BY <1>1, <2>3, <2>10 DEF FinishShare, ShareFails, StampKey, ScopeMissing,
       Unlimited, SetExpiry, Decide, HandlerLost, Answers, RequestStates
  <2>11. Served
    BY <1>2, <2>4, <2>5, <2>6, <2>7, <2>8, <2>9, <2>10 DEF Handle
  <2> QED
    BY <2>1, <2>2, <2>11, ViewsKept
<1>3. ASSUME NEW r \in Requests, RecordView(r) PROVE ViewsInv'
  BY <1>3, RecordedViewKeepsViews
<1>4. CASE Owner \/ Tick \/ UNCHANGED accessVars
  <2>1. request' = request
    BY <1>4 DEF Owner, RevokeLink, RevokeKey, LinkExpires, PlanChanges, Tick,
                accessVars
  <2>2. \A l \in Links : link'[l].views = link[l].views
    BY <1>1, <1>4 DEF Owner, RevokeLink, RevokeKey, LinkExpires, PlanChanges,
                      Tick, accessVars, LinkRows
  <2> QED
    BY <2>1, <2>2, ViewsKept
<1> QED
  BY <1>2, <1>3, <1>4 DEF AccessNext

-----------------------------------------------------------------------------
LEMMA CountersInitially == AccessInit => RateInv /\ ViewsInv
<1> SUFFICES ASSUME AccessInit PROVE RateInv /\ ViewsInv
  OBVIOUS
<1>1. RateInv
  BY DEF AccessInit, RateInv, CountsInv, ExpiryInv, Counted, NoCounter, Idle
<1>2. ViewsInv
  <2>1. ASSUME NEW l \in Links
        PROVE  link[l].views = 0 /\ Viewers(l) = {}
    BY <2>1 DEF AccessInit, Idle, Viewers
  <2>2. ASSUME NEW q \in Requests PROVE request[q].at # "count"
    BY <2>2 DEF AccessInit, Idle
  <2>3. Cardinality({}) = 0
    BY FS_EmptySet
  <2> HIDE DEF AccessInit
  <2>4. ASSUME NEW l \in Links PROVE link[l].views <= Cardinality(Viewers(l))
    <3>1. link[l].views = 0 /\ Cardinality(Viewers(l)) = 0
      BY <2>1, <2>3
    <3> QED
      BY <3>1
  <2> QED
    BY <2>2, <2>4 DEF ViewsInv
<1> QED
  BY <1>1, <1>2

\* In every behaviour, whatever requests interleave and whichever of them are
\* lost: no window lets through more than its largest limit, a window ends
\* unless the handler that was to end it died, and no view is counted that
\* was not served.
THEOREM CountersHoldAlways == AccessSpec => []CountersHold
<1>1. TypesInv /\ RateInv /\ ViewsInv => CountersHold
  BY RateInvBounds DEF CountersHold, ViewsInv, ViewsWereServed, Viewers
<1> QED
  BY <1>1, CountersInitially, RateStep, ViewsStep, AccessTypes, PTL
     DEF AccessSpec
=============================================================================
