------------------------- MODULE RateLimiterProofs -------------------------
(***************************************************************************)
(* The rate limiter implements the quota it promises, for every set of      *)
(* clients, every positive quota and every positive window.                 *)
(***************************************************************************)
EXTENDS RateLimiter, TLAPS

Bucket == [count : 0 .. MaxRequests, age : 0 .. Window + 1]

LEMMA AdmitStep ==
  ASSUME PositiveLimits, TypeOK, NEW c \in Clients, Admit(c)
  PROVE  counts' = [counts EXCEPT ![c] = counts'[c]] /\ counts'[c] \in Bucket
<1> DEFINE b == counts[c]
<1>1. counts \in [Clients -> Bucket] /\ b \in Bucket
  BY DEF TypeOK, Bucket
<1>2. CASE Absent(c) \/ Over(c)
  BY <1>1, <1>2 DEF Admit, Fresh, Bucket, PositiveLimits
<1>3. CASE ~(Absent(c) \/ Over(c))
  <2>1. counts' = [counts EXCEPT ![c] = [b EXCEPT !.count = b.count + 1]]
    BY <1>1, <1>3 DEF Admit
  <2>2. b.count < MaxRequests
    BY <1>3 DEF Admit, Admits
  <2>3. [b EXCEPT !.count = b.count + 1] = [count |-> b.count + 1, age |-> b.age]
    BY <1>1 DEF Bucket
  <2>4. [count |-> b.count + 1, age |-> b.age] \in Bucket
    BY <1>1, <2>2 DEF Bucket, PositiveLimits
  <2> QED BY <1>1, <2>1, <2>3, <2>4
<1> QED BY <1>2, <1>3

LEMMA OlderType ==
  ASSUME PositiveLimits, NEW b \in Bucket
  PROVE  Older(b) \in Bucket
<1>1. CASE b.count = 0 \/ b.age > Window
  BY <1>1 DEF Older
<1>2. CASE ~(b.count = 0 \/ b.age > Window)
  <2>1. Older(b) = [count |-> b.count, age |-> b.age + 1]
    BY <1>2 DEF Older, Bucket
  <2> QED BY <1>2, <2>1 DEF Bucket, PositiveLimits
<1> QED BY <1>1, <1>2

(* Counts stay within the quota and the ages the model keeps suffice.       *)
THEOREM LimiterTypeCorrect == ASSUME PositiveLimits PROVE Spec => []TypeOK
<1>1. Init => TypeOK
  BY DEF PositiveLimits, Init, TypeOK, NoBucket
<1>2. TypeOK /\ [Next]_vars => TypeOK'
  <2> SUFFICES ASSUME TypeOK, [Next]_vars PROVE TypeOK'
    OBVIOUS
  <2>1. /\ counts \in [Clients -> Bucket]
        /\ recent \in [Clients -> [1 .. Window -> Nat]]
    BY DEF TypeOK, Bucket
  <2>2. ASSUME NEW c \in Clients, Admit(c)
        PROVE  TypeOK'
    <3>1. counts' \in [Clients -> Bucket]
      BY <2>1, <2>2, AdmitStep
    <3>2. [k \in 1 .. Window |-> recent[c][k] + 1] \in [1 .. Window -> Nat]
      <4>1. \A k \in 1 .. Window : recent[c][k] \in Nat
        BY <2>1
      <4> QED BY <4>1
    <3>3. recent' = [recent EXCEPT ![c] = [k \in 1 .. Window |-> recent[c][k] + 1]]
      BY <2>2 DEF Admit
    <3>4. recent' \in [Clients -> [1 .. Window -> Nat]]
      BY <2>1, <3>2, <3>3
    <3> QED BY <3>1, <3>4 DEF TypeOK, Bucket
  <2>3. CASE Sweep
    BY <2>1, <2>3 DEF Sweep, TypeOK, Bucket, NoBucket, PositiveLimits
  <2>4. CASE Tick
    <3>1. counts' \in [Clients -> Bucket]
      BY <2>1, <2>4, OlderType DEF Tick
    <3>2. recent' \in [Clients -> [1 .. Window -> Nat]]
      BY <2>1, <2>4 DEF Tick, PositiveLimits
    <3> QED BY <3>1, <3>2 DEF TypeOK, Bucket
  <2>5. CASE UNCHANGED vars
    BY <2>5 DEF vars, TypeOK
  <2> QED BY <2>2, <2>3, <2>4, <2>5 DEF Next
<1> QED BY <1>1, <1>2, PTL DEF Spec

----------------------------------------------------------------------------
(* What the bucket of a client says of its recent requests.  Those of the   *)
(* current window are in its count: strictly fewer of them came in the last *)
(* k ticks if the window started before those; those of the window before   *)
(* are fewer than MaxRequests.                                              *)
BucketTells(c) ==
  /\ Absent(c) \/ Over(c) => recent[c][1] = 0
  /\ \A k \in 1 .. Window :
       IF Absent(c) THEN recent[c][k] < MaxRequests
       ELSE /\ k <= counts[c].age => recent[c][k] < counts[c].count
            /\ k <= counts[c].age + 1 => recent[c][k] <= counts[c].count
            /\ recent[c][k] < counts[c].count + MaxRequests

BurstInv == \A c \in Clients : BucketTells(c)

LEMMA BurstAdmit ==
  ASSUME PositiveLimits, TypeOK, BurstInv, NEW c \in Clients, Admit(c)
  PROVE  BurstInv'
<1> DEFINE b == counts[c]
<1>1. counts \in [Clients -> Bucket] /\ recent \in [Clients -> [1 .. Window -> Nat]]
  BY DEF TypeOK, Bucket
<1>2. b.count \in Nat /\ b.age \in Nat /\ MaxRequests \in Nat \ {0} /\ Window \in Nat \ {0}
      /\ b.count <= MaxRequests /\ \A k \in 1 .. Window : recent[c][k] \in Nat
  BY <1>1 DEF Bucket, PositiveLimits
<1>3. \A k \in 1 .. Window : recent'[c][k] = recent[c][k] + 1
  BY <1>1 DEF Admit
<1>4. \A d \in Clients \ {c} : counts'[d] = counts[d] /\ recent'[d] = recent[d]
  BY <1>1, AdmitStep DEF Admit
<1>5. BucketTells(c)
  BY DEF BurstInv
<1>6. BucketTells(c)'
  <2>1. CASE Absent(c) \/ Over(c)
    <3>1. counts'[c].count = 1 /\ counts'[c].age = 0
      BY <1>1, <2>1 DEF Admit, Fresh
    <3>2. recent'[c][1] = 1
      BY <1>2, <1>3, <1>5, <2>1 DEF BucketTells
    <3>3. \A k \in 1 .. Window : recent[c][k] < MaxRequests
      BY <1>2, <1>5, <2>1 DEF BucketTells, Over
    <3> QED BY <1>2, <1>3, <3>1, <3>2, <3>3 DEF BucketTells, Absent, Over
  <2>2. CASE ~(Absent(c) \/ Over(c))
    <3>1. counts'[c].count = b.count + 1 /\ counts'[c].age = b.age
      BY <1>1, <2>2 DEF Admit, Bucket
    <3> QED BY <1>2, <1>3, <1>5, <2>2, <3>1 DEF BucketTells, Absent, Over
  <2> QED BY <2>1, <2>2
<1> QED BY <1>4, <1>6 DEF BurstInv, BucketTells, Absent, Over

LEMMA BurstTick ==
  ASSUME PositiveLimits, TypeOK, BurstInv, Tick
  PROVE  BurstInv'
<1> SUFFICES ASSUME NEW c \in Clients PROVE BucketTells(c)'
  BY DEF BurstInv
<1> DEFINE b == counts[c]
<1>1. counts \in [Clients -> Bucket] /\ recent \in [Clients -> [1 .. Window -> Nat]]
  BY DEF TypeOK, Bucket
<1>2. b.count \in Nat /\ b.age \in Nat /\ MaxRequests \in Nat \ {0} /\ Window \in Nat \ {0}
      /\ b.count <= MaxRequests /\ \A k \in 1 .. Window : recent[c][k] \in Nat
  BY <1>1 DEF Bucket, PositiveLimits
<1>3. counts'[c] = Older(b)
  BY DEF Tick
<1>4. recent'[c][1] = 0 /\ \A k \in 1 .. Window : k # 1 =>
        k - 1 \in 1 .. Window /\ recent'[c][k] = recent[c][k - 1]
  BY <1>2 DEF Tick
<1>5. BucketTells(c)
  BY DEF BurstInv
<1>6. CASE b.count = 0
  <2>1. counts'[c].count = 0
    BY <1>3, <1>6 DEF Older
  <2> QED BY <1>2, <1>4, <1>5, <1>6, <2>1 DEF BucketTells, Absent
<1>7. CASE b.count # 0
  <2>1. counts'[c].count = b.count /\ counts'[c].age = IF b.age > Window THEN b.age ELSE b.age + 1
    BY <1>1, <1>3, <1>7 DEF Older, Bucket
  <2>2. ASSUME NEW k \in 1 .. Window
        PROVE  /\ k <= counts'[c].age => recent'[c][k] < b.count
               /\ k <= counts'[c].age + 1 => recent'[c][k] <= b.count
               /\ recent'[c][k] < b.count + MaxRequests
    <3>1. CASE k = 1
      BY <1>2, <1>4, <1>7, <3>1
    <3>2. CASE k # 1
      <4>1. /\ k - 1 <= b.age => recent[c][k - 1] < b.count
            /\ k - 1 <= b.age + 1 => recent[c][k - 1] <= b.count
            /\ recent[c][k - 1] < b.count + MaxRequests
        BY <1>4, <1>5, <1>7, <3>2 DEF BucketTells, Absent
      <4> QED BY <1>2, <1>4, <2>1, <3>2, <4>1
    <3> QED BY <3>1, <3>2
  <2> QED BY <1>4, <1>7, <2>1, <2>2 DEF BucketTells, Absent
<1> QED BY <1>6, <1>7

LEMMA BurstSweep ==
  ASSUME PositiveLimits, TypeOK, BurstInv, Sweep
  PROVE  BurstInv'
<1> SUFFICES ASSUME NEW c \in Clients PROVE BucketTells(c)'
  BY DEF BurstInv
<1>1. counts \in [Clients -> Bucket] /\ recent \in [Clients -> [1 .. Window -> Nat]]
  BY DEF TypeOK, Bucket
<1>2. /\ counts[c].count \in Nat /\ counts[c].age \in Nat /\ counts[c].count <= MaxRequests
      /\ MaxRequests \in Nat \ {0} /\ Window \in Nat \ {0}
      /\ \A k \in 1 .. Window : recent[c][k] \in Nat
  BY <1>1 DEF Bucket, PositiveLimits
<1>3. recent' = recent /\ BucketTells(c)
  BY DEF Sweep, BurstInv
<1>4. CASE Stale(c)
  <2>1. counts'[c].count = 0
    BY <1>4 DEF Sweep, NoBucket
  <2>2. Over(c) /\ \A k \in 1 .. Window : k <= counts[c].age
    BY <1>2, <1>4 DEF Stale, Over
  <2>3. recent[c][1] = 0 /\ \A k \in 1 .. Window : recent[c][k] < MaxRequests
    BY <1>2, <1>3, <2>2 DEF BucketTells
  <2> QED BY <1>3, <2>1, <2>3 DEF BucketTells, Absent
<1>5. CASE ~Stale(c)
  <2>1. counts'[c] = counts[c]
    BY <1>5 DEF Sweep
  <2> QED BY <1>3, <2>1 DEF BucketTells, Absent, Over
<1> QED BY <1>4, <1>5

(* The burst that a fixed window lets through is bounded: in no Window ticks *)
(* in a row, across window boundaries and sweeps, does a client get twice    *)
(* MaxRequests admitted.                                                    *)
THEOREM LimiterBoundsBursts == ASSUME PositiveLimits PROVE Spec => []BurstBound
<1>1. Init => BurstInv
  <2> SUFFICES ASSUME Init, NEW c \in Clients PROVE BucketTells(c)
    BY DEF BurstInv
  <2>1. counts[c].count = 0 /\ \A k \in 1 .. Window : recent[c][k] = 0
    BY DEF Init, NoBucket
  <2> QED BY <2>1 DEF PositiveLimits, BucketTells, Absent
<1>2. TypeOK /\ BurstInv /\ [Next]_vars => BurstInv'
  <2> SUFFICES ASSUME TypeOK, BurstInv, [Next]_vars PROVE BurstInv'
    OBVIOUS
  <2>1. CASE UNCHANGED vars
    BY <2>1 DEF vars, BurstInv, BucketTells, Absent, Over
  <2> QED BY <2>1, BurstAdmit, BurstTick, BurstSweep DEF Next
<1>3. TypeOK /\ BurstInv => BurstBound
  <2> SUFFICES ASSUME TypeOK, BurstInv, NEW c \in Clients
               PROVE  recent[c][Window] < 2 * MaxRequests
    BY DEF BurstBound
  <2>1. counts[c] \in Bucket /\ recent[c][Window] \in Nat /\ Window \in 1 .. Window
    BY DEF TypeOK, Bucket, PositiveLimits
  <2>2. counts[c].count \in Nat /\ counts[c].count <= MaxRequests /\ MaxRequests \in Nat \ {0}
    BY <2>1 DEF Bucket, PositiveLimits
  <2> QED BY <2>1, <2>2 DEF BurstInv, BucketTells
<1> QED BY <1>1, <1>2, <1>3, LimiterTypeCorrect, PTL DEF Spec

----------------------------------------------------------------------------
quota == [c \in Clients |-> OpenWindow(counts[c])]

(* A request the table admits fits the quota of the client's open window.   *)
LEMMA AdmitRefines ==
  ASSUME PositiveLimits, TypeOK, NEW c \in Clients, Admit(c)
  PROVE  Promise!Admit(c)
<1> DEFINE b == counts[c]
<1>1. counts \in [Clients -> Bucket] /\ b \in Bucket
  BY DEF TypeOK, Bucket
<1>2. /\ OpenWindow(b).used < MaxRequests
      /\ OpenWindow(counts'[c]) = [used |-> OpenWindow(b).used + 1, age |-> OpenWindow(b).age]
  <2>1. CASE Absent(c) \/ Over(c)
    <3>1. OpenWindow(b) = [used |-> 0, age |-> 0]
      BY <2>1 DEF OpenWindow, Absent, Over
    <3>2. counts'[c] = Fresh
      BY <1>1, <2>1 DEF Admit
    <3> QED BY <3>1, <3>2 DEF OpenWindow, Fresh, PositiveLimits
  <2>2. CASE ~(Absent(c) \/ Over(c))
    <3>1. counts'[c] = [count |-> b.count + 1, age |-> b.age] /\ b.count < MaxRequests
      BY <1>1, <2>2 DEF Admit, Admits, Bucket
    <3>2. b.count \in Nat /\ b.age \in Nat /\ b.count # 0 /\ b.age < Window
      BY <1>1, <2>2 DEF Bucket, Absent, Over, PositiveLimits
    <3>3. OpenWindow(b) = [used |-> b.count, age |-> b.age]
      BY <3>2 DEF OpenWindow, PositiveLimits
    <3>4. OpenWindow(counts'[c]) = [used |-> b.count + 1, age |-> b.age]
      BY <3>1, <3>2 DEF OpenWindow, PositiveLimits
    <3> QED BY <3>1, <3>3, <3>4
  <2> QED BY <2>1, <2>2
<1>3. \A d \in Clients \ {c} : counts'[d] = counts[d]
  BY <1>1, AdmitStep
<1>4. quota[c] = OpenWindow(b) /\ quota[c] = [used |-> quota[c].used, age |-> quota[c].age]
  BY DEF quota, OpenWindow
<1>5. quota' = [quota EXCEPT ![c] = [used |-> quota[c].used + 1, age |-> quota[c].age]]
  BY <1>2, <1>3, <1>4 DEF quota
<1>6. [quota[c] EXCEPT !.used = quota[c].used + 1] = [used |-> quota[c].used + 1, age |-> quota[c].age]
  BY <1>4
<1>7. quota' = [quota EXCEPT ![c].used = quota[c].used + 1] /\ quota[c].used < MaxRequests
  BY <1>2, <1>4, <1>5, <1>6
<1> QED BY <1>7 DEF Promise!Admit, quota

(* A clock tick ages an open window as it ages its bucket.                  *)
LEMMA TickRefines ==
  ASSUME PositiveLimits, TypeOK, Tick
  PROVE  Promise!Tick
<1>1. ASSUME NEW b \in Bucket
      PROVE  OpenWindow(Older(b)) = Promise!Older(OpenWindow(b))
  <2>1. b.count \in Nat /\ b.age \in Nat /\ Window \in Nat
    BY DEF Bucket, PositiveLimits
  <2>2. CASE b.count = 0 \/ b.age >= Window
    <3>1. OpenWindow(Older(b)) = [used |-> 0, age |-> 0]
      BY <2>1, <2>2 DEF OpenWindow, Older, Bucket
    <3> QED BY <2>2, <3>1 DEF OpenWindow, Promise!Older, Promise!Quiet
  <2>3. CASE b.count # 0 /\ b.age < Window
    <3>1. Older(b) = [count |-> b.count, age |-> b.age + 1]
      BY <2>1, <2>3 DEF Older, Bucket
    <3>2. OpenWindow(b) = [used |-> b.count, age |-> b.age]
      BY <2>1, <2>3 DEF OpenWindow
    <3> QED BY <2>1, <2>3, <3>1, <3>2 DEF OpenWindow, Promise!Older, Promise!Quiet
  <2> QED BY <2>1, <2>2, <2>3
<1>2. \A c \in Clients : counts[c] \in Bucket /\ counts'[c] = Older(counts[c])
  BY DEF TypeOK, Tick, Bucket
<1>3. \A c \in Clients : OpenWindow(counts'[c]) = Promise!Older(OpenWindow(counts[c]))
  BY <1>1, <1>2
<1> QED BY <1>3 DEF Promise!Tick

(* The sweep only forgets clients whose window is over: nobody can tell.    *)
LEMMA SweepRefines ==
  ASSUME PositiveLimits, TypeOK, Sweep
  PROVE  quota' = quota
<1>1. \A c \in Clients : counts[c].age \in Nat /\ Window \in Nat
  BY DEF TypeOK, PositiveLimits
<1>2. \A c \in Clients : OpenWindow(counts'[c]) = OpenWindow(counts[c])
  BY <1>1 DEF Sweep, Stale, NoBucket, OpenWindow
<1> QED BY <1>2 DEF quota

(* The table with its lazily replaced buckets and its sweep implements the  *)
(* plain quota (see Quota): no client ever gets more than MaxRequests from  *)
(* one window, and forgetting a client never gives it a second quota.       *)
THEOREM LimiterImplementsQuota == ASSUME PositiveLimits PROVE Spec => ImplementsQuota
<1>1. Init => Promise!Init
  BY DEF Init, Promise!Init, NoBucket, OpenWindow, Promise!Quiet
<1>2. TypeOK /\ [Next]_vars => [Promise!Next]_quota
  <2> SUFFICES ASSUME TypeOK, [Next]_vars PROVE Promise!Next \/ quota' = quota
    OBVIOUS
  <2>1. CASE \E c \in Clients : Admit(c)
    BY <2>1, AdmitRefines DEF Promise!Next
  <2>2. CASE Tick
    BY <2>2, TickRefines DEF Promise!Next
  <2>3. CASE Sweep
    BY <2>3, SweepRefines
  <2>4. CASE UNCHANGED vars
    BY <2>4 DEF vars, quota
  <2> QED BY <2>1, <2>2, <2>3, <2>4 DEF Next
<1> QED BY <1>1, <1>2, LimiterTypeCorrect, PTL DEF Spec, ImplementsQuota, Promise!Spec, quota
=============================================================================
