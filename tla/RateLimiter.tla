---------------------------- MODULE RateLimiter ----------------------------
(***************************************************************************)
(* internal/httpserve, ratelimit.go: the fixed-window limiter.  allow and   *)
(* sweep are each one critical section of rl.mu.  A bucket's age stands for *)
(* the time since its windowStart, up to Window + 1: nothing in the code    *)
(* tells larger ages apart.                                                 *)
(***************************************************************************)
EXTENDS Naturals

CONSTANTS
  Clients,       \* client IPs
  MaxRequests,   \* rl.max, positive after setDefaults
  Window         \* rl.window, in clock ticks

(* Assumed by the modules that instantiate this one.                        *)
PositiveLimits == MaxRequests \in Nat \ {0} /\ Window \in Nat \ {0}

VARIABLES
  counts,   \* rl.counts; count 0 for an IP that is not in the map
  recent    \* history: recent[c][k] requests of c were admitted in the last k ticks

vars == <<counts, recent>>

(* A definition named X_Y is a mutant of X: X with a plausible bug in it,    *)
(* used only to show that the properties would notice.                      *)

NoBucket == [count |-> 0, age |-> 0]
Fresh == [count |-> 1, age |-> 0]

Init ==
  /\ counts = [c \in Clients |-> NoBucket]
  /\ recent = [c \in Clients |-> [k \in 1 .. Window |-> 0]]

Absent(c) == counts[c].count = 0

(* now - windowStart >= window                                              *)
Over_TooSoon(c) == counts[c].age + 1 >= Window
Over(c) == counts[c].age >= Window

Admits(c) == Absent(c) \/ Over(c) \/ counts[c].count < MaxRequests

(* allow, when it returns true; when it returns false nothing changes.      *)
Admit(c) ==
  /\ Admits(c)
  /\ counts' = [counts EXCEPT ![c] =
       IF Absent(c) \/ Over(c) THEN Fresh ELSE [counts[c] EXCEPT !.count = @ + 1]]
  /\ recent' = [recent EXCEPT ![c] = [k \in 1 .. Window |-> recent[c][k] + 1]]

(* sweep: forget the clients whose window started before now - window.      *)
Stale_Reversed(c) == counts[c].age < Window
Stale(c) == counts[c].age > Window

Sweep ==
  /\ counts' = [c \in Clients |-> IF Stale(c) THEN NoBucket ELSE counts[c]]
  /\ UNCHANGED recent

Older(b) ==
  IF b.count = 0 \/ b.age > Window THEN b ELSE [b EXCEPT !.age = @ + 1]

Tick ==
  /\ counts' = [c \in Clients |-> Older(counts[c])]
  /\ recent' = [c \in Clients |-> [k \in 1 .. Window |->
                  IF k = 1 THEN 0 ELSE recent[c][k - 1]]]

Next == Tick \/ Sweep \/ \E c \in Clients : Admit(c)

Spec == Init /\ [][Next]_vars

----------------------------------------------------------------------------
TypeOK ==
  /\ counts \in [Clients -> [count : 0 .. MaxRequests, age : 0 .. Window + 1]]
  /\ recent \in [Clients -> [1 .. Window -> Nat]]

(* The burst a fixed window lets through: a client gets fewer than twice    *)
(* MaxRequests admitted in any Window ticks, boundaries and sweeps included.*)
BurstBound == \A c \in Clients : recent[c][Window] < 2 * MaxRequests

(* The table, its sweep and its lazily replaced buckets implement the plain *)
(* quota: forgetting a client never gives it a second quota in one window.  *)
OpenWindow(b) ==
  IF b.count = 0 \/ b.age >= Window THEN [used |-> 0, age |-> 0]
    ELSE [used |-> b.count, age |-> b.age]

Promise == INSTANCE Quota WITH quota <- [c \in Clients |-> OpenWindow(counts[c])]

ImplementsQuota == Promise!Spec
=============================================================================
