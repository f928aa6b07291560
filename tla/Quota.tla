------------------------------- MODULE Quota -------------------------------
(***************************************************************************)
(* What httpserve.RateLimiter promises, without its table: a client's first *)
(* request opens a window of length Window, in which MaxRequests are        *)
(* admitted; when the window is over the client is quiet again.             *)
(***************************************************************************)
EXTENDS Naturals

CONSTANTS Clients, MaxRequests, Window   \* as in RateLimiter

VARIABLE quota   \* used 0 for a quiet client; age of the open window

Quiet == [used |-> 0, age |-> 0]

Init == quota = [c \in Clients |-> Quiet]

Admit(c) ==
  /\ quota[c].used < MaxRequests
  /\ quota' = [quota EXCEPT ![c].used = @ + 1]

Older(q) ==
  IF q.used = 0 \/ q.age + 1 >= Window THEN Quiet ELSE [q EXCEPT !.age = @ + 1]

Tick == quota' = [c \in Clients |-> Older(quota[c])]

Next == Tick \/ \E c \in Clients : Admit(c)

Spec == Init /\ [][Next]_quota
=============================================================================
