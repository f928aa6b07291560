----------------------------- MODULE VodProofs -----------------------------
(***************************************************************************)
(* Proofs about Vod, for any playlists, requests, ads and options.          *)
(***************************************************************************)
EXTENDS Vod, Induction, FiniteSetTheorems, TLAPS

(* What a splice does, apart from where its breaks come from: for each      *)
(* break, content goes on up to segment before, then the flight plays, then *)
(* content goes on at segment after.                                        *)
Marked(s) == s.disc \/ s.id > 1

GoodFlight(flight) ==
  /\ flight \in Seq(Segments)
  /\ \A i \in DOMAIN flight : flight[i].ad /\ Marked(flight[i])
  /\ flight # <<>> => flight[1].disc

GoodPlan(plan, length) ==
  /\ \A j \in DOMAIN plan :
       /\ plan[j].before \in Nat /\ plan[j].after \in Nat
       /\ plan[j].before < plan[j].after /\ plan[j].after <= length /\ 1 < plan[j].after
       /\ GoodFlight(plan[j].flight)
  /\ DOMAIN plan = 1 .. Len(plan) /\ Len(plan) \in Nat
  /\ \A j \in 1 .. Len(plan) - 1 : plan[j].after <= plan[j + 1].before

(* Flight j is at p .. q, between the segments that it should be between;   *)
(* the one behind it may still have to come, and is then at the cursor.     *)
Placed(plan, segs, cursor, j, p, q) ==
  /\ \A x \in p .. q : segs[x].ad /\ segs[x] = plan[j].flight[x - p + 1]
  /\ Len(plan[j].flight) = q - p + 1
  /\ IF p = 1 THEN plan[j].before = 0
              ELSE ~segs[p - 1].ad /\ segs[p - 1].id = plan[j].before
  /\ IF q = Len(segs) THEN cursor = plan[j].after
                      ELSE ~segs[q + 1].ad /\ segs[q + 1].id = plan[j].after

InOrder(segs, cursor) ==
  /\ \A i \in DOMAIN segs : ~segs[i].ad => segs[i].id \in 1 .. cursor - 1
  /\ \A i, j \in DOMAIN segs : i < j /\ ~segs[i].ad /\ ~segs[j].ad => segs[i].id < segs[j].id

Complete(plan, segs, cursor) ==
  \A x \in 1 .. cursor - 1 :
    \/ \E i \in DOMAIN segs : ~segs[i].ad /\ segs[i].id = x
    \/ \E j \in DOMAIN plan : plan[j].before < x /\ x < plan[j].after

SwitchMarked(segs) ==
  \A i \in DOMAIN segs :
    \/ segs[i].disc
    \/ IF segs[i].ad THEN segs[i].id > 1 ELSE i = 1 \/ ~segs[i - 1].ad

AdsPlaced(plan, segs, cursor, k) ==
  \A i \in DOMAIN segs : segs[i].ad =>
    \E j \in 1 .. k, p \in 1 .. i, q \in i .. Len(segs) : Placed(plan, segs, cursor, j, p, q)

SplicedUpTo(plan, segs, cursor, k) ==
  /\ segs \in Seq(Segments) /\ cursor \in Nat \ {0}
  /\ InOrder(segs, cursor) /\ Complete(plan, segs, cursor) /\ SwitchMarked(segs)
  /\ AdsPlaced(plan, segs, cursor, k)

(* A run of content, from the cursor.                                       *)
Run(span, cursor) ==
  /\ span \in Seq(Segments)
  /\ \A i \in DOMAIN span : ~span[i].ad /\ span[i].id = cursor + i - 1

----------------------------------------------------------------------------
(* Content that goes on at the cursor.                                      *)
LEMMA SpanInOrder ==
  ASSUME NEW segs \in Seq(Segments), NEW cursor \in Nat \ {0}, NEW span, Run(span, cursor),
         InOrder(segs, cursor)
  PROVE  InOrder(segs \o span, cursor + Len(span))
<1> DEFINE all == segs \o span
           N == Len(segs)
           M == Len(span)
<1>1. /\ span \in Seq(Segments)
      /\ \A i \in DOMAIN span : ~span[i].ad /\ span[i].id = cursor + i - 1
  BY DEF Run
<1>2. /\ N \in Nat /\ M \in Nat /\ DOMAIN segs = 1 .. N /\ DOMAIN span = 1 .. M
      /\ DOMAIN all = 1 .. N + M
      /\ \A i \in 1 .. N : all[i] = segs[i]
      /\ \A i \in 1 .. M : all[N + i] = span[i]
      /\ \A i \in 1 .. N + M : i \in 1 .. N \/ \E k \in 1 .. M : i = N + k
  BY <1>1, ConcatElements
<1> HIDE DEF all, N, M
<1>3. /\ \A i \in 1 .. N : ~segs[i].ad => segs[i].id \in 1 .. cursor - 1
      /\ \A i, j \in 1 .. N :
           i < j /\ ~segs[i].ad /\ ~segs[j].ad => segs[i].id < segs[j].id
  BY <1>2 DEF InOrder
<1>4. ASSUME NEW i \in 1 .. M
      PROVE  all[N + i].id = cursor + i - 1
  BY <1>1, <1>2
<1>5. ASSUME NEW i \in 1 .. N + M, ~all[i].ad
      PROVE  all[i].id \in 1 .. (cursor + M) - 1
  <2>1. CASE i \in 1 .. N
    <3>1. segs[i].id \in 1 .. cursor - 1
      BY <1>2, <1>3, <1>5, <2>1
    <3> QED BY <1>2, <2>1, <3>1
  <2>2. CASE \E k \in 1 .. M : i = N + k
    <3>1. PICK k \in 1 .. M : i = N + k
      BY <2>2
    <3>2. all[i].id = cursor + k - 1
      BY <1>4, <3>1
    <3> QED BY <1>2, <3>2
  <2> QED BY <1>2, <2>1, <2>2
<1>6. ASSUME NEW i \in 1 .. N + M, NEW j \in 1 .. N + M, i < j, ~all[i].ad, ~all[j].ad
      PROVE  all[i].id < all[j].id
  <2>1. CASE j \in 1 .. N
    <3>1. i \in 1 .. N
      BY <1>2, <1>6, <2>1
    <3> QED BY <1>2, <1>3, <1>6, <2>1, <3>1
  <2>2. CASE \E k \in 1 .. M : j = N + k
    <3>1. PICK k \in 1 .. M : j = N + k
      BY <2>2
    <3>2. all[j].id = cursor + k - 1
      BY <1>4, <3>1
    <3>3. CASE i \in 1 .. N
      <4>1. all[i].id \in 1 .. cursor - 1
        BY <1>2, <1>3, <1>6, <3>3
      <4> QED BY <3>2, <4>1
    <3>4. CASE \E l \in 1 .. M : i = N + l
      <4>1. PICK l \in 1 .. M : i = N + l
        BY <3>4
      <4>2. all[i].id = cursor + l - 1
        BY <1>4, <4>1
      <4>3. l < k
        BY <1>2, <1>6, <3>1, <4>1
      <4> QED BY <3>2, <4>2, <4>3
    <3> QED BY <1>2, <3>3, <3>4
  <2> QED BY <1>2, <2>1, <2>2
<1>7. InOrder(all, cursor + M)
  BY <1>2, <1>5, <1>6 DEF InOrder
<1> QED BY <1>7 DEF all, M

LEMMA SpanComplete ==
  ASSUME NEW segs \in Seq(Segments), NEW cursor \in Nat \ {0}, NEW span, Run(span, cursor),
         NEW plan, Complete(plan, segs, cursor)
  PROVE  Complete(plan, segs \o span, cursor + Len(span))
<1> DEFINE all == segs \o span
           N == Len(segs)
           M == Len(span)
<1>1. /\ span \in Seq(Segments)
      /\ \A i \in DOMAIN span : ~span[i].ad /\ span[i].id = cursor + i - 1
  BY DEF Run
<1>2. /\ N \in Nat /\ M \in Nat /\ DOMAIN segs = 1 .. N /\ DOMAIN span = 1 .. M
      /\ DOMAIN all = 1 .. N + M
      /\ \A i \in 1 .. N : all[i] = segs[i]
      /\ \A i \in 1 .. M : all[N + i] = span[i]
  BY <1>1, ConcatElements
<1> HIDE DEF all, N, M
<1>3. ASSUME NEW x \in 1 .. (cursor + M) - 1
      PROVE  \/ \E i \in DOMAIN all : ~all[i].ad /\ all[i].id = x
             \/ \E j \in DOMAIN plan : plan[j].before < x /\ x < plan[j].after
  <2>1. CASE x < cursor
    <3>1. x \in 1 .. cursor - 1
      BY <2>1
    <3>2. CASE \E i \in DOMAIN segs : ~segs[i].ad /\ segs[i].id = x
      <4>1. PICK i \in 1 .. N : ~segs[i].ad /\ segs[i].id = x
        BY <1>2, <3>2
      <4>2. i \in DOMAIN all /\ all[i] = segs[i]
        BY <1>2
      <4> QED BY <4>1, <4>2
    <3> QED BY <3>1, <3>2 DEF Complete
  <2>2. CASE x >= cursor
    <3> DEFINE i == x - cursor + 1
    <3>1. i \in 1 .. M /\ N + i \in 1 .. N + M /\ cursor + i - 1 = x
      BY <1>2, <2>2
    <3>2. ~all[N + i].ad /\ all[N + i].id = x
      BY <1>1, <1>2, <3>1
    <3> QED BY <1>2, <3>1, <3>2
  <2> QED BY <1>2, <2>1, <2>2
<1>4. Complete(plan, all, cursor + M)
  BY <1>3 DEF Complete
<1> QED BY <1>4 DEF all, M

(* Between content and content there is no switch; the first segment after  *)
(* an ad needs its mark.                                                    *)
LEMMA SpanMarked ==
  ASSUME NEW segs \in Seq(Segments), NEW cursor \in Nat \ {0}, NEW span, Run(span, cursor),
         SwitchMarked(segs), segs # <<>> /\ span # <<>> => span[1].disc
  PROVE  SwitchMarked(segs \o span)
<1> DEFINE all == segs \o span
           N == Len(segs)
           M == Len(span)
<1>1. /\ span \in Seq(Segments)
      /\ \A i \in DOMAIN span : ~span[i].ad /\ span[i].id = cursor + i - 1
  BY DEF Run
<1>2. /\ N \in Nat /\ M \in Nat /\ DOMAIN segs = 1 .. N /\ DOMAIN span = 1 .. M
      /\ DOMAIN all = 1 .. N + M
      /\ \A i \in 1 .. N : all[i] = segs[i]
      /\ \A i \in 1 .. M : all[N + i] = span[i]
      /\ \A i \in 1 .. N + M : i \in 1 .. N \/ \E k \in 1 .. M : i = N + k
  BY <1>1, ConcatElements
<1>3. N = 0 \/ M = 0 \/ span[1].disc
  BY <1>1, EmptySeq
<1> HIDE DEF all, N, M
<1>4. ASSUME NEW i \in 1 .. N + M
      PROVE  \/ all[i].disc
             \/ IF all[i].ad THEN all[i].id > 1 ELSE i = 1 \/ ~all[i - 1].ad
  <2>1. CASE i \in 1 .. N
    <3>1. \/ segs[i].disc
          \/ IF segs[i].ad THEN segs[i].id > 1 ELSE i = 1 \/ ~segs[i - 1].ad
      BY <1>2, <2>1 DEF SwitchMarked
    <3>2. i = 1 \/ i - 1 \in 1 .. N
      BY <1>2, <2>1
    <3> QED BY <1>2, <2>1, <3>1, <3>2
  <2>2. CASE \E k \in 1 .. M : i = N + k
    <3>1. PICK k \in 1 .. M : i = N + k
      BY <2>2
    <3>2. ~all[i].ad
      BY <1>1, <1>2, <3>1
    <3>3. CASE k = 1
      <4>1. M # 0
        BY <1>2
      <4>2. N = 0 => i = 1
        BY <3>1, <3>3
      <4>3. all[i] = span[1]
        BY <1>2, <3>1, <3>3
      <4> QED BY <1>3, <3>2, <4>1, <4>2, <4>3
    <3>4. CASE k # 1
      <4>1. k - 1 \in 1 .. M /\ i - 1 = N + (k - 1)
        BY <1>2, <3>1, <3>4
      <4>2. all[i - 1] = span[k - 1]
        BY <1>2, <4>1
      <4> QED BY <1>1, <1>2, <3>2, <4>1, <4>2
    <3> QED BY <3>3, <3>4
  <2> QED BY <1>2, <2>1, <2>2
<1>5. SwitchMarked(all)
  BY <1>2, <1>4 DEF SwitchMarked
<1> QED BY <1>5 DEF all

LEMMA SpanPlaced ==
  ASSUME NEW segs \in Seq(Segments), NEW cursor \in Nat \ {0}, NEW span, Run(span, cursor),
         NEW plan, NEW k \in Nat, AdsPlaced(plan, segs, cursor, k)
  PROVE  AdsPlaced(plan, segs \o span, cursor + Len(span), k)
<1> DEFINE all == segs \o span
           N == Len(segs)
           M == Len(span)
<1>1. /\ span \in Seq(Segments)
      /\ \A i \in DOMAIN span : ~span[i].ad /\ span[i].id = cursor + i - 1
  BY DEF Run
<1>2. /\ N \in Nat /\ M \in Nat /\ DOMAIN segs = 1 .. N /\ DOMAIN span = 1 .. M
      /\ DOMAIN all = 1 .. N + M /\ Len(all) = N + M
      /\ \A i \in 1 .. N : all[i] = segs[i]
      /\ \A i \in 1 .. M : all[N + i] = span[i]
      /\ \A i \in 1 .. N + M : i \in 1 .. N \/ \E l \in 1 .. M : i = N + l
  BY <1>1, ConcatElements
<1>3. N = Len(segs)
  OBVIOUS
<1> HIDE DEF all, N, M
<1>4. ASSUME NEW i \in 1 .. N + M, all[i].ad
      PROVE  \E j \in 1 .. k, p \in 1 .. i, q \in i .. Len(all) :
               Placed(plan, all, cursor + M, j, p, q)
  <2>1. i \in 1 .. N /\ segs[i].ad
    <3>1. ASSUME NEW l \in 1 .. M, i = N + l
          PROVE  FALSE
      <4>1. all[i] = span[l] /\ ~span[l].ad
        BY <1>1, <1>2, <3>1
      <4> QED BY <1>4, <4>1
    <3>2. i \in 1 .. N
      BY <1>2, <3>1
    <3> QED BY <1>2, <1>4, <3>2
  <2>2. PICK j \in 1 .. k, p \in 1 .. i, q \in i .. N : Placed(plan, segs, cursor, j, p, q)
    BY <1>2, <1>3, <2>1 DEF AdsPlaced
  <2>3. q \in i .. Len(all) /\ q \in 1 .. N /\ p \in 1 .. N /\ (p = 1 \/ p - 1 \in 1 .. N)
    BY <1>2, <2>1
  <2>4. \A x \in p .. q : all[x].ad /\ all[x] = plan[j].flight[x - p + 1]
    <3>1. \A x \in p .. q : x \in 1 .. N
      BY <1>2, <2>3
    <3> QED BY <1>2, <2>2, <3>1 DEF Placed
  <2>5. Len(plan[j].flight) = q - p + 1
    BY <2>2 DEF Placed
  <2>6. IF p = 1 THEN plan[j].before = 0
                 ELSE ~all[p - 1].ad /\ all[p - 1].id = plan[j].before
    BY <1>2, <2>2, <2>3 DEF Placed
  <2>7. IF q = Len(all) THEN cursor + M = plan[j].after
                        ELSE ~all[q + 1].ad /\ all[q + 1].id = plan[j].after
    <3>1. CASE q # N
      <4>1. q + 1 \in 1 .. N /\ q # Len(all)
        BY <1>2, <2>3, <3>1
      <4>2. ~segs[q + 1].ad /\ segs[q + 1].id = plan[j].after
        BY <1>3, <2>2, <3>1 DEF Placed
      <4> QED BY <1>2, <4>1, <4>2
    <3>2. CASE q = N /\ M = 0
      <4>1. cursor = plan[j].after
        BY <1>3, <2>2, <3>2 DEF Placed
      <4>2. q = Len(all) /\ cursor + M = cursor
        BY <1>2, <3>2
      <4> QED BY <4>1, <4>2
    <3>3. CASE q = N /\ M # 0
      <4>1. cursor = plan[j].after
        BY <1>3, <2>2, <3>3 DEF Placed
      <4>2. q # Len(all) /\ 1 \in 1 .. M
        BY <1>2, <3>3
      <4>3. all[q + 1] = span[1]
        BY <1>2, <3>3, <4>2
      <4>5. ~span[1].ad /\ span[1].id = cursor + 1 - 1
        BY <1>1, <1>2, <4>2
      <4>6. cursor + 1 - 1 = cursor
        OBVIOUS
      <4> QED BY <4>1, <4>2, <4>3, <4>5, <4>6
    <3> QED BY <3>1, <3>2, <3>3
  <2>8. Placed(plan, all, cursor + M, j, p, q)
    BY <2>4, <2>5, <2>6, <2>7 DEF Placed
  <2> QED BY <2>3, <2>8
<1>5. AdsPlaced(plan, all, cursor + M, k)
  BY <1>2, <1>4 DEF AdsPlaced
<1> QED BY <1>5 DEF all, M

LEMMA SpanGoesOn ==
  ASSUME NEW plan, NEW segs, NEW cursor, NEW k \in Nat, SplicedUpTo(plan, segs, cursor, k),
         NEW span, Run(span, cursor), segs # <<>> /\ span # <<>> => span[1].disc
  PROVE  SplicedUpTo(plan, segs \o span, cursor + Len(span), k)
<1>1. segs \in Seq(Segments) /\ cursor \in Nat \ {0} /\ span \in Seq(Segments)
  BY DEF SplicedUpTo, Run
<1>2. segs \o span \in Seq(Segments) /\ cursor + Len(span) \in Nat \ {0}
  BY <1>1, ConcatElements
<1> QED BY <1>1, <1>2, SpanInOrder, SpanComplete, SpanMarked, SpanPlaced DEF SplicedUpTo

----------------------------------------------------------------------------
(* A flight where the content before the break is over.                     *)
AtCursor(segs, cursor) ==
  IF segs = <<>> THEN cursor = 1
                 ELSE ~segs[Len(segs)].ad /\ segs[Len(segs)].id = cursor - 1

LEMMA AfterContent ==
  ASSUME NEW segs, NEW before \in Nat, segs # <<>>, ~segs[Len(segs)].ad,
         segs[Len(segs)].id = before
  PROVE  AtCursor(segs, before + 1)
BY DEF AtCursor

LEMMA FlightInOrder ==
  ASSUME NEW segs \in Seq(Segments), NEW cursor \in Nat, NEW flight, GoodFlight(flight),
         NEW after \in Nat, cursor <= after, InOrder(segs, cursor)
  PROVE  InOrder(segs \o flight, after)
<1> DEFINE all == segs \o flight
           N == Len(segs)
           M == Len(flight)
<1>1. flight \in Seq(Segments) /\ \A i \in DOMAIN flight : flight[i].ad
  BY DEF GoodFlight
<1>2. /\ N \in Nat /\ M \in Nat /\ DOMAIN segs = 1 .. N /\ DOMAIN flight = 1 .. M
      /\ DOMAIN all = 1 .. N + M
      /\ \A i \in 1 .. N : all[i] = segs[i]
      /\ \A i \in 1 .. M : all[N + i] = flight[i]
      /\ \A i \in 1 .. N + M : i \in 1 .. N \/ \E l \in 1 .. M : i = N + l
  BY <1>1, ConcatElements
<1> HIDE DEF all, N, M
<1>3. \A i \in 1 .. N + M : ~all[i].ad => i \in 1 .. N
  BY <1>1, <1>2
<1>4. \A i \in 1 .. N + M : ~all[i].ad => all[i].id \in 1 .. after - 1
  <2>1. \A i \in 1 .. N : ~segs[i].ad => segs[i].id \in 1 .. cursor - 1
    BY <1>2 DEF InOrder
  <2>2. \A x \in 1 .. cursor - 1 : x \in 1 .. after - 1
    OBVIOUS
  <2> QED BY <1>2, <1>3, <2>1, <2>2
<1>5. \A i, j \in 1 .. N + M : i < j /\ ~all[i].ad /\ ~all[j].ad => all[i].id < all[j].id
  <2>1. \A i, j \in 1 .. N : i < j /\ ~segs[i].ad /\ ~segs[j].ad => segs[i].id < segs[j].id
    BY <1>2 DEF InOrder
  <2> QED BY <1>2, <1>3, <2>1
<1>6. InOrder(all, after)
  BY <1>2, <1>4, <1>5 DEF InOrder
<1> QED BY <1>6 DEF all

LEMMA FlightComplete ==
  ASSUME NEW segs \in Seq(Segments), NEW plan, NEW k, k + 1 \in DOMAIN plan,
         plan[k + 1].before \in Nat, plan[k + 1].after \in Nat, GoodFlight(plan[k + 1].flight),
         Complete(plan, segs, plan[k + 1].before + 1)
  PROVE  Complete(plan, segs \o plan[k + 1].flight, plan[k + 1].after)
<1> DEFINE flight == plan[k + 1].flight
           all == segs \o flight
           N == Len(segs)
           M == Len(flight)
           before == plan[k + 1].before
           after == plan[k + 1].after
<1>1. flight \in Seq(Segments)
  BY DEF GoodFlight
<1>2. /\ N \in Nat /\ M \in Nat /\ DOMAIN segs = 1 .. N /\ DOMAIN all = 1 .. N + M
      /\ \A i \in 1 .. N : all[i] = segs[i]
  BY <1>1, ConcatElements
<1>3. /\ before \in Nat /\ after \in Nat /\ k + 1 \in DOMAIN plan
      /\ Complete(plan, segs, before + 1)
  OBVIOUS
<1> HIDE DEF all, N, M
<1>4. ASSUME NEW x \in 1 .. after - 1
      PROVE  \/ \E i \in DOMAIN all : ~all[i].ad /\ all[i].id = x
             \/ \E j \in DOMAIN plan : plan[j].before < x /\ x < plan[j].after
  <2>1. CASE x <= before
    <3>1. x \in 1 .. (before + 1) - 1
      BY <1>3, <2>1
    <3>2. CASE \E i \in DOMAIN segs : ~segs[i].ad /\ segs[i].id = x
      <4>1. PICK i \in 1 .. N : ~segs[i].ad /\ segs[i].id = x
        BY <1>2, <3>2
      <4>2. i \in DOMAIN all /\ all[i] = segs[i]
        BY <1>2
      <4> QED BY <4>1, <4>2
    <3> HIDE DEF before
    <3> QED BY <1>3, <3>1, <3>2 DEF Complete
  <2>2. CASE x > before
    <3>1. x < after
      BY <1>3
    <3> QED BY <1>3, <2>2, <3>1
  <2> QED BY <1>3, <2>1, <2>2
<1>5. Complete(plan, all, after)
  <2> HIDE DEF after
  <2> QED BY <1>4 DEF Complete
<1> QED BY <1>5 DEF all

LEMMA FlightMarked ==
  ASSUME NEW segs \in Seq(Segments), NEW flight, GoodFlight(flight), SwitchMarked(segs)
  PROVE  SwitchMarked(segs \o flight)
<1> DEFINE all == segs \o flight
           N == Len(segs)
           M == Len(flight)
<1>1. flight \in Seq(Segments) /\ \A i \in DOMAIN flight : flight[i].ad /\ Marked(flight[i])
  BY DEF GoodFlight
<1>2. /\ N \in Nat /\ M \in Nat /\ DOMAIN segs = 1 .. N /\ DOMAIN flight = 1 .. M
      /\ DOMAIN all = 1 .. N + M
      /\ \A i \in 1 .. N : all[i] = segs[i]
      /\ \A i \in 1 .. M : all[N + i] = flight[i]
      /\ \A i \in 1 .. N + M : i \in 1 .. N \/ \E l \in 1 .. M : i = N + l
  BY <1>1, ConcatElements
<1> HIDE DEF all, N, M
<1>3. ASSUME NEW i \in 1 .. N + M
      PROVE  \/ all[i].disc
             \/ IF all[i].ad THEN all[i].id > 1 ELSE i = 1 \/ ~all[i - 1].ad
  <2>1. CASE i \in 1 .. N
    <3>1. \/ segs[i].disc
          \/ IF segs[i].ad THEN segs[i].id > 1 ELSE i = 1 \/ ~segs[i - 1].ad
      BY <1>2, <2>1 DEF SwitchMarked
    <3>2. i = 1 \/ i - 1 \in 1 .. N
      BY <1>2, <2>1
    <3> QED BY <1>2, <2>1, <3>1, <3>2
  <2>2. CASE \E l \in 1 .. M : i = N + l
    BY <1>1, <1>2, <2>2 DEF Marked
  <2> QED BY <1>2, <2>1, <2>2
<1>4. SwitchMarked(all)
  BY <1>2, <1>3 DEF SwitchMarked
<1> QED BY <1>4 DEF all

LEMMA FlightPlaced ==
  ASSUME NEW segs \in Seq(Segments), NEW plan, NEW k \in Nat, k + 1 \in DOMAIN plan,
         plan[k + 1].before \in Nat, GoodFlight(plan[k + 1].flight),
         AtCursor(segs, plan[k + 1].before + 1),
         AdsPlaced(plan, segs, plan[k + 1].before + 1, k)
  PROVE  AdsPlaced(plan, segs \o plan[k + 1].flight, plan[k + 1].after, k + 1)
<1> DEFINE flight == plan[k + 1].flight
           all == segs \o flight
           N == Len(segs)
           M == Len(flight)
           before == plan[k + 1].before
           after == plan[k + 1].after
<1>1. flight \in Seq(Segments) /\ \A i \in DOMAIN flight : flight[i].ad
  BY DEF GoodFlight
<1>2. /\ N \in Nat /\ M \in Nat /\ DOMAIN segs = 1 .. N /\ DOMAIN flight = 1 .. M
      /\ DOMAIN all = 1 .. N + M /\ Len(all) = N + M
      /\ \A i \in 1 .. N : all[i] = segs[i]
      /\ \A i \in 1 .. M : all[N + i] = flight[i]
      /\ \A i \in 1 .. N + M : i \in 1 .. N \/ \E l \in 1 .. M : i = N + l
  <2> HIDE DEF flight
  <2> QED BY <1>1, ConcatElements
<1>3. \/ N = 0 /\ before = 0
      \/ N # 0 /\ ~segs[N].ad /\ segs[N].id = before
  <2>1. CASE segs = <<>>
    <3>1. before + 1 = 1 /\ before \in Nat
      BY <2>1 DEF AtCursor
    <3> QED BY <2>1, <3>1, EmptySeq
  <2>2. CASE segs # <<>>
    <3>1. N # 0
      BY <2>2, EmptySeq
    <3>2. ~segs[N].ad /\ segs[N].id = before + 1 - 1
      BY <2>2 DEF AtCursor
    <3> QED BY <3>1, <3>2
  <2> QED BY <2>1, <2>2
<1>4. N = Len(segs) /\ M = Len(plan[k + 1].flight) /\ flight = plan[k + 1].flight
  OBVIOUS
<1> HIDE DEF all, N, M
<1>5. ASSUME NEW i \in 1 .. N, all[i].ad
      PROVE  \E j \in 1 .. k + 1, p \in 1 .. i, q \in i .. Len(all) :
               Placed(plan, all, after, j, p, q)
  <2>1. segs[i].ad
    BY <1>2, <1>5
  <2>2. PICK j \in 1 .. k, p \in 1 .. i, q \in i .. N :
          Placed(plan, segs, before + 1, j, p, q)
    BY <1>2, <1>4, <2>1 DEF AdsPlaced
  <2>3. /\ q \in i .. Len(all) /\ q \in 1 .. N /\ p \in 1 .. N /\ (p = 1 \/ p - 1 \in 1 .. N)
        /\ j \in 1 .. k + 1 /\ q \in p .. q
    BY <1>2
  <2>4. \A x \in p .. q : x \in 1 .. N
    BY <1>2, <2>3
  <2>5. \A x \in p .. q : all[x].ad /\ all[x] = plan[j].flight[x - p + 1]
    BY <1>2, <2>2, <2>4 DEF Placed
  <2>6. q # N
    BY <1>2, <1>3, <2>3, <2>5
  <2>7. q + 1 \in 1 .. N /\ q # Len(all)
    BY <1>2, <2>3, <2>6
  <2>8. ~all[q + 1].ad /\ all[q + 1].id = plan[j].after
    BY <1>2, <1>4, <2>2, <2>6, <2>7 DEF Placed
  <2>9. IF p = 1 THEN plan[j].before = 0
                 ELSE ~all[p - 1].ad /\ all[p - 1].id = plan[j].before
    BY <1>2, <2>2, <2>3 DEF Placed
  <2>10. Len(plan[j].flight) = q - p + 1
    BY <2>2 DEF Placed
  <2>11. Placed(plan, all, after, j, p, q)
    BY <2>5, <2>7, <2>8, <2>9, <2>10 DEF Placed
  <2> QED BY <2>3, <2>11
<1>6. ASSUME NEW l \in 1 .. M
      PROVE  \E j \in 1 .. k + 1, p \in 1 .. N + l, q \in N + l .. Len(all) :
               Placed(plan, all, after, j, p, q)
  <2> DEFINE p == N + 1
             q == N + M
  <2>1. /\ k + 1 \in 1 .. k + 1 /\ p \in 1 .. N + l /\ q \in N + l .. Len(all) /\ q = Len(all)
        /\ q - p + 1 = M
    BY <1>2
  <2>2. ASSUME NEW x \in p .. q
        PROVE  all[x].ad /\ all[x] = flight[x - p + 1]
    <3>1. x - p + 1 \in 1 .. M /\ x = N + (x - p + 1)
      BY <1>2
    <3> HIDE DEF p
    <3> QED BY <1>1, <1>2, <3>1
  <2>3. IF p = 1 THEN before = 0 ELSE ~all[p - 1].ad /\ all[p - 1].id = before
    <3>1. CASE N = 0
      BY <1>3, <3>1
    <3>2. CASE N # 0
      <4>1. p # 1 /\ p - 1 = N /\ N \in 1 .. N
        BY <1>2, <3>2
      <4> QED BY <1>2, <1>3, <3>2, <4>1
    <3> QED BY <3>1, <3>2
  <2> HIDE DEF p, q
  <2>4. Placed(plan, all, after, k + 1, p, q)
    BY <1>4, <2>1, <2>2, <2>3 DEF Placed
  <2> QED BY <2>1, <2>4
<1>7. AdsPlaced(plan, all, after, k + 1)
  BY <1>2, <1>5, <1>6 DEF AdsPlaced
<1> QED BY <1>7 DEF all

LEMMA FlightGoesIn ==
  ASSUME NEW plan, NEW segs, NEW k \in Nat, k + 1 \in DOMAIN plan,
         plan[k + 1].before \in Nat, plan[k + 1].after \in Nat,
         plan[k + 1].before < plan[k + 1].after, GoodFlight(plan[k + 1].flight),
         SplicedUpTo(plan, segs, plan[k + 1].before + 1, k),
         AtCursor(segs, plan[k + 1].before + 1)
  PROVE  SplicedUpTo(plan, segs \o plan[k + 1].flight, plan[k + 1].after, k + 1)
<1>1. segs \in Seq(Segments) /\ plan[k + 1].flight \in Seq(Segments)
  BY DEF SplicedUpTo, GoodFlight
<1>2. segs \o plan[k + 1].flight \in Seq(Segments)
  BY <1>1, ConcatElements
<1>3. /\ plan[k + 1].before + 1 <= plan[k + 1].after /\ plan[k + 1].before + 1 \in Nat
      /\ plan[k + 1].after \in Nat \ {0}
  OBVIOUS
<1>4. InOrder(segs \o plan[k + 1].flight, plan[k + 1].after)
  BY <1>1, <1>3, FlightInOrder DEF SplicedUpTo
<1>5. Complete(plan, segs \o plan[k + 1].flight, plan[k + 1].after)
  BY <1>1, FlightComplete DEF SplicedUpTo
<1>6. SwitchMarked(segs \o plan[k + 1].flight)
  BY <1>1, FlightMarked DEF SplicedUpTo
<1>7. AdsPlaced(plan, segs \o plan[k + 1].flight, plan[k + 1].after, k + 1)
  BY <1>1, FlightPlaced DEF SplicedUpTo
<1> QED BY <1>2, <1>3, <1>4, <1>5, <1>6, <1>7 DEF SplicedUpTo

----------------------------------------------------------------------------
(* findBreaks: breaks in order, apart, from a CUE-OUT to the next CUE-IN.   *)
Breaks == [start : Nat, end : Nat]
Scans == [start : Nat, breaks : Seq(Breaks)]
NoScan == [start |-> 0, breaks |-> <<>>]

LEMMA ScanSegmentTyped ==
  ASSUME NEW c, NEW k \in Nat, NEW x \in Scans
  PROVE  ScanSegment(c, x, k) \in Scans
<1>1. CASE x.start = 0 /\ c[k].out
  BY <1>1 DEF ScanSegment, Scans
<1>2. CASE x.start # 0 /\ c[k].in
  <2> DEFINE b == [start |-> x.start, end |-> k]
  <2>1. b \in Breaks /\ x.breaks \in Seq(Breaks)
    BY DEF Scans, Breaks
  <2> HIDE DEF b
  <2>2. Append(x.breaks, b) \in Seq(Breaks)
    BY <2>1
  <2>3. ScanSegment(c, x, k) = [start |-> 0, breaks |-> Append(x.breaks, b)]
    BY <1>2 DEF ScanSegment, b
  <2> QED BY <2>2, <2>3 DEF Scans
<1>3. CASE ~(x.start = 0 /\ c[k].out) /\ ~(x.start # 0 /\ c[k].in)
  BY <1>3 DEF ScanSegment
<1> QED BY <1>1, <1>2, <1>3

(* The scan for breaks, segment by segment.                                 *)
LEMMA ScanSteps ==
  ASSUME NEW c \in Seq(Segments)
  PROVE  \E f \in [0 .. Len(c) -> Scans] :
           /\ f[0] = NoScan /\ Scan(c) = f[Len(c)]
           /\ \A k \in 1 .. Len(c) : f[k] = ScanSegment(c, f[k - 1], k)
<1> DEFINE n == Len(c)
           V == Scans
           One(x, k) == ScanSegment(c, x, k)
           Steps(f) == [k \in 0 .. n |-> IF k = 0 THEN NoScan ELSE One(f[k - 1], k)]
           chosen == CHOOSE f : f = Steps(f)
<1>1. n \in Nat
  OBVIOUS
<1>2. Scan(c) = chosen[n]
  BY DEF Scan, NoScan
<1>3. NoScan \in V
  BY EmptySeq DEF NoScan, Scans
<1>4. \A k \in 1 .. n, x \in V : One(x, k) \in V
  BY ScanSegmentTyped
<1>5. PICK next \in [1 .. n -> [V -> V]] :
        \A k \in 1 .. n, x \in V : next[k][x] = One(x, k)
  <2> DEFINE all == [k \in 1 .. n |-> [x \in V |-> One(x, k)]]
  <2>1. \A k \in 1 .. n, x \in V : all[k][x] = One(x, k)
    OBVIOUS
  <2> HIDE DEF One, V
  <2>2. all \in [1 .. n -> [V -> V]]
    BY <1>4
  <2> QED BY <2>1, <2>2
<1> HIDE DEF One, V
<1>6. PICK f : Iterates(f, V, NoScan, n, next)
  BY <1>1, <1>3, StepsExist
<1>7. \A k \in 1 .. n : k # 0 /\ k \in 0 .. n /\ k - 1 \in 0 .. n
  BY <1>1
<1>8. \A k \in 1 .. n : f[k] = One(f[k - 1], k)
  BY <1>5, <1>6, <1>7 DEF Iterates
<1>9. f = Steps(f)
  <2>1. f \in [0 .. n -> V] /\ f[0] = NoScan
    BY <1>6 DEF Iterates
  <2>2. \A k \in 0 .. n : f[k] = Steps(f)[k]
    BY <1>1, <1>8, <2>1
  <2> QED BY <2>1, <2>2
<1>10. chosen = Steps(chosen)
  BY <1>9
<1> HIDE DEF chosen
<1>11. chosen[0] = NoScan /\ \A k \in 1 .. n : chosen[k] = One(chosen[k - 1], k)
  <2>1. \A k \in 0 .. n : chosen[k] = Steps(chosen)[k]
    BY <1>10
  <2> QED BY <1>1, <1>7, <2>1
<1>12. chosen \in [0 .. n -> V]
  <2>1. \A k \in 1 .. n : chosen[k - 1] \in V => chosen[k] = next[k][chosen[k - 1]]
    BY <1>5, <1>11
  <2>2. \A k \in 0 .. n : chosen[k] \in V
    BY <1>1, <1>3, <1>6, <1>11, <2>1, StepsAgree
  <2> QED BY <1>10, <2>2
<1> QED BY <1>2, <1>11, <1>12 DEF One, V

IsBreak(c, b, k) ==
  /\ b.start \in 1 .. k /\ b.end \in 1 .. k /\ b.start < b.end
  /\ c[b.start].out /\ c[b.end].in /\ \A i \in b.start + 1 .. b.end - 1 : ~c[i].in

ScanInv(c, x, k) ==
  /\ x \in Scans /\ x.start <= k
  /\ x.start # 0 => c[x.start].out /\ \A i \in x.start + 1 .. k : ~c[i].in
  /\ \A j \in 1 .. Len(x.breaks) : IsBreak(c, x.breaks[j], k)
  /\ \A j \in 1 .. Len(x.breaks) - 1 : x.breaks[j].end < x.breaks[j + 1].start
  /\ x.start # 0 /\ Len(x.breaks) # 0 => x.breaks[Len(x.breaks)].end < x.start

LEMMA ScanStep ==
  ASSUME NEW c, NEW k \in Nat \ {0}, NEW x, ScanInv(c, x, k - 1)
  PROVE  ScanInv(c, ScanSegment(c, x, k), k)
<1> DEFINE y == ScanSegment(c, x, k)
           n == Len(x.breaks)
<1>1. /\ x \in Scans /\ x.start \in Nat /\ x.breaks \in Seq(Breaks) /\ n \in Nat
      /\ \A j \in 1 .. n : x.breaks[j].start \in Nat /\ x.breaks[j].end \in Nat
  <2>1. x \in Scans /\ x.start \in Nat /\ x.breaks \in Seq(Breaks)
    BY DEF ScanInv, Scans
  <2>2. \A j \in 1 .. n : x.breaks[j] \in Breaks
    BY <2>1
  <2> QED BY <2>1, <2>2 DEF Breaks
<1>2. y \in Scans
  BY <1>1, ScanSegmentTyped
<1>3. \A j \in 1 .. n : IsBreak(c, x.breaks[j], k) /\ x.breaks[j].end < k
  BY <1>1 DEF ScanInv, IsBreak
<1>4. \A j \in 1 .. n - 1 : x.breaks[j].end < x.breaks[j + 1].start
  BY DEF ScanInv
<1>5. CASE x.start = 0 /\ c[k].out
  <2>1. y = [x EXCEPT !.start = k]
    BY <1>5 DEF ScanSegment
  <2>2. y.start = k /\ y.breaks = x.breaks
    BY <1>1, <2>1 DEF Scans
  <2>3. n # 0 => x.breaks[n].end < k
    BY <1>1, <1>3
  <2>8. ScanInv(c, y, k)
    <3> HIDE DEF y
    <3> QED BY <1>2, <1>3, <1>4, <1>5, <2>2, <2>3 DEF ScanInv
  <2> QED BY <2>8
<1>6. CASE x.start # 0 /\ c[k].in
  <2> DEFINE b == [start |-> x.start, end |-> k]
  <2>1. y.start = 0 /\ y.breaks = Append(x.breaks, b)
    BY <1>6 DEF ScanSegment
  <2>2. b \in Breaks /\ b.start = x.start /\ b.end = k
    BY <1>1 DEF Breaks
  <2>3. IsBreak(c, b, k)
    <3>1. x.start \in 1 .. k - 1 /\ c[x.start].out /\ \A i \in x.start + 1 .. k - 1 : ~c[i].in
      BY <1>1, <1>6 DEF ScanInv
    <3> QED BY <1>6, <2>2, <3>1 DEF IsBreak
  <2>4. n # 0 => x.breaks[n].end < b.start
    BY <1>6, <2>2 DEF ScanInv
  <2> HIDE DEF b
  <2>5. /\ Len(y.breaks) = n + 1 /\ y.breaks[n + 1] = b
        /\ \A j \in 1 .. n : y.breaks[j] = x.breaks[j]
    BY <1>1, <2>1, <2>2
  <2>6. \A j \in 1 .. n + 1 : IsBreak(c, y.breaks[j], k)
    BY <1>1, <1>3, <2>3, <2>5
  <2>7. ASSUME NEW j \in 1 .. (n + 1) - 1
        PROVE  y.breaks[j].end < y.breaks[j + 1].start
    <3>1. CASE j = n
      <4>1. y.breaks[j] = x.breaks[n] /\ y.breaks[j + 1] = b
        BY <1>1, <2>5, <3>1
      <4> QED BY <1>1, <2>4, <3>1, <4>1
    <3>2. CASE j # n
      <4>1. j \in 1 .. n - 1 /\ j + 1 \in 1 .. n /\ j \in 1 .. n
        BY <1>1, <3>2
      <4> QED BY <1>4, <2>5, <4>1
    <3> QED BY <3>1, <3>2
  <2>8. ScanInv(c, y, k)
    <3> HIDE DEF y
    <3>1. y.start = 0 /\ 0 <= k
      BY <2>1
    <3>2. \A j \in 1 .. Len(y.breaks) : IsBreak(c, y.breaks[j], k)
      BY <2>5, <2>6
    <3>3. \A j \in 1 .. Len(y.breaks) - 1 : y.breaks[j].end < y.breaks[j + 1].start
      BY <2>5, <2>7
    <3> QED BY <1>2, <3>1, <3>2, <3>3 DEF ScanInv
  <2> QED BY <2>8
<1>7. CASE ~(x.start = 0 /\ c[k].out) /\ ~(x.start # 0 /\ c[k].in)
  <2>1. y = x
    BY <1>7 DEF ScanSegment
  <2>2. x.start # 0 => c[x.start].out /\ \A i \in x.start + 1 .. k : ~c[i].in
    <3>1. \A i \in x.start + 1 .. k : i = k \/ i \in x.start + 1 .. k - 1
      BY <1>1
    <3> QED BY <1>7, <3>1 DEF ScanInv
  <2>3. x.start <= k /\ (x.start # 0 /\ n # 0 => x.breaks[n].end < x.start)
    BY <1>1 DEF ScanInv
  <2>8. ScanInv(c, y, k)
    <3> HIDE DEF y
    <3> QED BY <1>1, <1>3, <1>4, <2>1, <2>2, <2>3 DEF ScanInv
  <2> QED BY <2>8
<1> QED BY <1>5, <1>6, <1>7

LEMMA ScanFinds ==
  ASSUME NEW c \in Seq(Segments)
  PROVE  ScanInv(c, Scan(c), Len(c))
<1> DEFINE n == Len(c)
<1>1. n \in Nat
  OBVIOUS
<1>2. PICK f \in [0 .. n -> Scans] :
        /\ f[0] = NoScan /\ Scan(c) = f[n]
        /\ \A k \in 1 .. n : f[k] = ScanSegment(c, f[k - 1], k)
  BY ScanSteps
<1> HIDE DEF n
<1> DEFINE T == {k \in Nat : \A i \in 0 .. n : i <= k => ScanInv(c, f[i], i)}
<1>3. ScanInv(c, f[0], 0)
  BY <1>1, <1>2, EmptySeq DEF ScanInv, NoScan, Scans
<1>4. 0 \in T
  BY <1>3
<1>5. ASSUME NEW k \in T
      PROVE  k + 1 \in T
  <2> SUFFICES ASSUME NEW i \in 0 .. n, i <= k + 1
               PROVE  ScanInv(c, f[i], i)
    OBVIOUS
  <2>1. CASE i = 0
    BY <1>3, <2>1
  <2>2. CASE i # 0
    <3>1. i \in 1 .. n /\ i \in Nat \ {0} /\ i - 1 \in 0 .. n /\ i - 1 <= k
      BY <1>1, <2>2
    <3>2. ScanInv(c, f[i - 1], i - 1)
      BY <3>1
    <3> QED BY <1>2, <3>1, <3>2, ScanStep
  <2> QED BY <2>1, <2>2
<1>6. T = Nat
  <2>1. T \subseteq Nat
    OBVIOUS
  <2> HIDE DEF T
  <2> QED BY <1>4, <1>5, <2>1, SetInduction
<1>7. ScanInv(c, f[n], n)
  BY <1>1, <1>6
<1> QED BY <1>2, <1>7 DEF n

----------------------------------------------------------------------------
(* A flight consists of ads; each but the first is marked, or not the first *)
(* of its creative.                                                         *)
AdRun(s) ==
  /\ s \in Seq(Segments)
  /\ \A i \in DOMAIN s : s[i].ad /\ (i # 1 => Marked(s[i]))

IsAd(s) == s \in Seq(Segments) /\ \A i \in DOMAIN s : s[i].ad /\ s[i].id = i

LEMMA MarkFirstMarks ==
  ASSUME NEW s \in Seq(Segments)
  PROVE  /\ MarkFirst(s) \in Seq(Segments) /\ Len(MarkFirst(s)) = Len(s)
         /\ Len(s) # 0 => MarkFirst(s)[1].disc
         /\ \A i \in 1 .. Len(s) :
              /\ MarkFirst(s)[i].ad = s[i].ad /\ MarkFirst(s)[i].id = s[i].id
              /\ MarkFirst(s)[i].dur = s[i].dur
              /\ i # 1 => MarkFirst(s)[i] = s[i]
<1>1. CASE s = <<>>
  BY <1>1, EmptySeq DEF MarkFirst
<1>2. CASE s # <<>>
  <2>1. Len(s) \in Nat \ {0} /\ 1 \in 1 .. Len(s) /\ s[1] \in Segments
    BY <1>2, EmptySeq, ElementOfSeq
  <2> DEFINE e == [s[1] EXCEPT !.disc = TRUE]
  <2>2. e \in Segments /\ e.ad = s[1].ad /\ e.id = s[1].id /\ e.dur = s[1].dur /\ e.disc = TRUE
    BY <2>1 DEF Segments
  <2>3. MarkFirst(s) = [s EXCEPT ![1] = e]
    BY <1>2 DEF MarkFirst
  <2> HIDE DEF e
  <2>4. /\ [s EXCEPT ![1] = e] \in Seq(Segments) /\ Len([s EXCEPT ![1] = e]) = Len(s)
        /\ \A j \in 1 .. Len(s) : [s EXCEPT ![1] = e][j] = IF j = 1 THEN e ELSE s[j]
    BY <2>1, <2>2, ExceptSeq
  <2> QED BY <2>1, <2>2, <2>3, <2>4
<1> QED BY <1>1, <1>2

LEMMA MarkedFlight ==
  ASSUME NEW s, AdRun(s)
  PROVE  GoodFlight(MarkFirst(s))
<1>1. s \in Seq(Segments) /\ \A i \in 1 .. Len(s) : s[i].ad /\ (i # 1 => Marked(s[i]))
  BY LenProperties DEF AdRun
<1> DEFINE t == MarkFirst(s)
<1>2. t \in Seq(Segments) /\ DOMAIN t = 1 .. Len(s) /\ Len(t) = Len(s)
  BY <1>1, MarkFirstMarks, LenProperties
<1>3. \A i \in 1 .. Len(s) : t[i].ad /\ (i # 1 => t[i] = s[i])
  BY <1>1, MarkFirstMarks
<1>4. Len(s) # 0 => t[1].disc
  BY <1>1, MarkFirstMarks
<1> HIDE DEF t
<1>5. \A i \in 1 .. Len(s) : Marked(t[i])
  <2>1. \A i \in 1 .. Len(s) : Len(s) # 0
    BY <1>1
  <2>2. \A i \in 1 .. Len(s) : i # 1 => Marked(t[i])
    BY <1>1, <1>3
  <2>3. Len(s) # 0 => Marked(t[1])
    BY <1>4 DEF Marked
  <2> QED BY <2>1, <2>2, <2>3
<1>6. t # <<>> => t[1].disc
  BY <1>2, <1>4, EmptySeq
<1>7. GoodFlight(t)
  BY <1>2, <1>3, <1>5, <1>6 DEF GoodFlight
<1> QED BY <1>7 DEF t

LEMMA AdIsRun ==
  ASSUME NEW a, IsAd(a)
  PROVE  AdRun(a)
BY DEF IsAd, AdRun, Marked

LEMMA RunGoesOn ==
  ASSUME NEW s, AdRun(s), NEW t, GoodFlight(t)
  PROVE  AdRun(s \o t)
<1> DEFINE all == s \o t
           N == Len(s)
           M == Len(t)
<1>1. s \in Seq(Segments) /\ t \in Seq(Segments)
  BY DEF AdRun, GoodFlight
<1>2. /\ all \in Seq(Segments) /\ N \in Nat /\ M \in Nat /\ DOMAIN s = 1 .. N
      /\ DOMAIN t = 1 .. M /\ DOMAIN all = 1 .. N + M
      /\ \A i \in 1 .. N : all[i] = s[i]
      /\ \A i \in 1 .. M : all[N + i] = t[i]
      /\ \A i \in 1 .. N + M : i \in 1 .. N \/ \E l \in 1 .. M : i = N + l
  BY <1>1, ConcatElements
<1> HIDE DEF all, N, M
<1>3. \A i \in 1 .. N : s[i].ad /\ (i # 1 => Marked(s[i]))
  BY <1>2 DEF AdRun
<1>4. \A i \in 1 .. M : t[i].ad /\ Marked(t[i])
  BY <1>2 DEF GoodFlight
<1>5. \A i \in 1 .. N + M : all[i].ad /\ (i # 1 => Marked(all[i]))
  BY <1>2, <1>3, <1>4
<1>6. AdRun(all)
  BY <1>2, <1>5 DEF AdRun
<1> QED BY <1>6 DEF all

(* What loopSegments appends, time after time.                              *)
LEMMA RepeatedSteps ==
  ASSUME NEW s \in Seq(Segments), NEW times \in Nat
  PROVE  \E f \in [0 .. times -> Seq(Segments)] :
           /\ f[0] = s /\ Repeated(s, times) = f[times]
           /\ \A k \in 1 .. times : f[k] = f[k - 1] \o MarkFirst(s)
<1> DEFINE n == times
           V == Seq(Segments)
           One(x, k) == x \o MarkFirst(s)
           Steps(f) == [k \in 0 .. n |-> IF k = 0 THEN s ELSE One(f[k - 1], k)]
           chosen == CHOOSE f : f = Steps(f)
<1>1. n \in Nat
  OBVIOUS
<1>2. Repeated(s, times) = chosen[n]
  BY DEF Repeated
<1>3. s \in V
  OBVIOUS
<1>4. \A k \in 1 .. n, x \in V : One(x, k) \in V
  BY MarkFirstMarks, ConcatProperties
<1>5. PICK next \in [1 .. n -> [V -> V]] :
        \A k \in 1 .. n, x \in V : next[k][x] = One(x, k)
  <2> DEFINE all == [k \in 1 .. n |-> [x \in V |-> One(x, k)]]
  <2>1. \A k \in 1 .. n, x \in V : all[k][x] = One(x, k)
    OBVIOUS
  <2> HIDE DEF One, V
  <2>2. all \in [1 .. n -> [V -> V]]
    BY <1>4
  <2> QED BY <2>1, <2>2
<1> HIDE DEF One, V
<1>6. PICK f : Iterates(f, V, s, n, next)
  BY <1>1, <1>3, StepsExist
<1>7. \A k \in 1 .. n : k # 0 /\ k \in 0 .. n /\ k - 1 \in 0 .. n
  BY <1>1
<1>8. \A k \in 1 .. n : f[k] = One(f[k - 1], k)
  BY <1>5, <1>6, <1>7 DEF Iterates
<1>9. f = Steps(f)
  <2>1. f \in [0 .. n -> V] /\ f[0] = s
    BY <1>6 DEF Iterates
  <2>2. \A k \in 0 .. n : f[k] = Steps(f)[k]
    BY <1>1, <1>8, <2>1
  <2> QED BY <2>1, <2>2
<1>10. chosen = Steps(chosen)
  BY <1>9
<1> HIDE DEF chosen
<1>11. chosen[0] = s /\ \A k \in 1 .. n : chosen[k] = One(chosen[k - 1], k)
  <2>1. \A k \in 0 .. n : chosen[k] = Steps(chosen)[k]
    BY <1>10
  <2> QED BY <1>1, <1>7, <2>1
<1>12. chosen \in [0 .. n -> V]
  <2>1. \A k \in 1 .. n : chosen[k - 1] \in V => chosen[k] = next[k][chosen[k - 1]]
    BY <1>5, <1>11
  <2>2. \A k \in 0 .. n : chosen[k] \in V
    BY <1>1, <1>3, <1>6, <1>11, <2>1, StepsAgree
  <2> QED BY <1>10, <2>2
<1> QED BY <1>2, <1>11, <1>12 DEF One, V


LEMMA RepeatedRuns ==
  ASSUME NEW a, IsAd(a), NEW times \in Nat
  PROVE  AdRun(Repeated(a, times))
<1>1. a \in Seq(Segments) /\ AdRun(a) /\ GoodFlight(MarkFirst(a))
  BY AdIsRun, MarkedFlight DEF IsAd
<1>2. PICK f \in [0 .. times -> Seq(Segments)] :
        /\ f[0] = a /\ Repeated(a, times) = f[times]
        /\ \A k \in 1 .. times : f[k] = f[k - 1] \o MarkFirst(a)
  BY <1>1, RepeatedSteps
<1> DEFINE T == {k \in Nat : \A i \in 0 .. times : i <= k => AdRun(f[i])}
<1>3. 0 \in T
  BY <1>1, <1>2
<1>4. ASSUME NEW k \in T
      PROVE  k + 1 \in T
  <2> SUFFICES ASSUME NEW i \in 0 .. times, i <= k + 1
               PROVE  AdRun(f[i])
    OBVIOUS
  <2>1. CASE i = 0
    BY <1>1, <1>2, <2>1
  <2>2. CASE i # 0
    <3>1. i \in 1 .. times /\ i - 1 \in 0 .. times /\ i - 1 <= k
      BY <2>2
    <3>2. AdRun(f[i - 1])
      BY <3>1
    <3> QED BY <1>1, <1>2, <3>1, <3>2, RunGoesOn
  <2> QED BY <2>1, <2>2
<1>5. T = Nat
  <2>1. T \subseteq Nat
    OBVIOUS
  <2> HIDE DEF T
  <2> QED BY <1>3, <1>4, <2>1, SetInduction
<1> QED BY <1>2, <1>5

(* The number of repetitions is the first that is enough, if the cap allows *)
(* one.                                                                     *)
LEMMA RepeatsIsFirst ==
  ASSUME NEW actual \in Int, NEW target \in Int
  PROVE  LET r == Repeats(actual, target)
         IN  /\ r \in 0 .. MaxLoopRepeats
             /\ r = MaxLoopRepeats \/ (r + 1) * actual >= target - Epsilon
             /\ \A q \in 0 .. r - 1 : ~((q + 1) * actual >= target - Epsilon)
<1> DEFINE Enough(r) == (r + 1) * actual >= target - Epsilon
           First(r) == /\ r = MaxLoopRepeats \/ Enough(r)
                       /\ \A q \in 0 .. r - 1 : ~Enough(q)
           r0 == CHOOSE r \in 0 .. MaxLoopRepeats : First(r)
           T == {r \in 0 .. MaxLoopRepeats : r = MaxLoopRepeats \/ Enough(r)}
<1>1. MaxLoopRepeats \in Nat
  BY StitchAssumption DEF StitchAssumption
<1>2. Repeats(actual, target) = r0
  BY DEF Repeats, FirstSuch
<1> HIDE DEF Enough
<1>3. PICK m \in T : \A k \in T : m <= k
  <2>1. T \in SUBSET Nat /\ T # {}
    BY <1>1
  <2> HIDE DEF T
  <2> QED BY <2>1, LeastElement
<1>4. \A q \in 0 .. m - 1 : q \notin T /\ q \in 0 .. MaxLoopRepeats
  BY <1>1, <1>3
<1>5. m \in 0 .. MaxLoopRepeats /\ First(m)
  BY <1>4
<1>6. r0 \in 0 .. MaxLoopRepeats /\ First(r0)
  <2> HIDE DEF First
  <2> QED BY <1>5
<1> HIDE DEF r0
<1> QED BY <1>2, <1>6 DEF Enough
----------------------------------------------------------------------------
(* Durations add up.                                                        *)
LEMMA TotalSteps ==
  ASSUME NEW s \in Seq(Segments)
  PROVE  \E f \in [0 .. Len(s) -> Int] :
           /\ f[0] = 0 /\ TotalDuration(s) = f[Len(s)]
           /\ \A k \in 1 .. Len(s) : f[k] = f[k - 1] + s[k].dur
<1> DEFINE n == Len(s)
           V == Int
           One(x, k) == x + s[k].dur
           Steps(f) == [k \in 0 .. n |-> IF k = 0 THEN 0 ELSE One(f[k - 1], k)]
           chosen == CHOOSE f : f = Steps(f)
<1>1. n \in Nat /\ \A k \in 1 .. n : s[k] \in Segments
  OBVIOUS
<1>2. TotalDuration(s) = chosen[n]
  BY DEF TotalDuration
<1>3. 0 \in V
  OBVIOUS
<1>4. \A k \in 1 .. n, x \in V : One(x, k) \in V
  BY <1>1 DEF Segments
<1>5. PICK next \in [1 .. n -> [V -> V]] :
        \A k \in 1 .. n, x \in V : next[k][x] = One(x, k)
  <2> DEFINE all == [k \in 1 .. n |-> [x \in V |-> One(x, k)]]
  <2>1. \A k \in 1 .. n, x \in V : all[k][x] = One(x, k)
    OBVIOUS
  <2> HIDE DEF One, V
  <2>2. all \in [1 .. n -> [V -> V]]
    BY <1>4
  <2> QED BY <2>1, <2>2
<1> HIDE DEF One, V
<1>6. PICK f : Iterates(f, V, 0, n, next)
  BY <1>1, <1>3, StepsExist
<1>7. \A k \in 1 .. n : k # 0 /\ k \in 0 .. n /\ k - 1 \in 0 .. n
  BY <1>1
<1>8. \A k \in 1 .. n : f[k] = One(f[k - 1], k)
  BY <1>5, <1>6, <1>7 DEF Iterates
<1>9. f = Steps(f)
  <2>1. f \in [0 .. n -> V] /\ f[0] = 0
    BY <1>6 DEF Iterates
  <2>2. \A k \in 0 .. n : f[k] = Steps(f)[k]
    BY <1>1, <1>8, <2>1
  <2> QED BY <2>1, <2>2
<1>10. chosen = Steps(chosen)
  BY <1>9
<1> HIDE DEF chosen
<1>11. chosen[0] = 0 /\ \A k \in 1 .. n : chosen[k] = One(chosen[k - 1], k)
  <2>1. \A k \in 0 .. n : chosen[k] = Steps(chosen)[k]
    BY <1>10
  <2> QED BY <1>1, <1>7, <2>1
<1>12. chosen \in [0 .. n -> V]
  <2>1. \A k \in 1 .. n : chosen[k - 1] \in V => chosen[k] = next[k][chosen[k - 1]]
    BY <1>5, <1>11
  <2>2. \A k \in 0 .. n : chosen[k] \in V
    BY <1>1, <1>3, <1>6, <1>11, <2>1, StepsAgree
  <2> QED BY <1>10, <2>2
<1> QED BY <1>2, <1>11, <1>12 DEF One, V


LEMMA TotalIsInt ==
  ASSUME NEW s \in Seq(Segments)
  PROVE  TotalDuration(s) \in Int /\ (s = <<>> => TotalDuration(s) = 0)
<1>1. PICK f \in [0 .. Len(s) -> Int] : f[0] = 0 /\ TotalDuration(s) = f[Len(s)]
  BY TotalSteps
<1>2. Len(s) \in 0 .. Len(s)
  BY LenProperties
<1> QED BY <1>1, <1>2

LEMMA FlightIsGood ==
  ASSUME NEW a, IsAd(a), NEW target \in Int, NEW o
  PROVE  GoodFlight(Flight(a, target, o))
<1>1. a \in Seq(Segments) /\ TotalDuration(a) \in Int
  BY TotalIsInt DEF IsAd
<1>2. AdRun(LoopSegments(a, target))
  <2>1. CASE TotalDuration(a) <= 0
    BY <2>1, AdIsRun DEF LoopSegments
  <2>2. CASE ~(TotalDuration(a) <= 0)
    <3>1. Repeats(TotalDuration(a), target) \in Nat
      <4>1. Repeats(TotalDuration(a), target) \in 0 .. MaxLoopRepeats
        BY <1>1, RepeatsIsFirst
      <4> QED BY <4>1
    <3>2. LoopSegments(a, target) = Repeated(a, Repeats(TotalDuration(a), target))
      BY <2>2 DEF LoopSegments
    <3> QED BY <3>1, <3>2, RepeatedRuns
  <2> QED BY <2>1, <2>2
<1>3. AdRun(a)
  BY AdIsRun
<1>4. CASE Loops(a, target, o)
  <2>1. Flight(a, target, o) = MarkFirst(LoopSegments(a, target))
    BY <1>4 DEF Flight
  <2> QED BY <1>2, <2>1, MarkedFlight
<1>5. CASE ~Loops(a, target, o)
  <2>1. Flight(a, target, o) = MarkFirst(a)
    BY <1>5 DEF Flight
  <2> QED BY <1>3, <2>1, MarkedFlight
<1> QED BY <1>4, <1>5

----------------------------------------------------------------------------
(* The plan that the breaks found in the content make.                      *)
PlanOf(c, a, o) ==
  [j \in 1 .. Len(FindBreaks(c)) |->
     [before |-> SpanEnd(FindBreaks(c)[j], o), after |-> NextCursor(FindBreaks(c)[j], o),
      flight |-> Flight(a, BreakTarget(c, FindBreaks(c)[j], o), o)]]

LEMMA BreaksFound ==
  ASSUME NEW c \in Seq(Segments)
  PROVE  /\ FindBreaks(c) \in Seq(Breaks) /\ Len(FindBreaks(c)) \in Nat
         /\ \A j \in 1 .. Len(FindBreaks(c)) :
              FindBreaks(c)[j] \in Breaks /\ IsBreak(c, FindBreaks(c)[j], Len(c))
         /\ \A j \in 1 .. Len(FindBreaks(c)) - 1 :
              FindBreaks(c)[j].end < FindBreaks(c)[j + 1].start
<1>1. ScanInv(c, Scan(c), Len(c))
  BY ScanFinds
<1>2. FindBreaks(c) = Scan(c).breaks
  BY DEF FindBreaks
<1>3. FindBreaks(c) \in Seq(Breaks)
  BY <1>1, <1>2 DEF ScanInv, Scans
<1> QED BY <1>1, <1>2, <1>3, ElementOfSeq, LenProperties DEF ScanInv

LEMMA TargetIsInt ==
  ASSUME NEW c \in Seq(Segments), NEW b \in Breaks, IsBreak(c, b, Len(c)), NEW o \in Options
  PROVE  BreakTarget(c, b, o) \in Int
<1>1. b.start \in 1 .. Len(c) /\ b.end \in 1 .. Len(c) /\ Len(c) \in Nat
  BY LenProperties DEF IsBreak
<1>2. c[b.start].cue \in Int
  <2>1. c[b.start] \in Segments
    BY <1>1, ElementOfSeq
  <2> QED BY <2>1 DEF Segments
<1>3. SubSeq(c, b.start, b.end - 1) \in Seq(Segments)
  <2>1. \A i \in b.start .. b.end - 1 : c[i] \in Segments
    BY <1>1
  <2>2. b.start \in Int /\ b.end - 1 \in Int
    BY <1>1
  <2> QED BY <2>1, <2>2, SubSeqProperties
<1> QED BY <1>2, <1>3, TotalIsInt DEF BreakTarget

LEMMA PlanIsGood ==
  ASSUME NEW c \in Seq(Segments), NEW a, IsAd(a), NEW o \in Options
  PROVE  GoodPlan(PlanOf(c, a, o), Len(c))
<1> DEFINE breaks == FindBreaks(c)
           n == Len(breaks)
           plan == PlanOf(c, a, o)
<1>1. /\ n \in Nat /\ Len(c) \in Nat
      /\ \A j \in 1 .. n : breaks[j] \in Breaks /\ IsBreak(c, breaks[j], Len(c))
      /\ \A j \in 1 .. n - 1 : breaks[j].end < breaks[j + 1].start
  BY BreaksFound, LenProperties
<1>2. DOMAIN plan = 1 .. n /\ Len(plan) = n
  BY <1>1 DEF PlanOf
<1>3. \A j \in 1 .. n : /\ plan[j].before = SpanEnd(breaks[j], o)
                        /\ plan[j].after = NextCursor(breaks[j], o)
                        /\ plan[j].flight = Flight(a, BreakTarget(c, breaks[j], o), o)
  BY DEF PlanOf
<1>4. \A j \in 1 .. n : /\ breaks[j].start \in 1 .. Len(c) /\ breaks[j].end \in 1 .. Len(c)
                        /\ breaks[j].start < breaks[j].end
  BY <1>1 DEF IsBreak
<1>5. \A j \in 1 .. n : GoodFlight(plan[j].flight)
  BY <1>1, <1>3, TargetIsInt, FlightIsGood
<1>6. o.preserve \in BOOLEAN
  BY DEF Options
<1> HIDE DEF breaks, n, plan
<1>7. \A j \in 1 .. n : /\ plan[j].before \in Nat /\ plan[j].after \in Nat
                        /\ plan[j].before < plan[j].after /\ plan[j].after <= Len(c)
                        /\ 1 < plan[j].after
  <2> SUFFICES ASSUME NEW j \in 1 .. n
               PROVE  /\ plan[j].before \in Nat /\ plan[j].after \in Nat
                      /\ plan[j].before < plan[j].after /\ plan[j].after <= Len(c)
                      /\ 1 < plan[j].after
    OBVIOUS
  <2>1. /\ breaks[j].start \in 1 .. Len(c) /\ breaks[j].end \in 1 .. Len(c)
        /\ breaks[j].start < breaks[j].end
    BY <1>4
  <2>2. CASE o.preserve
    <3>1. plan[j].before = breaks[j].start /\ plan[j].after = breaks[j].start + 1
      BY <1>3, <2>2 DEF SpanEnd, NextCursor
    <3> QED BY <1>1, <2>1, <3>1
  <2>3. CASE ~o.preserve
    <3>1. plan[j].before = breaks[j].start - 1 /\ plan[j].after = breaks[j].end
      BY <1>3, <2>3 DEF SpanEnd, NextCursor
    <3> QED BY <1>1, <2>1, <3>1
  <2> QED BY <2>2, <2>3
<1>8. \A j \in 1 .. n - 1 : plan[j].after <= plan[j + 1].before
  <2> SUFFICES ASSUME NEW j \in 1 .. n - 1
               PROVE  plan[j].after <= plan[j + 1].before
    OBVIOUS
  <2>1. j \in 1 .. n /\ j + 1 \in 1 .. n /\ breaks[j].end < breaks[j + 1].start
    BY <1>1
  <2> QED BY <1>1, <1>3, <1>4, <1>6, <2>1 DEF SpanEnd, NextCursor
<1>9. GoodPlan(plan, Len(c))
  BY <1>1, <1>2, <1>5, <1>7, <1>8 DEF GoodPlan
<1> QED BY <1>9 DEF plan

----------------------------------------------------------------------------
(* The runs of content between the flights.                                 *)
IsContent(c) == c \in Seq(Segments) /\ \A i \in DOMAIN c : ~c[i].ad /\ c[i].id = i

LEMMA SpanRuns ==
  ASSUME NEW c, IsContent(c), NEW from \in Nat \ {0}, NEW to \in Nat, to <= Len(c)
  PROVE  /\ Run(SubSeq(c, from, to), from)
         /\ Len(SubSeq(c, from, to)) = IF from <= to THEN to - from + 1 ELSE 0
<1> DEFINE span == SubSeq(c, from, to)
<1>1. /\ c \in Seq(Segments) /\ Len(c) \in Nat /\ DOMAIN c = 1 .. Len(c)
      /\ \A i \in 1 .. Len(c) : c[i] \in Segments /\ ~c[i].ad /\ c[i].id = i
  BY DEF IsContent
<1>2. \A i \in from .. to : c[i] \in Segments
  BY <1>1
<1>3. /\ span \in Seq(Segments) /\ Len(span) = IF from <= to THEN to - from + 1 ELSE 0
      /\ \A i \in 1 .. to - from + 1 : span[i] = c[from + i - 1]
  BY <1>2, SubSeqProperties
<1>4. DOMAIN span = 1 .. Len(span)
  BY <1>3, LenProperties
<1> HIDE DEF span
<1>5. \A i \in 1 .. Len(span) : ~span[i].ad /\ span[i].id = from + i - 1
  <2>1. \A i \in 1 .. Len(span) : i \in 1 .. to - from + 1 /\ from + i - 1 \in 1 .. Len(c)
    BY <1>1, <1>3
  <2> QED BY <1>1, <1>3, <2>1
<1>6. Run(span, from)
  BY <1>3, <1>4, <1>5 DEF Run
<1> QED BY <1>3, <1>6 DEF span

LEMMA SameRun ==
  ASSUME NEW span, NEW cursor, Run(span, cursor), NEW t \in Seq(Segments), Len(t) = Len(span),
         \A i \in 1 .. Len(span) : t[i].ad = span[i].ad /\ t[i].id = span[i].id
  PROVE  Run(t, cursor)
<1>1. span \in Seq(Segments) /\ DOMAIN span = 1 .. Len(span) /\ DOMAIN t = 1 .. Len(span)
  BY LenProperties DEF Run
<1> QED BY <1>1 DEF Run

LEMMA ResumedRuns ==
  ASSUME NEW span, NEW cursor, Run(span, cursor)
  PROVE  /\ Run(Resumed(span), cursor) /\ Len(Resumed(span)) = Len(span)
         /\ Len(span) # 0 => Resumed(span)[1].disc
<1>1. span \in Seq(Segments)
  BY DEF Run
<1>2. CASE span = <<>>
  BY <1>2, EmptySeq DEF Resumed
<1>3. CASE span # <<>>
  <2>1. Len(span) \in Nat \ {0} /\ 1 \in 1 .. Len(span) /\ span[1] \in Segments
    BY <1>1, <1>3, EmptySeq, ElementOfSeq
  <2> DEFINE e == [span[1] EXCEPT !.out = FALSE, !.in = FALSE, !.disc = TRUE]
             t == [span EXCEPT ![1] = e]
  <2>2. e \in Segments /\ e.ad = span[1].ad /\ e.id = span[1].id /\ e.disc = TRUE
    BY <2>1 DEF Segments
  <2>3. Resumed(span) = t
    <3>1. Resumed(span) = [span EXCEPT ![1].out = FALSE, ![1].in = FALSE, ![1].disc = TRUE]
      BY <1>3 DEF Resumed
    <3>2. DOMAIN span = 1 .. Len(span)
      BY <1>1, LenProperties
    <3> QED BY <2>1, <3>1, <3>2
  <2> HIDE DEF e
  <2>4. /\ t \in Seq(Segments) /\ Len(t) = Len(span)
        /\ \A j \in 1 .. Len(span) : t[j] = IF j = 1 THEN e ELSE span[j]
    BY <1>1, <2>1, <2>2, ExceptSeq
  <2> HIDE DEF t
  <2>5. \A i \in 1 .. Len(span) : t[i].ad = span[i].ad /\ t[i].id = span[i].id
    BY <2>2, <2>4
  <2>6. Run(t, cursor)
    BY <2>4, <2>5, SameRun
  <2>7. t[1].disc
    BY <2>1, <2>2, <2>4
  <2> QED BY <2>3, <2>4, <2>6, <2>7
<1> QED BY <1>2, <1>3

LEMMA AnnouncedRuns ==
  ASSUME NEW span, NEW cursor, Run(span, cursor), NEW o
  PROVE  /\ Run(Announced(span, o), cursor) /\ Len(Announced(span, o)) = Len(span)
         /\ Len(span) # 0 /\ span[1].disc => Announced(span, o)[1].disc
<1>1. span \in Seq(Segments) /\ DOMAIN span = 1 .. Len(span) /\ Len(span) \in Nat
  BY LenProperties DEF Run
<1>2. CASE ~o.preserve
  BY <1>2 DEF Announced
<1>3. CASE o.preserve
  <2> DEFINE n == Len(span)
             e == [span[n] EXCEPT !.out = FALSE]
             t == [span EXCEPT ![n] = e]
  <2>1. Announced(span, o) = t
    BY <1>3 DEF Announced
  <2>2. CASE n = 0
    <3>1. span = <<>>
      BY <1>1, <2>2, EmptySeq
    <3>2. t = span
      BY <1>1, <2>2
    <3> QED BY <2>1, <3>2, <2>2
  <2>3. CASE n # 0
    <3>1. n \in 1 .. Len(span) /\ 1 \in 1 .. Len(span) /\ span[n] \in Segments
      BY <1>1, <2>3, ElementOfSeq
    <3>2. e \in Segments /\ e.ad = span[n].ad /\ e.id = span[n].id /\ e.disc = span[n].disc
      BY <3>1 DEF Segments
    <3> HIDE DEF e
    <3>3. /\ t \in Seq(Segments) /\ Len(t) = Len(span)
          /\ \A j \in 1 .. Len(span) : t[j] = IF j = n THEN e ELSE span[j]
      <4> HIDE DEF n
      <4> QED BY <1>1, <3>1, <3>2, ExceptSeq
    <3> HIDE DEF t
    <3>4. \A i \in 1 .. Len(span) :
            t[i].ad = span[i].ad /\ t[i].id = span[i].id /\ t[i].disc = span[i].disc
      <4> HIDE DEF n
      <4> QED BY <3>2, <3>3
    <3>5. Run(t, cursor)
      BY <3>3, <3>4, SameRun
    <3> QED BY <2>1, <3>1, <3>3, <3>4, <3>5
  <2> QED BY <2>2, <2>3
<1> QED BY <1>2, <1>3

----------------------------------------------------------------------------
(* Break after break.                                                       *)
Reached(c, a, o, x, k) ==
  /\ x.cursor = IF k = 0 THEN 1 ELSE PlanOf(c, a, o)[k].after
  /\ k = 0 => x.segments = <<>>
  /\ SplicedUpTo(PlanOf(c, a, o), x.segments, x.cursor, k)

LEMMA NothingReached ==
  ASSUME NEW c, NEW a, NEW o
  PROVE  Reached(c, a, o, [cursor |-> 1, segments |-> <<>>], 0)
<1>1. <<>> \in Seq(Segments) /\ DOMAIN <<>> = {}
  BY EmptySeq
<1>2. SplicedUpTo(PlanOf(c, a, o), <<>>, 1, 0)
  BY <1>1 DEF SplicedUpTo, InOrder, Complete, SwitchMarked, AdsPlaced
<1> QED BY <1>2 DEF Reached

LEMMA BreakReached ==
  ASSUME NEW c, IsContent(c), NEW a, IsAd(a), NEW o \in Options, NEW x,
         NEW m \in Nat, m + 1 \in 1 .. Len(FindBreaks(c)), Reached(c, a, o, x, m)
  PROVE  Reached(c, a, o, SpliceBreak(c, a, o, x, FindBreaks(c)[m + 1]), m + 1)
<1> DEFINE plan == PlanOf(c, a, o)
           br == FindBreaks(c)[m + 1]
           before == plan[m + 1].before
           after == plan[m + 1].after
           flight == plan[m + 1].flight
           span == SubSeq(c, x.cursor, before)
           resumed == IF x.cursor = 1 THEN span ELSE Resumed(span)
           announced == Announced(resumed, o)
           upTo == x.segments \o announced
<1>1. GoodPlan(plan, Len(c)) /\ c \in Seq(Segments) /\ Len(c) \in Nat
  BY PlanIsGood, LenProperties DEF IsContent
<1>2. /\ before = SpanEnd(br, o) /\ after = NextCursor(br, o)
      /\ flight = Flight(a, BreakTarget(c, br, o), o)
  BY DEF PlanOf
<1>3. DOMAIN plan = 1 .. Len(plan) /\ Len(plan) = Len(FindBreaks(c)) /\ Len(plan) \in Nat
  <2>1. Len(FindBreaks(c)) \in Nat
    BY <1>1, BreaksFound
  <2> QED BY <2>1 DEF PlanOf
<1>4. SpliceBreak(c, a, o, x, br) = [cursor |-> after, segments |-> upTo \o flight]
  <2> HIDE DEF plan, br
  <2> QED BY <1>2 DEF SpliceBreak
<1> HIDE DEF plan
<1>5. m + 1 \in DOMAIN plan /\ (m # 0 => m \in DOMAIN plan /\ m \in 1 .. Len(plan) - 1)
  BY <1>3
<1>6. /\ before \in Nat /\ after \in Nat /\ before < after /\ after <= Len(c) /\ 1 < after
      /\ GoodFlight(flight)
  BY <1>1, <1>5 DEF GoodPlan
<1>7. m # 0 => /\ plan[m].after <= before /\ 1 < plan[m].after /\ plan[m].after \in Nat
  BY <1>1, <1>5 DEF GoodPlan
<1>8. /\ x.cursor = IF m = 0 THEN 1 ELSE plan[m].after
      /\ m = 0 => x.segments = <<>>
      /\ SplicedUpTo(plan, x.segments, x.cursor, m)
  BY DEF Reached, plan
<1>9. /\ x.cursor \in Nat \ {0} /\ x.cursor <= before + 1 /\ (m # 0 => x.cursor <= before)
      /\ m # 0 => x.cursor # 1
  BY <1>6, <1>7, <1>8
<1> HIDE DEF before, after, flight, br
<1>10. Run(span, x.cursor) /\ Len(span) = (before + 1) - x.cursor
  <2>1. before <= Len(c)
    BY <1>1, <1>6
  <2>2. /\ Run(span, x.cursor)
        /\ Len(span) = IF x.cursor <= before THEN before - x.cursor + 1 ELSE 0
    BY <1>6, <1>9, <2>1, SpanRuns
  <2> HIDE DEF span
  <2> QED BY <1>6, <1>9, <2>2
<1> HIDE DEF span
<1>11. /\ Run(resumed, x.cursor) /\ Len(resumed) = Len(span)
       /\ Len(span) # 0 /\ x.cursor # 1 => resumed[1].disc
  BY <1>10, ResumedRuns
<1> HIDE DEF resumed
<1>12. /\ Run(announced, x.cursor) /\ Len(announced) = Len(span)
       /\ Len(span) # 0 /\ x.cursor # 1 => announced[1].disc
  BY <1>11, AnnouncedRuns
<1>13. announced \in Seq(Segments) /\ x.segments \in Seq(Segments)
  BY <1>8, <1>12 DEF Run, SplicedUpTo
<1>14. announced # <<>> => Len(span) # 0
  BY <1>12, <1>13, EmptySeq
<1> HIDE DEF announced
<1>15. SplicedUpTo(plan, upTo, before + 1, m)
  <2>1. x.segments # <<>> /\ announced # <<>> => announced[1].disc
    BY <1>8, <1>9, <1>12, <1>14
  <2>2. x.cursor + Len(announced) = before + 1
    BY <1>6, <1>9, <1>10, <1>12
  <2>3. SplicedUpTo(plan, upTo, x.cursor + Len(announced), m)
    BY <1>8, <1>12, <2>1, SpanGoesOn
  <2> QED BY <2>2, <2>3
<1>16. AtCursor(upTo, before + 1)
  <2>1. /\ Len(announced) \in Nat /\ DOMAIN announced = 1 .. Len(announced)
        /\ Len(upTo) = Len(x.segments) + Len(announced) /\ upTo \in Seq(Segments)
        /\ \A i \in 1 .. Len(announced) : upTo[Len(x.segments) + i] = announced[i]
    BY <1>13, ConcatElements
  <2>2. CASE Len(announced) = 0
    <3>1. m = 0 /\ before + 1 = 1
      BY <1>6, <1>8, <1>9, <1>10, <1>12, <2>2
    <3>2. announced = <<>>
      BY <1>13, <2>2, EmptySeq
    <3>3. upTo = <<>>
      BY <1>8, <3>1, <3>2, ConcatEmptySeq, EmptySeq
    <3> HIDE DEF upTo
    <3> QED BY <3>1, <3>3 DEF AtCursor
  <2>3. CASE Len(announced) # 0
    <3>1. Len(announced) \in 1 .. Len(announced)
      BY <2>1, <2>3
    <3>2. upTo[Len(upTo)] = announced[Len(announced)]
      BY <2>1, <3>1
    <3>3. /\ ~announced[Len(announced)].ad
          /\ announced[Len(announced)].id = x.cursor + Len(announced) - 1
      BY <1>12, <2>1, <3>1 DEF Run
    <3>4. x.cursor + Len(announced) - 1 = before + 1 - 1
      BY <1>6, <1>9, <1>10, <1>12
    <3>5. upTo # <<>>
      <4>1. Len(x.segments) \in Nat
        BY <1>13, LenProperties
      <4>2. Len(upTo) # 0
        BY <2>1, <2>3, <4>1
      <4> HIDE DEF upTo
      <4> QED BY <4>2, EmptySeq
    <3>6. ~upTo[Len(upTo)].ad
      <4> HIDE DEF upTo
      <4> QED BY <3>2, <3>3
    <3>7. upTo[Len(upTo)].id = before
      <4> HIDE DEF upTo
      <4> QED BY <1>6, <3>2, <3>3, <3>4
    <3> HIDE DEF upTo
    <3> QED BY <1>6, <3>5, <3>6, <3>7, AfterContent
  <2> QED BY <2>2, <2>3
<1> HIDE DEF upTo
<1>17. SplicedUpTo(plan, upTo \o flight, after, m + 1)
  BY <1>5, <1>6, <1>15, <1>16, FlightGoesIn DEF before, after, flight
<1>18. m + 1 # 0
  OBVIOUS
<1>19. Reached(c, a, o, [cursor |-> after, segments |-> upTo \o flight], m + 1)
  BY <1>17, <1>18 DEF Reached, plan, after
<1> QED BY <1>4, <1>19 DEF br

Splices == [cursor : Nat \ {0}, segments : Seq(Segments)]
NoneSpliced == [cursor |-> 1, segments |-> <<>>]
Ended(c, x) == x.segments \o Resumed(SubSeq(c, x.cursor, Len(c)))

LEMMA ResumedTyped ==
  ASSUME NEW s \in Seq(Segments)
  PROVE  Resumed(s) \in Seq(Segments)
<1>1. CASE s = <<>>
  BY <1>1, EmptySeq DEF Resumed
<1>2. CASE s # <<>>
  <2>1. 1 \in 1 .. Len(s) /\ s[1] \in Segments /\ DOMAIN s = 1 .. Len(s)
    BY <1>2, EmptySeq, ElementOfSeq, LenProperties
  <2> DEFINE e == [s[1] EXCEPT !.out = FALSE, !.in = FALSE, !.disc = TRUE]
  <2>2. e \in Segments
    BY <2>1 DEF Segments
  <2>3. Resumed(s) = [s EXCEPT ![1] = e]
    <3>1. Resumed(s) = [s EXCEPT ![1].out = FALSE, ![1].in = FALSE, ![1].disc = TRUE]
      BY <1>2 DEF Resumed
    <3> QED BY <2>1, <3>1
  <2> HIDE DEF e
  <2> QED BY <2>1, <2>2, <2>3, ExceptSeq
<1> QED BY <1>1, <1>2

LEMMA AnnouncedTyped ==
  ASSUME NEW s \in Seq(Segments), NEW o
  PROVE  Announced(s, o) \in Seq(Segments)
<1>1. CASE ~o.preserve
  BY <1>1 DEF Announced
<1>2. CASE o.preserve
  <2> DEFINE n == Len(s)
             e == [s[n] EXCEPT !.out = FALSE]
  <2>1. Announced(s, o) = [s EXCEPT ![n] = e]
    BY <1>2 DEF Announced
  <2>2. n \in Nat /\ s \in [1 .. n -> Segments]
    BY LenProperties
  <2>3. CASE n = 0
    <3>1. [s EXCEPT ![n] = e] = s
      BY <2>2, <2>3
    <3> QED BY <2>1, <3>1
  <2>4. CASE n # 0
    <3>1. n \in 1 .. Len(s) /\ s[n] \in Segments
      BY <2>2, <2>4
    <3>2. e \in Segments
      BY <3>1 DEF Segments
    <3> HIDE DEF e, n
    <3> QED BY <2>1, <3>1, <3>2, ExceptSeq
  <2> QED BY <2>3, <2>4
<1> QED BY <1>1, <1>2

LEMMA SpliceBreakTyped ==
  ASSUME NEW c \in Seq(Segments), NEW a, IsAd(a), NEW o \in Options, NEW x \in Splices,
         NEW k \in 1 .. Len(FindBreaks(c))
  PROVE  SpliceBreak(c, a, o, x, FindBreaks(c)[k]) \in Splices
<1> DEFINE br == FindBreaks(c)[k]
           span == SubSeq(c, x.cursor, SpanEnd(br, o))
           resumed == IF x.cursor = 1 THEN span ELSE Resumed(span)
           flight == Flight(a, BreakTarget(c, br, o), o)
<1>1. br \in Breaks /\ IsBreak(c, br, Len(c)) /\ Len(c) \in Nat
  BY BreaksFound, LenProperties
<1>2. x.cursor \in Nat \ {0} /\ x.segments \in Seq(Segments)
  BY DEF Splices
<1> HIDE DEF br
<1>3. br.start \in 1 .. Len(c) /\ br.end \in 1 .. Len(c)
  BY <1>1 DEF IsBreak
<1>4. SpanEnd(br, o) \in Int /\ SpanEnd(br, o) <= Len(c)
  BY <1>1, <1>3 DEF SpanEnd
<1>5. NextCursor(br, o) \in Nat \ {0}
  BY <1>1, <1>3 DEF NextCursor
<1>6. span \in Seq(Segments)
  <2>1. \A i \in x.cursor .. SpanEnd(br, o) : i \in 1 .. Len(c)
    BY <1>1, <1>2, <1>4
  <2>2. \A i \in x.cursor .. SpanEnd(br, o) : c[i] \in Segments
    BY <2>1, ElementOfSeq
  <2> QED BY <1>2, <1>4, <2>2, SubSeqProperties
<1>7. Announced(resumed, o) \in Seq(Segments)
  <2>1. resumed \in Seq(Segments)
    BY <1>6, ResumedTyped
  <2> QED BY <2>1, AnnouncedTyped
<1>8. flight \in Seq(Segments)
  <2>1. GoodFlight(flight)
    BY <1>1, TargetIsInt, FlightIsGood
  <2> HIDE DEF flight
  <2> QED BY <2>1 DEF GoodFlight
<1>9. SpliceBreak(c, a, o, x, br)
        = [cursor |-> NextCursor(br, o), segments |-> (x.segments \o Announced(resumed, o)) \o flight]
  BY DEF SpliceBreak
<1> HIDE DEF resumed, flight
<1>10. (x.segments \o Announced(resumed, o)) \o flight \in Seq(Segments)
  BY <1>2, <1>7, <1>8, ConcatProperties
<1>11. SpliceBreak(c, a, o, x, br) \in Splices
  BY <1>5, <1>9, <1>10 DEF Splices
<1> QED BY <1>11 DEF br

(* SpliceWithOptions, break after break.                                    *)
LEMMA SplicedSteps ==
  ASSUME NEW c \in Seq(Segments), NEW a, IsAd(a), NEW o \in Options
  PROVE  \E f \in [0 .. Len(FindBreaks(c)) -> Splices] :
           /\ f[0] = NoneSpliced /\ SplicedSegments(c, a, o) = Ended(c, f[Len(FindBreaks(c))])
           /\ \A k \in 1 .. Len(FindBreaks(c)) : f[k] = SpliceBreak(c, a, o, f[k - 1], FindBreaks(c)[k])
<1> DEFINE n == Len(FindBreaks(c))
           V == Splices
           One(x, k) == SpliceBreak(c, a, o, x, FindBreaks(c)[k])
           Steps(f) == [k \in 0 .. n |-> IF k = 0 THEN NoneSpliced ELSE One(f[k - 1], k)]
           chosen == CHOOSE f : f = Steps(f)
<1>1. n \in Nat
  BY BreaksFound
<1>2. SplicedSegments(c, a, o) = Ended(c, chosen[n])
  BY DEF SplicedSegments, NoneSpliced, Ended
<1>3. NoneSpliced \in V
  BY EmptySeq DEF NoneSpliced, Splices
<1>4. \A k \in 1 .. n, x \in V : One(x, k) \in V
  BY SpliceBreakTyped
<1>5. PICK next \in [1 .. n -> [V -> V]] :
        \A k \in 1 .. n, x \in V : next[k][x] = One(x, k)
  <2> DEFINE all == [k \in 1 .. n |-> [x \in V |-> One(x, k)]]
  <2>1. \A k \in 1 .. n, x \in V : all[k][x] = One(x, k)
    OBVIOUS
  <2> HIDE DEF One, V
  <2>2. all \in [1 .. n -> [V -> V]]
    BY <1>4
  <2> QED BY <2>1, <2>2
<1> HIDE DEF One, V
<1>6. PICK f : Iterates(f, V, NoneSpliced, n, next)
  BY <1>1, <1>3, StepsExist
<1>7. \A k \in 1 .. n : k # 0 /\ k \in 0 .. n /\ k - 1 \in 0 .. n
  BY <1>1
<1>8. \A k \in 1 .. n : f[k] = One(f[k - 1], k)
  BY <1>5, <1>6, <1>7 DEF Iterates
<1>9. f = Steps(f)
  <2>1. f \in [0 .. n -> V] /\ f[0] = NoneSpliced
    BY <1>6 DEF Iterates
  <2>2. \A k \in 0 .. n : f[k] = Steps(f)[k]
    BY <1>1, <1>8, <2>1
  <2> QED BY <2>1, <2>2
<1>10. chosen = Steps(chosen)
  BY <1>9
<1> HIDE DEF chosen
<1>11. chosen[0] = NoneSpliced /\ \A k \in 1 .. n : chosen[k] = One(chosen[k - 1], k)
  <2>1. \A k \in 0 .. n : chosen[k] = Steps(chosen)[k]
    BY <1>10
  <2> QED BY <1>1, <1>7, <2>1
<1>12. chosen \in [0 .. n -> V]
  <2>1. \A k \in 1 .. n : chosen[k - 1] \in V => chosen[k] = next[k][chosen[k - 1]]
    BY <1>5, <1>11
  <2>2. \A k \in 0 .. n : chosen[k] \in V
    BY <1>1, <1>3, <1>6, <1>11, <2>1, StepsAgree
  <2> QED BY <1>10, <2>2
<1> QED BY <1>2, <1>11, <1>12 DEF One, V


LEMMA AllBreaksReached ==
  ASSUME NEW c, IsContent(c), NEW a, IsAd(a), NEW o \in Options
  PROVE  \E x : /\ Reached(c, a, o, x, Len(FindBreaks(c)))
                /\ SplicedSegments(c, a, o) = Ended(c, x)
<1> DEFINE n == Len(FindBreaks(c))
<1>1. c \in Seq(Segments) /\ n \in Nat
  BY BreaksFound DEF IsContent
<1>2. PICK f \in [0 .. n -> Splices] :
        /\ f[0] = NoneSpliced /\ SplicedSegments(c, a, o) = Ended(c, f[n])
        /\ \A k \in 1 .. n : f[k] = SpliceBreak(c, a, o, f[k - 1], FindBreaks(c)[k])
  BY <1>1, SplicedSteps
<1> DEFINE T == {k \in Nat : \A i \in 0 .. n : i <= k => Reached(c, a, o, f[i], i)}
<1>3. Reached(c, a, o, f[0], 0)
  BY <1>2, NothingReached DEF NoneSpliced
<1>4. 0 \in T
  BY <1>3
<1>5. ASSUME NEW k \in T
      PROVE  k + 1 \in T
  <2> SUFFICES ASSUME NEW i \in 0 .. n, i <= k + 1
               PROVE  Reached(c, a, o, f[i], i)
    OBVIOUS
  <2>1. CASE i = 0
    BY <1>3, <2>1
  <2>2. CASE i # 0
    <3>1. i \in 1 .. n /\ i - 1 \in 0 .. n /\ i - 1 \in Nat /\ i - 1 <= k /\ (i - 1) + 1 = i
      BY <1>1, <2>2
    <3>2. Reached(c, a, o, f[i - 1], i - 1)
      BY <3>1
    <3>3. Reached(c, a, o, SpliceBreak(c, a, o, f[i - 1], FindBreaks(c)[(i - 1) + 1]), (i - 1) + 1)
      BY <3>1, <3>2, BreakReached
    <3> QED BY <1>2, <3>1, <3>3
  <2> QED BY <2>1, <2>2
<1>6. T = Nat
  <2>1. T \subseteq Nat
    OBVIOUS
  <2> HIDE DEF T
  <2> QED BY <1>4, <1>5, <2>1, SetInduction
<1>7. Reached(c, a, o, f[n], n)
  BY <1>1, <1>6
<1> HIDE DEF n
<1> QED BY <1>2, <1>7 DEF n

LEMMA SplicedAsPlanned ==
  ASSUME NEW c, IsContent(c), NEW a, IsAd(a), NEW o \in Options, FindBreaks(c) # <<>>
  PROVE  SplicedUpTo(PlanOf(c, a, o), SplicedSegments(c, a, o), Len(c) + 1, Len(FindBreaks(c)))
<1> DEFINE n == Len(FindBreaks(c))
           plan == PlanOf(c, a, o)
<1>1. c \in Seq(Segments) /\ Len(c) \in Nat /\ n \in Nat \ {0}
  BY BreaksFound, LenProperties, EmptySeq DEF IsContent
<1>2. PICK x : Reached(c, a, o, x, n) /\ SplicedSegments(c, a, o) = Ended(c, x)
  BY AllBreaksReached
<1>3. DOMAIN plan = 1 .. n /\ n \in 1 .. n
  BY <1>1 DEF PlanOf
<1>4. GoodPlan(plan, Len(c))
  BY <1>1, PlanIsGood
<1>5. x.cursor = plan[n].after /\ SplicedUpTo(plan, x.segments, x.cursor, n)
  BY <1>1, <1>2 DEF Reached
<1> DEFINE span == SubSeq(c, x.cursor, Len(c))
<1> HIDE DEF n, plan
<1>6. x.cursor \in Nat \ {0} /\ x.cursor <= Len(c)
  BY <1>3, <1>4, <1>5 DEF GoodPlan
<1>7. Run(span, x.cursor) /\ Len(span) = Len(c) - x.cursor + 1
  BY <1>1, <1>6, SpanRuns
<1>8. /\ Run(Resumed(span), x.cursor) /\ Len(Resumed(span)) = Len(span)
      /\ Resumed(span)[1].disc
  <2> HIDE DEF span
  <2>1. Len(span) # 0
    BY <1>1, <1>6, <1>7
  <2> QED BY <1>7, <2>1, ResumedRuns
<1>9. SplicedUpTo(plan, x.segments \o Resumed(span), x.cursor + Len(Resumed(span)), n)
  <2> HIDE DEF span
  <2> QED BY <1>1, <1>5, <1>8, SpanGoesOn
<1>10. x.cursor + Len(Resumed(span)) = Len(c) + 1
  <2> HIDE DEF span
  <2> QED BY <1>1, <1>6, <1>7, <1>8
<1> QED BY <1>2, <1>9, <1>10 DEF Ended, n, plan

----------------------------------------------------------------------------
(* The content is what was prepared or read, numbered.                      *)
LEMMA NumberedIsContent ==
  ASSUME NEW s \in Seq(Segments), \A i \in DOMAIN s : ~s[i].ad
  PROVE  IsContent(Numbered(s))
<1> DEFINE t == Numbered(s)
<1>1. DOMAIN s = 1 .. Len(s) /\ Len(s) \in Nat /\ \A i \in 1 .. Len(s) : s[i] \in Segments
  BY LenProperties
<1>2. t = [i \in 1 .. Len(s) |-> [s[i] EXCEPT !.id = i]]
  BY <1>1 DEF Numbered
<1>3. \A i \in 1 .. Len(s) : t[i] \in Segments /\ ~t[i].ad /\ t[i].id = i
  <2> SUFFICES ASSUME NEW i \in 1 .. Len(s)
               PROVE  t[i] \in Segments /\ ~t[i].ad /\ t[i].id = i
    OBVIOUS
  <2>1. s[i] \in Segments /\ ~s[i].ad /\ i \in Nat
    BY <1>1
  <2>2. t[i] = [s[i] EXCEPT !.id = i]
    BY <1>2
  <2> HIDE DEF t
  <2> QED BY <2>1, <2>2 DEF Segments
<1>4. DOMAIN t = 1 .. Len(s)
  BY <1>2
<1> HIDE DEF t
<1>5. t \in [1 .. Len(s) -> Segments]
  BY <1>2, <1>3
<1>6. t \in Seq(Segments)
  BY <1>1, <1>5
<1>7. IsContent(t)
  BY <1>3, <1>4, <1>6 DEF IsContent
<1> QED BY <1>7 DEF t

Asked == [start : Int, duration : Int]
Uncued == {s \in Segments : ~s.ad}

LEMMA InsertedTyped ==
  ASSUME NEW A, NEW sorted \in Seq(A), NEW b \in A
  PROVE  Inserted(sorted, b) \in Seq(A)
<1> DEFINE earlier == {i \in DOMAIN sorted : sorted[i].start <= b.start}
           after == Cardinality(earlier)
           n == Len(sorted)
<1>1. n \in Nat /\ DOMAIN sorted = 1 .. n /\ \A i \in 1 .. n : sorted[i] \in A
  BY LenProperties
<1>2. after \in Nat /\ after <= n
  <2>1. IsFiniteSet(1 .. n) /\ Cardinality(1 .. n) = n
    <3>1. /\ IsFiniteSet(1 .. n)
          /\ Cardinality(1 .. n) = IF 1 > n THEN 0 ELSE n - 1 + 1
      <4> HIDE DEF n
      <4>1. 1 \in Int /\ n \in Int
        BY <1>1
      <4> QED BY <4>1, FS_Interval
    <3> HIDE DEF n
    <3> QED BY <1>1, <3>1
  <2>2. earlier \subseteq 1 .. n
    BY <1>1
  <2>3. IsFiniteSet(earlier) /\ Cardinality(earlier) <= Cardinality(1 .. n)
    <3> HIDE DEF earlier, n
    <3> QED BY <2>1, <2>2, FS_Subset
  <2>4. after \in Nat
    <3> HIDE DEF earlier
    <3> QED BY <2>3, FS_CardinalityType
  <2> QED BY <2>1, <2>3, <2>4
<1> HIDE DEF after, n
<1>3. SubSeq(sorted, 1, after) \in Seq(A)
  <2>1. \A i \in 1 .. after : sorted[i] \in A
    BY <1>1, <1>2
  <2> QED BY <1>2, <2>1, SubSeqProperties
<1>4. SubSeq(sorted, after + 1, n) \in Seq(A)
  <2>1. \A i \in after + 1 .. n : sorted[i] \in A
    BY <1>1, <1>2
  <2> QED BY <1>1, <1>2, <2>1, SubSeqProperties
<1>5. <<b>> \in Seq(A)
  OBVIOUS
<1>6. (SubSeq(sorted, 1, after) \o <<b>>) \o SubSeq(sorted, after + 1, n) \in Seq(A)
  BY <1>3, <1>4, <1>5, ConcatProperties
<1>7. Inserted(sorted, b) = (SubSeq(sorted, 1, after) \o <<b>>) \o SubSeq(sorted, after + 1, n)
  BY DEF Inserted, after, n
<1> QED BY <1>6, <1>7

(* sortBreaks returns what it was given breaks of.                           *)
LEMMA SortedSteps ==
  ASSUME NEW A, NEW breaks \in Seq(A)
  PROVE  \E f \in [0 .. Len(breaks) -> Seq(A)] :
           /\ f[0] = <<>> /\ SortedBreaks(breaks) = f[Len(breaks)]
           /\ \A k \in 1 .. Len(breaks) : f[k] = Inserted(f[k - 1], breaks[k])
<1> DEFINE n == Len(breaks)
           V == Seq(A)
           One(x, k) == Inserted(x, breaks[k])
           Steps(f) == [k \in 0 .. n |-> IF k = 0 THEN <<>> ELSE One(f[k - 1], k)]
           chosen == CHOOSE f : f = Steps(f)
<1>1. n \in Nat /\ \A k \in 1 .. n : breaks[k] \in A
  OBVIOUS
<1>2. SortedBreaks(breaks) = chosen[n]
  BY DEF SortedBreaks
<1>3. <<>> \in V
  OBVIOUS
<1>4. \A k \in 1 .. n, x \in V : One(x, k) \in V
  BY <1>1, InsertedTyped
<1>5. PICK next \in [1 .. n -> [V -> V]] :
        \A k \in 1 .. n, x \in V : next[k][x] = One(x, k)
  <2> DEFINE all == [k \in 1 .. n |-> [x \in V |-> One(x, k)]]
  <2>1. \A k \in 1 .. n, x \in V : all[k][x] = One(x, k)
    OBVIOUS
  <2> HIDE DEF One, V
  <2>2. all \in [1 .. n -> [V -> V]]
    BY <1>4
  <2> QED BY <2>1, <2>2
<1> HIDE DEF One, V
<1>6. PICK f : Iterates(f, V, <<>>, n, next)
  BY <1>1, <1>3, StepsExist
<1>7. \A k \in 1 .. n : k # 0 /\ k \in 0 .. n /\ k - 1 \in 0 .. n
  BY <1>1
<1>8. \A k \in 1 .. n : f[k] = One(f[k - 1], k)
  BY <1>5, <1>6, <1>7 DEF Iterates
<1>9. f = Steps(f)
  <2>1. f \in [0 .. n -> V] /\ f[0] = <<>>
    BY <1>6 DEF Iterates
  <2>2. \A k \in 0 .. n : f[k] = Steps(f)[k]
    BY <1>1, <1>8, <2>1
  <2> QED BY <2>1, <2>2
<1>10. chosen = Steps(chosen)
  BY <1>9
<1> HIDE DEF chosen
<1>11. chosen[0] = <<>> /\ \A k \in 1 .. n : chosen[k] = One(chosen[k - 1], k)
  <2>1. \A k \in 0 .. n : chosen[k] = Steps(chosen)[k]
    BY <1>10
  <2> QED BY <1>1, <1>7, <2>1
<1>12. chosen \in [0 .. n -> V]
  <2>1. \A k \in 1 .. n : chosen[k - 1] \in V => chosen[k] = next[k][chosen[k - 1]]
    BY <1>5, <1>11
  <2>2. \A k \in 0 .. n : chosen[k] \in V
    BY <1>1, <1>3, <1>6, <1>11, <2>1, StepsAgree
  <2> QED BY <1>10, <2>2
<1> QED BY <1>2, <1>11, <1>12 DEF One, V


LEMMA PlanTyped ==
  ASSUME NEW duration \in Int
  PROVE  EvenSegmentPlan(duration) \in Seq(Int)
<1> DEFINE n == SegmentCount(duration)
           Keyframe(k) == (k * duration) \div n
<1>1. SegmentSeconds \in Nat \ {0}
  BY ContentPrepAssumption DEF ContentPrepAssumption
<1>2. n \in Nat \ {0}
  <2> DEFINE rounded == (2 * duration + SegmentSeconds) \div (2 * SegmentSeconds)
  <2>1. rounded \in Int
    BY <1>1
  <2>2. n = IF rounded < 1 THEN 1 ELSE rounded
    BY DEF SegmentCount
  <2> HIDE DEF rounded, n
  <2> QED BY <2>1, <2>2
<1>3. EvenSegmentPlan(duration) = [k \in 1 .. n |-> Keyframe(k) - Keyframe(k - 1)]
  BY DEF EvenSegmentPlan
<1> HIDE DEF n
<1>4. \A k \in Int : Keyframe(k) \in Int
  <2> SUFFICES ASSUME NEW k \in Int
               PROVE  Keyframe(k) \in Int
    OBVIOUS
  <2>1. k * duration \in Int
    OBVIOUS
  <2>2. \A x \in Int : x \div n \in Int
    BY <1>2
  <2> QED BY <2>1, <2>2
<1> HIDE DEF Keyframe
<1>5. \A k \in 1 .. n : Keyframe(k) - Keyframe(k - 1) \in Int
  <2>1. \A k \in 1 .. n : k \in Int /\ k - 1 \in Int
    BY <1>2
  <2>2. \A k \in 1 .. n : Keyframe(k) \in Int /\ Keyframe(k - 1) \in Int
    BY <1>4, <2>1
  <2> QED BY <2>2
<1>6. [k \in 1 .. n |-> Keyframe(k) - Keyframe(k - 1)] \in [1 .. n -> Int]
  BY <1>5
<1> QED BY <1>2, <1>3, <1>6

LEMMA CuedSpanTyped ==
  ASSUME NEW total \in Int, NEW breaks \in Seq(Asked), NEW i \in 1 .. Len(breaks) + 1
  PROVE  CuedSpan(total, breaks, i) \in Seq(Uncued)
<1> DEFINE from == IF i = 1 THEN 0 ELSE breaks[i - 1].start
           last == i > Len(breaks)
           durs == EncodeHLS(total, from, IF last THEN 0 ELSE breaks[i].start - from)
           announces(k) == ~last /\ k = Len(durs)
           seg(k) == ContentSegment(durs[k], announces(k), i > 1 /\ k = 1,
                                    IF announces(k) THEN breaks[i].duration ELSE 0)
<1>1. Len(breaks) \in Nat /\ \A k \in 1 .. Len(breaks) : breaks[k] \in Asked
  BY LenProperties
<1>2. from \in Int
  <2>1. i # 1 => breaks[i - 1] \in Asked
    BY <1>1
  <2> QED BY <2>1 DEF Asked
<1>3. ~last => breaks[i].start \in Int /\ breaks[i].duration \in Int
  <2>1. ~last => breaks[i] \in Asked
    BY <1>1
  <2> QED BY <2>1 DEF Asked
<1> HIDE DEF from
<1>4. durs \in Seq(Int)
  <2> DEFINE limit == IF last THEN 0 ELSE breaks[i].start - from
  <2>1. limit \in Int
    BY <1>2, <1>3
  <2> HIDE DEF limit
  <2>2. EncodeHLS(total, from, limit) \in Seq(Int)
    BY <1>2, <2>1, PlanTyped DEF EncodeHLS
  <2> QED BY <2>2 DEF limit
<1>5. CuedSpan(total, breaks, i) = [k \in DOMAIN durs |-> seg(k)]
  BY DEF CuedSpan, from
<1> HIDE DEF durs, last
<1>6. \A k \in DOMAIN durs : seg(k) \in Uncued
  <2> SUFFICES ASSUME NEW k \in DOMAIN durs
               PROVE  seg(k) \in Uncued
    OBVIOUS
  <2>1. durs[k] \in Int
    BY <1>4
  <2>2. /\ announces(k) \in BOOLEAN /\ (i > 1 /\ k = 1) \in BOOLEAN
        /\ (IF announces(k) THEN breaks[i].duration ELSE 0) \in Int
    BY <1>3
  <2> HIDE DEF announces
  <2> QED BY <2>1, <2>2 DEF ContentSegment, Uncued, Segments
<1> HIDE DEF seg
<1>7. DOMAIN durs = 1 .. Len(durs) /\ Len(durs) \in Nat
  BY <1>4, LenProperties
<1>8. [k \in 1 .. Len(durs) |-> seg(k)] \in [1 .. Len(durs) -> Uncued]
  BY <1>6, <1>7
<1> QED BY <1>5, <1>7, <1>8

LEMMA SortedTyped ==
  ASSUME NEW A, NEW breaks \in Seq(A)
  PROVE  SortedBreaks(breaks) \in Seq(A)
<1>1. Len(breaks) \in 0 .. Len(breaks)
  BY LenProperties
<1> QED BY <1>1, SortedSteps

LEMMA PreparedIsContent ==
  ASSUME NEW total \in Int, NEW breaks \in Seq(Asked)
  PROVE  IsContent(InjectBreaks(total, breaks))
<1> DEFINE n == Len(breaks) + 1
           spans == [i \in 1 .. n |-> CuedSpan(total, breaks, i)]
<1>1. n \in Nat
  BY LenProperties
<1>2. spans \in [1 .. n -> Seq(Uncued)]
  BY CuedSpanTyped
<1>3. spans \in Seq(Seq(Uncued))
  <2> HIDE DEF spans, n
  <2> QED BY <1>1, <1>2
<1> HIDE DEF spans
<1>4. FlattenSeq(spans) \in Seq(Uncued)
  BY <1>3, FlattenTyped
<1>5. Uncued \subseteq Segments /\ \A s \in Uncued : ~s.ad
  BY DEF Uncued
<1>6. /\ FlattenSeq(spans) \in Seq(Segments)
      /\ \A i \in DOMAIN FlattenSeq(spans) : ~FlattenSeq(spans)[i].ad
  <2>1. \A i \in DOMAIN FlattenSeq(spans) : FlattenSeq(spans)[i] \in Uncued
    BY <1>4
  <2> QED BY <1>4, <1>5, <2>1, SeqMonotonic
<1>7. InjectBreaks(total, breaks) = Numbered(FlattenSeq(spans))
  BY DEF InjectBreaks, spans
<1> QED BY <1>6, <1>7, NumberedIsContent

----------------------------------------------------------------------------
(* The invariant: what is spliced is content and an ad.                     *)
SplicedWith ==
  /\ IsAd(ad) /\ TotalDuration(ad) >= 0 /\ opts \in Options
  /\ result = SpliceWithOptions(declared, content, ad, opts)

VodInv ==
  /\ stage \in {"start", "content", "spliced"}
  /\ stage # "start" => IsContent(content) /\ declared \in Int
  /\ stage = "spliced" => SplicedWith

LEMMA TotalNotNegative ==
  ASSUME NEW s \in Seq(Segments), \A i \in DOMAIN s : s[i].dur >= 0
  PROVE  TotalDuration(s) >= 0
<1> DEFINE n == Len(s)
<1>1. n \in Nat /\ \A k \in 1 .. n : s[k].dur \in Int /\ s[k].dur >= 0
  <2>1. DOMAIN s = 1 .. n /\ n \in Nat /\ \A k \in 1 .. n : s[k] \in Segments
    BY LenProperties
  <2> QED BY <2>1 DEF Segments
<1>2. PICK f \in [0 .. n -> Int] :
        /\ f[0] = 0 /\ TotalDuration(s) = f[n]
        /\ \A k \in 1 .. n : f[k] = f[k - 1] + s[k].dur
  BY TotalSteps
<1> HIDE DEF n
<1> DEFINE T == {k \in Nat : \A i \in 0 .. n : i <= k => f[i] >= 0}
<1>3. 0 \in T
  BY <1>2
<1>4. ASSUME NEW k \in T
      PROVE  k + 1 \in T
  <2> SUFFICES ASSUME NEW i \in 0 .. n, i <= k + 1
               PROVE  f[i] >= 0
    OBVIOUS
  <2>1. CASE i = 0
    BY <1>2, <2>1
  <2>2. CASE i # 0
    <3>1. i \in 1 .. n /\ i - 1 \in 0 .. n /\ i - 1 <= k
      BY <1>1, <2>2
    <3>2. f[i - 1] >= 0 /\ f[i - 1] \in Int
      BY <3>1
    <3>3. f[i] = f[i - 1] + s[i].dur
      BY <1>2, <3>1
    <3>4. s[i].dur \in Int /\ s[i].dur >= 0
      BY <1>1, <3>1
    <3> QED BY <3>2, <3>3, <3>4
  <2> QED BY <2>1, <2>2
<1>5. T = Nat
  <2>1. T \subseteq Nat
    OBVIOUS
  <2> HIDE DEF T
  <2> QED BY <1>3, <1>4, <2>1, SetInduction
<1>6. n \in T /\ n \in 0 .. n
  <2> HIDE DEF T
  <2> QED BY <1>1, <1>5
<1> QED BY <1>2, <1>6

LEMMA AdPlaylistIsAd ==
  ASSUME NEW durs \in Seq(Nat)
  PROVE  IsAd(AdPlaylist(durs)) /\ TotalDuration(AdPlaylist(durs)) >= 0
<1> DEFINE seg(i) == [ContentSegment(durs[i], FALSE, FALSE, 0) EXCEPT !.ad = TRUE, !.id = i]
           t == AdPlaylist(durs)
<1>1. DOMAIN durs = 1 .. Len(durs) /\ Len(durs) \in Nat /\ \A i \in 1 .. Len(durs) : durs[i] \in Nat
  BY LenProperties
<1>2. t = [i \in 1 .. Len(durs) |-> seg(i)]
  BY <1>1 DEF AdPlaylist
<1>3. \A i \in 1 .. Len(durs) : seg(i) \in Segments /\ seg(i).ad /\ seg(i).id = i /\ seg(i).dur = durs[i]
  <2> SUFFICES ASSUME NEW i \in 1 .. Len(durs)
               PROVE  seg(i) \in Segments /\ seg(i).ad /\ seg(i).id = i /\ seg(i).dur = durs[i]
    OBVIOUS
  <2>1. durs[i] \in Nat /\ i \in Nat
    BY <1>1
  <2> DEFINE c == ContentSegment(durs[i], FALSE, FALSE, 0)
  <2>2. c \in Segments /\ c.dur = durs[i]
    BY <2>1 DEF ContentSegment, Segments
  <2> HIDE DEF c
  <2>3. seg(i) = [c EXCEPT !.ad = TRUE, !.id = i]
    BY DEF c
  <2> HIDE DEF seg
  <2> QED BY <2>1, <2>2, <2>3 DEF Segments
<1> HIDE DEF seg, t
<1>4. t \in [1 .. Len(durs) -> Segments]
  BY <1>2, <1>3
<1>5. t \in Seq(Segments) /\ DOMAIN t = 1 .. Len(durs)
  BY <1>1, <1>4
<1>6. IsAd(t)
  BY <1>2, <1>3, <1>5 DEF IsAd
<1>7. TotalDuration(t) >= 0
  <2>1. \A i \in DOMAIN t : t[i].dur >= 0
    BY <1>1, <1>2, <1>3, <1>5
  <2> QED BY <1>5, <2>1, TotalNotNegative
<1> QED BY <1>6, <1>7 DEF t

LEMMA SecondsTyped ==
  ASSUME NEW d \in Int
  PROVE  (d + Second - 1) \div Second \in Int
BY StitchAssumption DEF StitchAssumption

LEMMA VodStarts == Init => VodInv
BY DEF Init, VodInv

LEMMA PrepareKeeps ==
  ASSUME VodInv, Prepare
  PROVE  VodInv'
<1>1. PICK r \in Requests : content' = InjectBreaks(r.total, SortedBreaks(r.breaks))
  BY DEF Prepare
<1>2. r.total \in Int /\ r.breaks \in Seq(Asked)
  BY VodAssumption DEF VodAssumption, Asked
<1>3. IsContent(content')
  BY <1>1, <1>2, SortedTyped, PreparedIsContent
<1>4. declared' \in Int /\ stage' = "content"
  <2>1. SegmentSeconds \in Int
    BY ContentPrepAssumption DEF ContentPrepAssumption
  <2>2. declared' = (SegmentSeconds + Second - 1) \div Second /\ stage' = "content"
    BY DEF Prepare
  <2> QED BY <2>1, <2>2, SecondsTyped
<1> QED BY <1>3, <1>4 DEF VodInv

LEMMA MaxOfTwo ==
  ASSUME NEW x \in Int, NEW y \in Int
  PROVE  Max({x, y}) \in Int /\ x <= Max({x, y}) /\ y <= Max({x, y})
<1>1. \E m \in {x, y} : \A z \in {x, y} : m >= z
  <2>1. CASE x >= y
    BY <2>1
  <2>2. CASE ~(x >= y)
    BY <2>2
  <2> QED BY <2>1, <2>2
<1>2. Max({x, y}) \in {x, y} /\ \A z \in {x, y} : Max({x, y}) >= z
  BY <1>1 DEF Max
<1> QED BY <1>2

(* maxSegmentDuration covers every segment.                                 *)
LEMMA LongestSteps ==
  ASSUME NEW s \in Seq(Segments)
  PROVE  \E f \in [0 .. Len(s) -> Int] :
           /\ f[0] = 0 /\ MaxSegmentDuration(s) = f[Len(s)]
           /\ \A k \in 1 .. Len(s) : f[k] = Max({f[k - 1], (s[k].dur + Second - 1) \div Second})
<1> DEFINE n == Len(s)
           V == Int
           One(x, k) == Max({x, (s[k].dur + Second - 1) \div Second})
           Steps(f) == [k \in 0 .. n |-> IF k = 0 THEN 0 ELSE One(f[k - 1], k)]
           chosen == CHOOSE f : f = Steps(f)
<1>1. n \in Nat /\ \A k \in 1 .. n : s[k] \in Segments
  OBVIOUS
<1>2. MaxSegmentDuration(s) = chosen[n]
  BY DEF MaxSegmentDuration
<1>3. 0 \in V
  OBVIOUS
<1>4. \A k \in 1 .. n, x \in V : One(x, k) \in V
  BY <1>1, SecondsTyped, MaxOfTwo DEF Segments
<1>5. PICK next \in [1 .. n -> [V -> V]] :
        \A k \in 1 .. n, x \in V : next[k][x] = One(x, k)
  <2> DEFINE all == [k \in 1 .. n |-> [x \in V |-> One(x, k)]]
  <2>1. \A k \in 1 .. n, x \in V : all[k][x] = One(x, k)
    OBVIOUS
  <2> HIDE DEF One, V
  <2>2. all \in [1 .. n -> [V -> V]]
    BY <1>4
  <2> QED BY <2>1, <2>2
<1> HIDE DEF One, V
<1>6. PICK f : Iterates(f, V, 0, n, next)
  BY <1>1, <1>3, StepsExist
<1>7. \A k \in 1 .. n : k # 0 /\ k \in 0 .. n /\ k - 1 \in 0 .. n
  BY <1>1
<1>8. \A k \in 1 .. n : f[k] = One(f[k - 1], k)
  BY <1>5, <1>6, <1>7 DEF Iterates
<1>9. f = Steps(f)
  <2>1. f \in [0 .. n -> V] /\ f[0] = 0
    BY <1>6 DEF Iterates
  <2>2. \A k \in 0 .. n : f[k] = Steps(f)[k]
    BY <1>1, <1>8, <2>1
  <2> QED BY <2>1, <2>2
<1>10. chosen = Steps(chosen)
  BY <1>9
<1> HIDE DEF chosen
<1>11. chosen[0] = 0 /\ \A k \in 1 .. n : chosen[k] = One(chosen[k - 1], k)
  <2>1. \A k \in 0 .. n : chosen[k] = Steps(chosen)[k]
    BY <1>10
  <2> QED BY <1>1, <1>7, <2>1
<1>12. chosen \in [0 .. n -> V]
  <2>1. \A k \in 1 .. n : chosen[k - 1] \in V => chosen[k] = next[k][chosen[k - 1]]
    BY <1>5, <1>11
  <2>2. \A k \in 0 .. n : chosen[k] \in V
    BY <1>1, <1>3, <1>6, <1>11, <2>1, StepsAgree
  <2> QED BY <1>10, <2>2
<1> QED BY <1>2, <1>11, <1>12 DEF One, V


LEMMA LongestIsInt ==
  ASSUME NEW s \in Seq(Segments)
  PROVE  MaxSegmentDuration(s) \in Int
<1>1. Len(s) \in 0 .. Len(s)
  BY LenProperties
<1> QED BY <1>1, LongestSteps

LEMMA ReadKeeps ==
  ASSUME VodInv, Read
  PROVE  VodInv'
<1>1. PICK p \in Playlists : content' = Numbered(p)
  BY DEF Read
<1>2. p \in Seq(Segments) /\ \A i \in DOMAIN p : ~p[i].ad
  BY VodAssumption DEF VodAssumption
<1>3. IsContent(content')
  BY <1>1, <1>2, NumberedIsContent
<1>4. declared' \in Int /\ stage' = "content"
  <2>1. declared' = MaxSegmentDuration(content') /\ stage' = "content"
    BY DEF Read
  <2>2. content' \in Seq(Segments)
    BY <1>3 DEF IsContent
  <2> QED BY <2>1, <2>2, LongestIsInt
<1> QED BY <1>3, <1>4 DEF VodInv

LEMMA SpliceKeeps ==
  ASSUME VodInv, Splice
  PROVE  VodInv'
<1>1. IsAd(ad') /\ TotalDuration(ad') >= 0
  <2>1. PICK a \in Ads : ad' = AdPlaylist(a)
    BY DEF Splice
  <2>2. a \in Seq(Nat)
    BY VodAssumption DEF VodAssumption
  <2> QED BY <2>1, <2>2, AdPlaylistIsAd
<1>2. opts' \in Options
  <2>1. opts' \in CallerOptions
    BY DEF Splice
  <2> QED BY <2>1, VodAssumption DEF VodAssumption
<1>3. result' = SpliceWithOptions(declared', content', ad', opts')
  BY DEF Splice
<1>4. SplicedWith'
  BY <1>1, <1>2, <1>3 DEF SplicedWith
<1>5. /\ stage' = "spliced" /\ content' = content /\ declared' = declared
      /\ IsContent(content) /\ declared \in Int
  BY DEF Splice, VodInv
<1>6. IsContent(content') /\ declared' \in Int
  BY <1>5
<1> QED BY <1>4, <1>5, <1>6 DEF VodInv

LEMMA VodInvariant == Spec => []VodInv
<1>1. VodInv /\ [Next]_vars => VodInv'
  <2> SUFFICES ASSUME VodInv, [Next]_vars
               PROVE  VodInv'
    OBVIOUS
  <2>1. CASE Prepare
    BY <2>1, PrepareKeeps
  <2>2. CASE Read
    BY <2>2, ReadKeeps
  <2>3. CASE Splice
    BY <2>3, SpliceKeeps
  <2>4. CASE UNCHANGED vars
    BY <2>4 DEF vars, VodInv, SplicedWith
  <2> QED BY <2>1, <2>2, <2>3, <2>4 DEF Next
<1> QED BY <1>1, VodStarts, PTL DEF Spec

(* So the output of a splice is what the plan says.                         *)
LEMMA OutAsPlanned ==
  ASSUME VodInv, Spliced
  PROVE  /\ IsContent(content) /\ IsAd(ad) /\ opts \in Options
         /\ FindBreaks(content) # <<>>
         /\ SplicedUpTo(PlanOf(content, ad, opts), Out, Len(content) + 1, Len(FindBreaks(content)))
         /\ result.target = TargetDuration(declared, Out) /\ declared \in Int
         /\ \A i \in DOMAIN FindBreaks(content) :
              ~Mismatch(ad, BreakTarget(content, FindBreaks(content)[i], opts), opts)
         /\ TotalDuration(ad) >= 0
<1>1. /\ stage = "spliced" /\ result.error = "none" /\ IsContent(content) /\ declared \in Int
      /\ SplicedWith
  BY DEF VodInv, Spliced
<1>2. IsAd(ad) /\ TotalDuration(ad) >= 0 /\ opts \in Options
      /\ result = SpliceWithOptions(declared, content, ad, opts)
  BY <1>1 DEF SplicedWith
<1> DEFINE mismatch == \E i \in DOMAIN FindBreaks(content) :
                         Mismatch(ad, BreakTarget(content, FindBreaks(content)[i], opts), opts)
           segments == SplicedSegments(content, ad, opts)
           spliced == [error |-> "none", segments |-> segments,
                       target |-> TargetDuration(declared, segments)]
<1>3. result = IF ~HasBreaks(content) THEN Failed("no ad break")
                 ELSE IF mismatch THEN Failed("duration mismatch") ELSE spliced
  BY <1>2 DEF SpliceWithOptions
<1>4. Failed("no ad break").error # "none" /\ Failed("duration mismatch").error # "none"
  BY DEF Failed
<1>5. HasBreaks(content) /\ ~mismatch /\ result = spliced
  <2> HIDE DEF mismatch, spliced
  <2> QED BY <1>1, <1>3, <1>4
<1>6. FindBreaks(content) # <<>>
  BY <1>5 DEF HasBreaks, FindBreaks
<1>7. Out = segments /\ result.target = TargetDuration(declared, segments)
  <2> HIDE DEF segments
  <2> QED BY <1>5 DEF Out
<1>8. SplicedUpTo(PlanOf(content, ad, opts), segments, Len(content) + 1, Len(FindBreaks(content)))
  BY <1>1, <1>2, <1>6, SplicedAsPlanned
<1> HIDE DEF segments
<1> QED BY <1>1, <1>2, <1>5, <1>6, <1>7, <1>8

(* The flight at f is the one planned for some break.                       *)
FlightOfBreak(f, br) ==
  /\ LastBefore(f) = SpanEnd(br, opts) /\ FirstAfter(f) = NextCursor(br, opts)
  /\ FlightSegments(f) = Flight(ad, BreakTarget(content, br, opts), opts)

LEMMA FlightsAreWhole ==
  ASSUME NEW plan, NEW cursor, NEW k \in Nat, SplicedUpTo(plan, Out, cursor, k),
         NEW f \in Flights
  PROVE  \E j \in 1 .. k : Placed(plan, Out, cursor, j, f[1], f[2])
<1>1. Out \in Seq(Segments) /\ Len(Out) \in Nat /\ DOMAIN Out = 1 .. Len(Out)
  <2>1. Out \in Seq(Segments)
    BY DEF SplicedUpTo
  <2> QED BY <2>1, LenProperties
<1>2. /\ f[1] \in 1 .. Len(Out) /\ f[2] \in 1 .. Len(Out) /\ f[1] <= f[2]
      /\ \A i \in f[1] .. f[2] : Out[i].ad
      /\ f[1] = 1 \/ ~Out[f[1] - 1].ad
      /\ f[2] = Len(Out) \/ ~Out[f[2] + 1].ad
  BY <1>1 DEF Flights
<1>3. Out[f[1]].ad
  BY <1>2
<1>4. PICK j \in 1 .. k, p \in 1 .. f[1], q \in f[1] .. Len(Out) : Placed(plan, Out, cursor, j, p, q)
  BY <1>1, <1>2, <1>3 DEF SplicedUpTo, AdsPlaced
<1>5. /\ \A x \in p .. q : Out[x].ad
      /\ p = 1 \/ ~Out[p - 1].ad
      /\ q = Len(Out) \/ ~Out[q + 1].ad
  BY <1>4 DEF Placed
<1>6. p = f[1]
  <2>1. ASSUME p < f[1]
        PROVE  FALSE
    <3>1. f[1] - 1 \in p .. q /\ f[1] # 1
      BY <1>1, <1>2, <2>1
    <3> QED BY <1>2, <1>5, <3>1
  <2> QED BY <1>2, <2>1
<1>7. q = f[2]
  <2>1. ASSUME q < f[2]
        PROVE  FALSE
    <3>1. q \in Int /\ f[1] <= q /\ f[2] <= Len(Out)
      BY <1>1, <1>2
    <3>2. q + 1 \in f[1] .. f[2] /\ q # Len(Out)
      <4> DEFINE last == Len(Out)
      <4>1. last \in Int /\ f[1] \in Int /\ f[2] \in Int
        BY <1>1, <1>2
      <4>2. q < f[2] /\ f[2] <= last
        BY <2>1, <3>1
      <4> HIDE DEF last
      <4>3. q + 1 \in f[1] .. f[2] /\ q # last
        BY <3>1, <4>1, <4>2
      <4> QED BY <4>3 DEF last
    <3> QED BY <1>2, <1>5, <3>2
  <2>2. ASSUME f[2] < q
        PROVE  FALSE
    <3>1. f[2] + 1 \in p .. q /\ f[2] # Len(Out)
      BY <1>1, <1>2, <2>2
    <3> QED BY <1>2, <1>5, <3>1
  <2> QED BY <1>1, <1>2, <2>1, <2>2
<1> QED BY <1>4, <1>6, <1>7

LEMMA FlightsFollowPlan ==
  ASSUME VodInv, Spliced, NEW f \in Flights
  PROVE  \E j \in 1 .. Len(FindBreaks(content)) : FlightOfBreak(f, FindBreaks(content)[j])
<1> DEFINE n == Len(FindBreaks(content))
           plan == PlanOf(content, ad, opts)
<1>1. /\ IsContent(content) /\ content \in Seq(Segments) /\ IsAd(ad) /\ opts \in Options
      /\ SplicedUpTo(plan, Out, Len(content) + 1, n)
  BY OutAsPlanned DEF IsContent
<1>2. n \in Nat /\ GoodPlan(plan, Len(content)) /\ Len(content) \in Nat
  BY <1>1, BreaksFound, PlanIsGood, LenProperties
<1>3. PICK j \in 1 .. n : Placed(plan, Out, Len(content) + 1, j, f[1], f[2])
  <2> HIDE DEF plan, n
  <2> QED BY <1>1, <1>2, FlightsAreWhole
<1>4. Out \in Seq(Segments) /\ Len(Out) \in Nat /\ DOMAIN Out = 1 .. Len(Out)
  <2>1. Out \in Seq(Segments)
    BY <1>1 DEF SplicedUpTo
  <2> QED BY <2>1, LenProperties
<1>5. f[1] \in 1 .. Len(Out) /\ f[2] \in 1 .. Len(Out) /\ f[1] <= f[2]
  BY <1>4 DEF Flights
<1> DEFINE br == FindBreaks(content)[j]
<1>6. /\ plan[j].before = SpanEnd(br, opts) /\ plan[j].after = NextCursor(br, opts)
      /\ plan[j].flight = Flight(ad, BreakTarget(content, br, opts), opts)
  BY DEF PlanOf
<1>7. /\ plan[j].after \in Nat /\ plan[j].after <= Len(content)
      /\ GoodFlight(plan[j].flight)
  <2>1. j \in DOMAIN plan
    BY DEF PlanOf
  <2> HIDE DEF plan
  <2> QED BY <1>2, <2>1 DEF GoodPlan
<1> HIDE DEF plan, br, n
<1>8. LastBefore(f) = plan[j].before
  BY <1>3 DEF LastBefore, Placed
<1>9. FirstAfter(f) = plan[j].after
  BY <1>2, <1>3, <1>7 DEF FirstAfter, Placed
<1>10. FlightSegments(f) = plan[j].flight
  <2> DEFINE s == FlightSegments(f)
             t == plan[j].flight
  <2>1. \A i \in f[1] .. f[2] : i \in 1 .. Len(Out)
    BY <1>4, <1>5
  <2>2. \A i \in f[1] .. f[2] : Out[i] \in Segments
    BY <1>4, <2>1
  <2>3. /\ s \in Seq(Segments) /\ Len(s) = f[2] - f[1] + 1
        /\ \A i \in 1 .. f[2] - f[1] + 1 : s[i] = Out[f[1] + i - 1]
    BY <1>5, <2>2, SubSeqProperties DEF FlightSegments
  <2>4. t \in Seq(Segments) /\ Len(t) = f[2] - f[1] + 1
    BY <1>3, <1>7 DEF Placed, GoodFlight
  <2>5. \A x \in f[1] .. f[2] : Out[x] = t[x - f[1] + 1]
    BY <1>3 DEF Placed
  <2> HIDE DEF s, t
  <2>6. \A i \in 1 .. Len(s) : s[i] = t[i]
    <3> SUFFICES ASSUME NEW i \in 1 .. Len(s)
                 PROVE  s[i] = t[i]
      OBVIOUS
    <3> DEFINE x == f[1] + i - 1
    <3>1. x \in f[1] .. f[2] /\ x - f[1] + 1 = i /\ i \in 1 .. f[2] - f[1] + 1
      BY <1>5, <2>3
    <3>2. s[i] = Out[x]
      BY <2>3, <3>1
    <3> HIDE DEF x
    <3> QED BY <2>5, <3>1, <3>2
  <2>7. s = t
    BY <2>3, <2>4, <2>6, SeqEqual
  <2> QED BY <2>7 DEF s, t
<1>11. FlightOfBreak(f, br)
  BY <1>6, <1>8, <1>9, <1>10 DEF FlightOfBreak
<1> QED BY <1>11 DEF br, n

----------------------------------------------------------------------------
(* Splicing never loses content other than what a break covers, and never   *)
(* repeats or reorders any, with any playlist, ad and options.              *)
LEMMA KeptByPlan ==
  ASSUME VodInv, Spliced, NEW i \in DOMAIN content
  PROVE  Kept(i) \/ (~opts.preserve /\ Signalled(i))
<1> DEFINE n == Len(FindBreaks(content))
           plan == PlanOf(content, ad, opts)
<1>1. /\ content \in Seq(Segments) /\ DOMAIN content = 1 .. Len(content) /\ Len(content) \in Nat
      /\ Complete(plan, Out, Len(content) + 1)
  BY OutAsPlanned, LenProperties DEF IsContent, SplicedUpTo
<1>2. n \in Nat /\ \A j \in 1 .. n : IsBreak(content, FindBreaks(content)[j], Len(content))
  BY <1>1, BreaksFound
<1>3. i \in 1 .. (Len(content) + 1) - 1
  BY <1>1
<1>4. CASE \E k \in DOMAIN Out : ~Out[k].ad /\ Out[k].id = i
  BY <1>4 DEF Kept
<1>5. CASE \E j \in DOMAIN plan : plan[j].before < i /\ i < plan[j].after
  <2>1. DOMAIN plan = 1 .. n
    BY DEF PlanOf
  <2>2. PICK j \in 1 .. n : plan[j].before < i /\ i < plan[j].after
    BY <1>5, <2>1
  <2> DEFINE br == FindBreaks(content)[j]
  <2>3. plan[j].before = SpanEnd(br, opts) /\ plan[j].after = NextCursor(br, opts)
    BY DEF PlanOf
  <2>4. IsBreak(content, br, Len(content))
    BY <1>2
  <2> HIDE DEF br, plan
  <2>5. /\ br.start \in Nat /\ br.end \in Nat /\ content[br.start].out /\ 1 <= br.start
        /\ \A k \in br.start + 1 .. br.end - 1 : ~content[k].in
    BY <1>1, <2>4 DEF IsBreak
  <2>6. ~opts.preserve
    <3>1. ASSUME opts.preserve
          PROVE  FALSE
      <4>1. plan[j].before = br.start /\ plan[j].after = br.start + 1
        BY <2>3, <3>1 DEF SpanEnd, NextCursor
      <4> QED BY <1>3, <2>2, <2>5, <4>1
    <3> QED BY <3>1
  <2>7. br.start \in 1 .. i /\ i < br.end
    <3>1. plan[j].before = br.start - 1 /\ plan[j].after = br.end
      BY <2>3, <2>6 DEF SpanEnd, NextCursor
    <3> QED BY <1>3, <2>2, <2>5, <3>1
  <2>8. \A c \in br.start + 1 .. i : ~content[c].in
    BY <1>3, <2>5, <2>7
  <2> QED BY <2>5, <2>6, <2>7, <2>8 DEF Signalled
<1> QED BY <1>1, <1>3, <1>4, <1>5 DEF Complete

(* Content survives the splice, once and in order, but for the segments of  *)
(* a break that an ad replaces: for every playlist, ad and caller.          *)
THEOREM NoContentLost == Spec => []ContentKept
<1>1. VodInv => ContentKept
  <2> SUFFICES ASSUME VodInv, Spliced
               PROVE  /\ \A i, j \in DOMAIN Out :
                           i < j /\ ~Out[i].ad /\ ~Out[j].ad => Out[i].id < Out[j].id
                      /\ \A i \in DOMAIN content : Kept(i) \/ (~opts.preserve /\ Signalled(i))
    BY DEF ContentKept
  <2>1. InOrder(Out, Len(content) + 1)
    BY OutAsPlanned DEF SplicedUpTo
  <2>2. \A i, j \in DOMAIN Out : i < j /\ ~Out[i].ad /\ ~Out[j].ad => Out[i].id < Out[j].id
    BY <2>1 DEF InOrder
  <2> QED BY <2>2, KeptByPlan
<1> QED BY <1>1, VodInvariant, PTL

(* Every ad stands where a CUE-OUT and its CUE-IN ask for one, and content   *)
(* always follows it.                                                       *)
THEOREM AdsSitInBreaks == Spec => []AdSitsInBreak
<1>1. ASSUME VodInv, Spliced, NEW f \in Flights
      PROVE  /\ FirstAfter(f) \in DOMAIN content
             /\ IF opts.preserve
                  THEN content[LastBefore(f)].out /\ FirstAfter(f) = LastBefore(f) + 1
                  ELSE content[LastBefore(f) + 1].out /\ content[FirstAfter(f)].in
  <2>1. /\ content \in Seq(Segments) /\ DOMAIN content = 1 .. Len(content) /\ Len(content) \in Nat
        /\ opts.preserve \in BOOLEAN
    BY <1>1, OutAsPlanned, LenProperties DEF IsContent, Options
  <2>2. PICK j \in 1 .. Len(FindBreaks(content)) : FlightOfBreak(f, FindBreaks(content)[j])
    BY <1>1, FlightsFollowPlan
  <2> DEFINE br == FindBreaks(content)[j]
  <2>3. IsBreak(content, br, Len(content)) /\ FlightOfBreak(f, br)
    BY <2>1, <2>2, BreaksFound
  <2> HIDE DEF br
  <2>4. /\ br.start \in 1 .. Len(content) /\ br.end \in 1 .. Len(content) /\ br.start < br.end
        /\ content[br.start].out /\ content[br.end].in
    BY <2>3 DEF IsBreak
  <2>5. LastBefore(f) = SpanEnd(br, opts) /\ FirstAfter(f) = NextCursor(br, opts)
    BY <2>3 DEF FlightOfBreak
  <2>6. CASE opts.preserve
    <3>1. LastBefore(f) = br.start /\ FirstAfter(f) = br.start + 1
      BY <2>5, <2>6 DEF SpanEnd, NextCursor
    <3> QED BY <2>1, <2>4, <2>6, <3>1
  <2>7. CASE ~opts.preserve
    <3>1. LastBefore(f) = br.start - 1 /\ FirstAfter(f) = br.end
      BY <2>5, <2>7 DEF SpanEnd, NextCursor
    <3>2. br.start - 1 + 1 = br.start
      BY <2>1, <2>4
    <3> QED BY <2>1, <2>4, <2>7, <3>1, <3>2
  <2> QED BY <2>6, <2>7
<1>2. VodInv => AdSitsInBreak
  BY <1>1 DEF AdSitsInBreak
<1> QED BY <1>2, VodInvariant, PTL

(* A player is told of every switch between content and ad and of every     *)
(* start of the creative.                                                   *)
THEOREM SwitchesMarked == Spec => []SwitchesAreMarked
<1>1. VodInv /\ Spliced => SwitchMarked(Out)
  BY OutAsPlanned DEF SplicedUpTo
<1>2. VodInv => SwitchesAreMarked
  BY <1>1 DEF SwitchesAreMarked, SwitchMarked
<1> QED BY <1>2, VodInvariant, PTL

----------------------------------------------------------------------------
(* Rounded up to whole seconds, a duration is covered.                      *)
LEMMA SecondsCover ==
  ASSUME NEW d \in Int, NEW target \in Int, (d + Second - 1) \div Second <= target
  PROVE  d <= target * Second
<1> DEFINE q == (d + Second - 1) \div Second
           r == (d + Second - 1) % Second
<1>1. Second \in Nat /\ Second > 0
  BY StitchAssumption DEF StitchAssumption
<1>2. q \in Int /\ r \in 0 .. Second - 1 /\ d + Second - 1 = Second * q + r
  BY <1>1
<1> HIDE DEF q, r
<1>3. Second * q \in Int /\ Second * target \in Int /\ target * Second = Second * target
  BY <1>1, <1>2
<1>4. Second * q <= Second * target
  <2>1. target - q \in Nat
    BY <1>2 DEF q
  <2>2. Second * (target - q) \in Nat
    BY <1>1, <2>1
  <2>3. Second * (target - q) = Second * target - Second * q
    BY <1>1, <1>2
  <2> QED BY <1>3, <2>2, <2>3
<1> QED BY <1>1, <1>2, <1>3, <1>4

LEMMA LongestCovers ==
  ASSUME NEW s \in Seq(Segments)
  PROVE  \A i \in 1 .. Len(s) : (s[i].dur + Second - 1) \div Second <= MaxSegmentDuration(s)
<1> DEFINE n == Len(s)
           Seconds(i) == (s[i].dur + Second - 1) \div Second
<1>1. n \in Nat /\ \A i \in 1 .. n : s[i] \in Segments
  BY LenProperties
<1>2. PICK f \in [0 .. n -> Int] :
        /\ f[0] = 0 /\ MaxSegmentDuration(s) = f[n]
        /\ \A k \in 1 .. n : f[k] = Max({f[k - 1], Seconds(k)})
  BY LongestSteps
<1>3. \A i \in 1 .. n : Seconds(i) \in Int
  BY <1>1, SecondsTyped DEF Segments
<1> HIDE DEF n, Seconds
<1>4. \A k \in 1 .. n : f[k - 1] <= f[k] /\ Seconds(k) <= f[k] /\ f[k] \in Int /\ f[k - 1] \in Int
  <2>1. \A k \in 1 .. n : k \in 0 .. n /\ k - 1 \in 0 .. n
    BY <1>1
  <2>2. \A k \in 1 .. n : f[k] \in Int /\ f[k - 1] \in Int
    BY <2>1
  <2> QED BY <1>2, <1>3, <2>2, MaxOfTwo
<1> DEFINE T == {k \in Nat : \A i \in 1 .. n : i <= k => \A j \in 1 .. i : Seconds(j) <= f[i]}
<1>5. 0 \in T
  OBVIOUS
<1>6. ASSUME NEW k \in T
      PROVE  k + 1 \in T
  <2> SUFFICES ASSUME NEW i \in 1 .. n, i <= k + 1, NEW j \in 1 .. i
               PROVE  Seconds(j) <= f[i]
    OBVIOUS
  <2>1. CASE j = i
    BY <1>4, <2>1
  <2>2. CASE j # i
    <3>1. i - 1 \in 1 .. n /\ i - 1 <= k /\ j \in 1 .. i - 1 /\ j \in 1 .. n
      BY <1>1, <2>2
    <3>2. Seconds(j) <= f[i - 1]
      BY <3>1
    <3> QED BY <1>3, <1>4, <3>1, <3>2
  <2> QED BY <2>1, <2>2
<1>7. T = Nat
  <2>1. T \subseteq Nat
    OBVIOUS
  <2> HIDE DEF T
  <2> QED BY <1>5, <1>6, <2>1, SetInduction
<1>8. \A j \in 1 .. n : Seconds(j) <= f[n]
  <2> SUFFICES ASSUME NEW j \in 1 .. n
               PROVE  Seconds(j) <= f[n]
    OBVIOUS
  <2>1. n \in T
    <3> HIDE DEF T
    <3> QED BY <1>1, <1>7
  <2>2. n \in 1 .. n /\ n <= n
    BY <1>1
  <2> QED BY <2>1, <2>2
<1> QED BY <1>2, <1>8 DEF n, Seconds

(* No segment is longer than the playlist declares, whoever declared it for *)
(* the content and however long the ad's segments are.                      *)
THEOREM TargetCovers == Spec => []TargetCoversOutput
<1>1. ASSUME VodInv, Spliced, NEW s \in ToSet(Out)
      PROVE  s.dur <= result.target * Second
  <2>1. Out \in Seq(Segments) /\ result.target = TargetDuration(declared, Out) /\ declared \in Int
    BY <1>1, OutAsPlanned DEF SplicedUpTo
  <2>2. PICK i \in 1 .. Len(Out) : s = Out[i]
    BY <1>1, <2>1, LenProperties DEF ToSet
  <2>3. s.dur \in Int
    <3>1. s \in Segments
      BY <2>1, <2>2, ElementOfSeq
    <3> QED BY <3>1 DEF Segments
  <2> DEFINE longest == MaxSegmentDuration(Out)
  <2>4. longest \in Int /\ (s.dur + Second - 1) \div Second <= longest
    BY <2>1, <2>2, LongestIsInt, LongestCovers
  <2>5. result.target = Max({declared, longest})
    BY <2>1 DEF TargetDuration
  <2> HIDE DEF longest
  <2>6. result.target \in Int /\ longest <= result.target
    BY <2>1, <2>4, <2>5, MaxOfTwo
  <2>7. (s.dur + Second - 1) \div Second \in Int
    BY <2>3, SecondsTyped
  <2>8. (s.dur + Second - 1) \div Second <= result.target
    <3> DEFINE q == (s.dur + Second - 1) \div Second
    <3>1. q \in Int /\ q <= longest
      BY <2>4, <2>7
    <3> HIDE DEF q
    <3>2. q <= result.target
      BY <2>4, <2>6, <3>1
    <3> QED BY <3>2 DEF q
  <2> QED BY <2>3, <2>6, <2>8, SecondsCover
<1>2. VodInv => TargetCoversOutput
  BY <1>1 DEF TargetCoversOutput
<1> QED BY <1>2, VodInvariant, PTL

----------------------------------------------------------------------------
(* How long a flight is.                                                    *)
LEMMA TotalSame ==
  ASSUME NEW s \in Seq(Segments), NEW t \in Seq(Segments), Len(t) = Len(s),
         \A i \in 1 .. Len(s) : t[i].dur = s[i].dur
  PROVE  TotalDuration(t) = TotalDuration(s)
<1> DEFINE n == Len(s)
<1>1. n \in Nat
  BY LenProperties
<1>2. PICK f \in [0 .. n -> Int] :
        /\ f[0] = 0 /\ TotalDuration(s) = f[n]
        /\ \A k \in 1 .. n : f[k] = f[k - 1] + s[k].dur
  BY TotalSteps
<1>3. PICK g \in [0 .. n -> Int] :
        /\ g[0] = 0 /\ TotalDuration(t) = g[n]
        /\ \A k \in 1 .. n : g[k] = g[k - 1] + t[k].dur
  BY TotalSteps
<1>4. \A k \in 1 .. n : t[k].dur = s[k].dur
  OBVIOUS
<1> HIDE DEF n
<1> DEFINE T == {k \in Nat : \A i \in 0 .. n : i <= k => f[i] = g[i]}
<1>5. 0 \in T
  BY <1>2, <1>3
<1>6. ASSUME NEW k \in T
      PROVE  k + 1 \in T
  <2> SUFFICES ASSUME NEW i \in 0 .. n, i <= k + 1
               PROVE  f[i] = g[i]
    OBVIOUS
  <2>1. CASE i = 0
    BY <1>2, <1>3, <2>1
  <2>2. CASE i # 0
    <3>1. i \in 1 .. n /\ i - 1 \in 0 .. n /\ i - 1 <= k
      BY <1>1, <2>2
    <3>2. f[i - 1] = g[i - 1]
      BY <3>1
    <3> QED BY <1>2, <1>3, <1>4, <3>1, <3>2
  <2> QED BY <2>1, <2>2
<1>7. T = Nat
  <2>1. T \subseteq Nat
    OBVIOUS
  <2> HIDE DEF T
  <2> QED BY <1>5, <1>6, <2>1, SetInduction
<1>8. f[n] = g[n]
  <2>1. n \in T /\ n \in 0 .. n
    <3> HIDE DEF T
    <3> QED BY <1>1, <1>7
  <2> QED BY <2>1
<1> QED BY <1>2, <1>3, <1>8

LEMMA TotalConcat ==
  ASSUME NEW s \in Seq(Segments), NEW t \in Seq(Segments)
  PROVE  TotalDuration(s \o t) = TotalDuration(s) + TotalDuration(t)
<1> DEFINE all == s \o t
           N == Len(s)
           M == Len(t)
           n == Len(all)
<1>1. all \in Seq(Segments) /\ n = N + M /\ N \in Nat /\ M \in Nat
  BY ConcatElements
<1>2. (\A i \in 1 .. N : all[i] = s[i]) /\ (\A i \in 1 .. M : all[N + i] = t[i])
  BY ConcatElements
<1> HIDE DEF all
<1>3. PICK f \in [0 .. n -> Int] :
        /\ f[0] = 0 /\ TotalDuration(all) = f[n]
        /\ \A k \in 1 .. n : f[k] = f[k - 1] + all[k].dur
  BY <1>1, TotalSteps
<1>4. PICK g \in [0 .. N -> Int] :
        /\ g[0] = 0 /\ TotalDuration(s) = g[N]
        /\ \A k \in 1 .. N : g[k] = g[k - 1] + s[k].dur
  BY TotalSteps
<1>5. PICK h \in [0 .. M -> Int] :
        /\ h[0] = 0 /\ TotalDuration(t) = h[M]
        /\ \A k \in 1 .. M : h[k] = h[k - 1] + t[k].dur
  BY TotalSteps
<1> HIDE DEF N, M, n
<1>6. f[N] = g[N]
  <2> DEFINE T == {k \in Nat : \A i \in 0 .. N : i <= k => f[i] = g[i]}
  <2>1. 0 \in T
    BY <1>3, <1>4
  <2>2. ASSUME NEW k \in T
        PROVE  k + 1 \in T
    <3> SUFFICES ASSUME NEW i \in 0 .. N, i <= k + 1
                 PROVE  f[i] = g[i]
      OBVIOUS
    <3>1. CASE i = 0
      BY <1>3, <1>4, <3>1
    <3>2. CASE i # 0
      <4>1. i \in 1 .. N /\ i \in 1 .. n /\ i - 1 \in 0 .. N /\ i - 1 <= k
        BY <1>1, <3>2
      <4>2. f[i - 1] = g[i - 1]
        BY <4>1
      <4> QED BY <1>2, <1>3, <1>4, <4>1, <4>2
    <3> QED BY <3>1, <3>2
  <2>3. T = Nat
    <3>1. T \subseteq Nat
      OBVIOUS
    <3> HIDE DEF T
    <3> QED BY <2>1, <2>2, <3>1, SetInduction
  <2>4. N \in T /\ N \in 0 .. N
    <3> HIDE DEF T
    <3> QED BY <1>1, <2>3
  <2> QED BY <2>4
<1>7. f[N + M] = g[N] + h[M]
  <2> DEFINE T == {k \in Nat : \A i \in 0 .. M : i <= k => f[N + i] = g[N] + h[i]}
  <2>0. g[N] \in Int /\ N + 0 = N
    BY <1>1, <1>4
  <2>1. 0 \in T
    <3>1. f[N + 0] = g[N] + h[0]
      BY <1>5, <1>6, <2>0
    <3> QED BY <3>1
  <2>2. ASSUME NEW k \in T
        PROVE  k + 1 \in T
    <3> SUFFICES ASSUME NEW i \in 0 .. M, i <= k + 1
                 PROVE  f[N + i] = g[N] + h[i]
      OBVIOUS
    <3>1. CASE i = 0
      BY <1>5, <1>6, <2>0, <3>1
    <3>2. CASE i # 0
      <4>1. i \in 1 .. M /\ i - 1 \in 0 .. M /\ i - 1 <= k
        BY <1>1, <3>2
      <4>2. f[N + (i - 1)] = g[N] + h[i - 1]
        BY <4>1
      <4>3. f[N + i] = f[(N + i) - 1] + all[N + i].dur
        <5>1. N + i \in 1 .. n
          BY <1>1, <4>1
        <5> QED BY <1>3, <5>1
      <4>4. (N + i) - 1 = N + (i - 1)
        BY <1>1, <4>1
      <4>5. all[N + i].dur = t[i].dur /\ h[i] = h[i - 1] + t[i].dur
        BY <1>2, <1>5, <4>1
      <4>6. t[i].dur \in Int /\ h[i - 1] \in Int
        <5>1. t[i] \in Segments
          BY <4>1, ElementOfSeq DEF M
        <5> QED BY <4>1, <5>1 DEF Segments
      <4>7. f[(N + i) - 1] = g[N] + h[i - 1]
        BY <4>2, <4>4
      <4>8. f[N + i] = (g[N] + h[i - 1]) + t[i].dur
        BY <4>3, <4>5, <4>7
      <4> QED BY <2>0, <4>5, <4>6, <4>8
    <3> QED BY <3>1, <3>2
  <2>3. T = Nat
    <3>1. T \subseteq Nat
      OBVIOUS
    <3> HIDE DEF T
    <3> QED BY <2>1, <2>2, <3>1, SetInduction
  <2>4. M \in T /\ M \in 0 .. M
    <3> HIDE DEF T
    <3> QED BY <1>1, <2>3
  <2> QED BY <2>4
<1> QED BY <1>1, <1>3, <1>4, <1>5, <1>7 DEF all

LEMMA TotalMarked ==
  ASSUME NEW s \in Seq(Segments)
  PROVE  TotalDuration(MarkFirst(s)) = TotalDuration(s)
BY MarkFirstMarks, TotalSame

LEMMA TotalRepeated ==
  ASSUME NEW s \in Seq(Segments), NEW times \in Nat
  PROVE  TotalDuration(Repeated(s, times)) = (times + 1) * TotalDuration(s)
<1> DEFINE once == TotalDuration(s)
<1>1. once \in Int /\ MarkFirst(s) \in Seq(Segments) /\ TotalDuration(MarkFirst(s)) = once
  BY TotalIsInt, TotalMarked, MarkFirstMarks
<1>2. PICK f \in [0 .. times -> Seq(Segments)] :
        /\ f[0] = s /\ Repeated(s, times) = f[times]
        /\ \A k \in 1 .. times : f[k] = f[k - 1] \o MarkFirst(s)
  BY RepeatedSteps
<1> DEFINE T == {k \in Nat : \A i \in 0 .. times : i <= k => TotalDuration(f[i]) = (i + 1) * once}
<1>3. TotalDuration(f[0]) = (0 + 1) * once
  BY <1>1, <1>2
<1> HIDE DEF once
<1>4. 0 \in T
  BY <1>3
<1>5. ASSUME NEW k \in T
      PROVE  k + 1 \in T
  <2> SUFFICES ASSUME NEW i \in 0 .. times, i <= k + 1
               PROVE  TotalDuration(f[i]) = (i + 1) * once
    OBVIOUS
  <2>1. CASE i = 0
    BY <1>3, <2>1
  <2>2. CASE i # 0
    <3>1. i \in 1 .. times /\ i - 1 \in 0 .. times /\ i - 1 <= k /\ (i - 1) + 1 = i /\ i \in Int
      BY <2>2
    <3>2. TotalDuration(f[i - 1]) = i * once
      BY <3>1
    <3>3. TotalDuration(f[i]) = TotalDuration(f[i - 1]) + once
      BY <1>1, <1>2, <3>1, TotalConcat
    <3>4. i * once + once = (i + 1) * once
      BY <1>1, <3>1
    <3> QED BY <3>2, <3>3, <3>4
  <2> QED BY <2>1, <2>2
<1>6. T = Nat
  <2>1. T \subseteq Nat
    OBVIOUS
  <2> HIDE DEF T
  <2> QED BY <1>4, <1>5, <2>1, SetInduction
<1>7. TotalDuration(f[times]) = (times + 1) * once
  <2>1. times \in T /\ times \in 0 .. times
    <3> HIDE DEF T
    <3> QED BY <1>6
  <2> QED BY <2>1
<1> QED BY <1>2, <1>7 DEF once

LEMMA LoopLength ==
  ASSUME NEW a, IsAd(a), NEW target \in Int
  PROVE  LET once == TotalDuration(a)
         IN  TotalDuration(LoopSegments(a, target))
               = IF once <= 0 THEN once ELSE (Repeats(once, target) + 1) * once
<1> DEFINE once == TotalDuration(a)
<1>1. a \in Seq(Segments) /\ once \in Int
  BY TotalIsInt DEF IsAd
<1>2. CASE once <= 0
  BY <1>2 DEF LoopSegments
<1>3. CASE ~(once <= 0)
  <2>1. LoopSegments(a, target) = Repeated(a, Repeats(once, target))
    BY <1>3 DEF LoopSegments
  <2> HIDE DEF once
  <2>2. Repeats(once, target) \in Nat
    <3>1. Repeats(once, target) \in 0 .. MaxLoopRepeats
      BY <1>1, RepeatsIsFirst
    <3> QED BY <3>1
  <2>3. TotalDuration(Repeated(a, Repeats(once, target))) = (Repeats(once, target) + 1) * once
    BY <1>1, <2>2, TotalRepeated DEF once
  <2> QED BY <1>3, <2>1, <2>3 DEF once
<1> QED BY <1>2, <1>3

LEMMA FlightLength ==
  ASSUME NEW a, IsAd(a), NEW target \in Int, NEW o
  PROVE  TotalDuration(Flight(a, target, o))
           = IF Loops(a, target, o) THEN TotalDuration(LoopSegments(a, target)) ELSE TotalDuration(a)
<1>1. a \in Seq(Segments) /\ TotalDuration(a) \in Int
  BY TotalIsInt DEF IsAd
<1>2. LoopSegments(a, target) \in Seq(Segments)
  <2>1. CASE TotalDuration(a) <= 0
    BY <1>1, <2>1 DEF LoopSegments
  <2>2. CASE ~(TotalDuration(a) <= 0)
    <3>1. Repeats(TotalDuration(a), target) \in 0 .. MaxLoopRepeats
      BY <1>1, RepeatsIsFirst
    <3>2. Repeats(TotalDuration(a), target) \in Nat
      BY <3>1
    <3>3. AdRun(Repeated(a, Repeats(TotalDuration(a), target)))
      BY <3>2, RepeatedRuns
    <3> QED BY <2>2, <3>3 DEF LoopSegments, AdRun
  <2> QED BY <2>1, <2>2
<1>3. CASE Loops(a, target, o)
  <2>1. Flight(a, target, o) = MarkFirst(LoopSegments(a, target))
    BY <1>3 DEF Flight
  <2> QED BY <1>2, <1>3, <2>1, TotalMarked
<1>4. CASE ~Loops(a, target, o)
  <2>1. Flight(a, target, o) = MarkFirst(a)
    BY <1>4 DEF Flight
  <2> QED BY <1>1, <1>4, <2>1, TotalMarked
<1> QED BY <1>3, <1>4

(* What loopSegments makes of a creative is enough unless the cap stops it, *)
(* and would not be with one repetition less.                               *)
LEMMA LoopIsEnough ==
  ASSUME NEW a, IsAd(a), TotalDuration(a) >= 0, NEW target \in Int
  PROVE  LET length == TotalDuration(LoopSegments(a, target))
             once == TotalDuration(a)
         IN  /\ length \in Int
             /\ length >= target - Epsilon \/ length = (MaxLoopRepeats + 1) * once
             /\ length > once => length - once < target - Epsilon
<1> DEFINE once == TotalDuration(a)
           length == TotalDuration(LoopSegments(a, target))
           r == Repeats(once, target)
<1>1. once \in Int /\ once >= 0 /\ Epsilon \in Nat /\ MaxLoopRepeats \in Nat
  BY TotalIsInt, StitchAssumption DEF IsAd, StitchAssumption
<1>2. length = IF once <= 0 THEN once ELSE (r + 1) * once
  BY LoopLength
<1>3. /\ r \in 0 .. MaxLoopRepeats
      /\ r = MaxLoopRepeats \/ (r + 1) * once >= target - Epsilon
      /\ \A q \in 0 .. r - 1 : ~((q + 1) * once >= target - Epsilon)
  <2> HIDE DEF once
  <2> QED BY <1>1, RepeatsIsFirst
<1> HIDE DEF once, length, r
<1>4. CASE once = 0
  <2>1. length = 0 /\ (MaxLoopRepeats + 1) * once = 0
    BY <1>1, <1>2, <1>4
  <2> QED BY <1>4, <2>1 DEF once, length
<1>5. CASE once > 0
  <2>1. length = (r + 1) * once /\ r \in Nat /\ length \in Int
    BY <1>1, <1>2, <1>3, <1>5
  <2>2. length >= target - Epsilon \/ length = (MaxLoopRepeats + 1) * once
    BY <1>3, <2>1
  <2>3. ASSUME length > once
        PROVE  length - once < target - Epsilon
    <3>1. length - once = r * once /\ r * once \in Int
      BY <1>1, <2>1
    <3>2. r # 0
      BY <1>1, <2>1, <2>3
    <3>3. r - 1 \in 0 .. r - 1 /\ (r - 1) + 1 = r
      BY <2>1, <3>2
    <3>4. ~(r * once >= target - Epsilon)
      BY <1>3, <3>3
    <3> QED BY <1>1, <3>1, <3>4
  <2> QED BY <2>1, <2>2, <2>3 DEF once, length
<1> QED BY <1>1, <1>4, <1>5

(* The break that a flight fills, and how long that is.                     *)
LEMMA BreakOfFlight ==
  ASSUME VodInv, Spliced, NEW f \in Flights
  PROVE  /\ Wanted(f) \in Int /\ ~Mismatch(ad, Wanted(f), opts)
         /\ FlightSegments(f) = Flight(ad, Wanted(f), opts)
<1>1. content \in Seq(Segments) /\ opts \in Options /\ opts.preserve \in BOOLEAN
  BY OutAsPlanned DEF IsContent, Options
<1>2. PICK j \in 1 .. Len(FindBreaks(content)) : FlightOfBreak(f, FindBreaks(content)[j])
  BY FlightsFollowPlan
<1> DEFINE br == FindBreaks(content)[j]
<1>3. /\ br \in Breaks /\ IsBreak(content, br, Len(content)) /\ FlightOfBreak(f, br)
      /\ j \in DOMAIN FindBreaks(content)
  BY <1>1, <1>2, BreaksFound, LenProperties
<1>4. ~Mismatch(ad, BreakTarget(content, br, opts), opts)
  BY <1>3, OutAsPlanned
<1> HIDE DEF br
<1>5. BreakTarget(content, br, opts) \in Int
  BY <1>1, <1>3, TargetIsInt
<1>6. br.start \in Nat /\ br.end \in Nat
  BY <1>3 DEF Breaks
<1>7. Wanted(f) = BreakTarget(content, br, opts)
  <2>1. LastBefore(f) = SpanEnd(br, opts) /\ FirstAfter(f) = NextCursor(br, opts)
    BY <1>3 DEF FlightOfBreak
  <2>2. CASE opts.preserve
    BY <2>1, <2>2 DEF SpanEnd, Wanted, BreakTarget
  <2>3. CASE ~opts.preserve
    <3>1. LastBefore(f) + 1 = br.start /\ FirstAfter(f) = br.end
      BY <1>6, <2>1, <2>3 DEF SpanEnd, NextCursor
    <3> QED BY <2>3, <3>1 DEF Wanted, BreakTarget
  <2> QED BY <2>2, <2>3
<1> QED BY <1>3, <1>4, <1>5, <1>7 DEF FlightOfBreak

(* A break is filled as far as it can be and not further, at the length that *)
(* its markers announce.                                                     *)
THEOREM BreaksAreFilled == Spec => []BreakIsFilled
<1>1. ASSUME VodInv, Spliced, NEW f \in Flights
      PROVE  LET length == TotalDuration(FlightSegments(f))
                 once == TotalDuration(ad)
             IN  /\ opts.loop /\ Wanted(f) > 0 =>
                      /\ length >= Wanted(f) - Epsilon \/ length = (MaxLoopRepeats + 1) * once
                      /\ length > once => length - once < Wanted(f) - Epsilon
                 /\ ~opts.loop /\ ~opts.preserve /\ ~opts.allowMismatch =>
                      length - Wanted(f) \in -Epsilon .. Epsilon
  <2> DEFINE length == TotalDuration(FlightSegments(f))
             once == TotalDuration(ad)
             target == Wanted(f)
  <2>1. IsAd(ad) /\ once >= 0 /\ once \in Int
    BY <1>1, OutAsPlanned, TotalIsInt DEF IsAd
  <2>2. target \in Int /\ ~Mismatch(ad, target, opts) /\ FlightSegments(f) = Flight(ad, target, opts)
    BY <1>1, BreakOfFlight
  <2>3. length = IF Loops(ad, target, opts) THEN TotalDuration(LoopSegments(ad, target)) ELSE once
    <3> HIDE DEF target
    <3> QED BY <2>1, <2>2, FlightLength
  <2>4. Loops(ad, target, opts) <=> opts.loop /\ target > 0 /\ once < target - Epsilon
    BY DEF Loops
  <2>5. Epsilon \in Nat
    BY StitchAssumption DEF StitchAssumption
  <2> HIDE DEF length, target
  <2>6. CASE Loops(ad, target, opts)
    <3>1. opts.loop /\ length = TotalDuration(LoopSegments(ad, target))
      BY <2>3, <2>4, <2>6
    <3>2. /\ length >= target - Epsilon \/ length = (MaxLoopRepeats + 1) * once
          /\ length > once => length - once < target - Epsilon
      BY <2>1, <2>2, <3>1, LoopIsEnough
    <3> QED BY <3>1, <3>2 DEF length, target
  <2>7. CASE ~Loops(ad, target, opts)
    <3>1. length = once
      BY <2>3, <2>7
    <3> HIDE DEF once
    <3>2. opts.loop /\ target > 0 => length >= target - Epsilon
      BY <2>1, <2>2, <2>4, <2>5, <2>7, <3>1
    <3>3. ~(length > once)
      BY <2>1, <3>1
    <3>4. ~opts.loop /\ ~opts.preserve /\ ~opts.allowMismatch =>
            length - target \in -Epsilon .. Epsilon
      <4>1. ~opts.loop /\ ~opts.preserve /\ ~opts.allowMismatch =>
              ~(once - target > Epsilon) /\ ~(target - once > Epsilon)
        BY <2>2, <2>7 DEF Mismatch, once
      <4> QED BY <2>1, <2>2, <2>5, <3>1, <4>1
    <3> QED BY <3>2, <3>3, <3>4 DEF length, target, once
  <2> QED BY <2>6, <2>7
<1>2. VodInv => BreakIsFilled
  BY <1>1 DEF BreakIsFilled
<1> QED BY <1>2, VodInvariant, PTL

----------------------------------------------------------------------------
(* The two fillers.                                                         *)
FillRepeats(actual, target) == FirstSuch(LAMBDA r : (r + 1) * actual >= target)

LEMMA FillRepeatsIsFirst ==
  ASSUME NEW actual \in Int, NEW target \in Int
  PROVE  LET r == FillRepeats(actual, target)
         IN  /\ r \in 0 .. MaxLoopRepeats
             /\ r = MaxLoopRepeats \/ (r + 1) * actual >= target
             /\ \A q \in 0 .. r - 1 : ~((q + 1) * actual >= target)
<1> DEFINE Enough(r) == (r + 1) * actual >= target
           First(r) == /\ r = MaxLoopRepeats \/ Enough(r)
                       /\ \A q \in 0 .. r - 1 : ~Enough(q)
           r0 == CHOOSE r \in 0 .. MaxLoopRepeats : First(r)
           T == {r \in 0 .. MaxLoopRepeats : r = MaxLoopRepeats \/ Enough(r)}
<1>1. MaxLoopRepeats \in Nat
  BY StitchAssumption DEF StitchAssumption
<1>2. FillRepeats(actual, target) = r0
  BY DEF FillRepeats, FirstSuch
<1> HIDE DEF Enough
<1>3. PICK m \in T : \A k \in T : m <= k
  <2>1. T \in SUBSET Nat /\ T # {}
    BY <1>1
  <2> HIDE DEF T
  <2> QED BY <2>1, LeastElement
<1>4. \A q \in 0 .. m - 1 : q \notin T /\ q \in 0 .. MaxLoopRepeats
  BY <1>1, <1>3
<1>5. m \in 0 .. MaxLoopRepeats /\ First(m)
  BY <1>4
<1>6. r0 \in 0 .. MaxLoopRepeats /\ First(r0)
  <2> HIDE DEF First
  <2> QED BY <1>5
<1> HIDE DEF r0
<1> QED BY <1>2, <1>6 DEF Enough

(* One more repetition is one more creative at the end.                     *)
LEMMA RepeatedOnceMore ==
  ASSUME NEW s \in Seq(Segments), NEW times \in Nat
  PROVE  Repeated(s, times + 1) = Repeated(s, times) \o MarkFirst(s)
<1>1. PICK f \in [0 .. times -> Seq(Segments)] :
        /\ f[0] = s /\ Repeated(s, times) = f[times]
        /\ \A k \in 1 .. times : f[k] = f[k - 1] \o MarkFirst(s)
  BY RepeatedSteps
<1>2. PICK g \in [0 .. times + 1 -> Seq(Segments)] :
        /\ g[0] = s /\ Repeated(s, times + 1) = g[times + 1]
        /\ \A k \in 1 .. times + 1 : g[k] = g[k - 1] \o MarkFirst(s)
  <2> DEFINE more == times + 1
  <2>1. more \in Nat
    OBVIOUS
  <2> HIDE DEF more
  <2>2. \E g \in [0 .. more -> Seq(Segments)] :
          /\ g[0] = s /\ Repeated(s, more) = g[more]
          /\ \A k \in 1 .. more : g[k] = g[k - 1] \o MarkFirst(s)
    BY <2>1, RepeatedSteps
  <2> QED BY <2>2 DEF more
<1> DEFINE T == {k \in Nat : \A i \in 0 .. times : i <= k => f[i] = g[i]}
<1>3. 0 \in T
  BY <1>1, <1>2
<1>4. ASSUME NEW k \in T
      PROVE  k + 1 \in T
  <2> SUFFICES ASSUME NEW i \in 0 .. times, i <= k + 1
               PROVE  f[i] = g[i]
    OBVIOUS
  <2>1. CASE i = 0
    BY <1>1, <1>2, <2>1
  <2>2. CASE i # 0
    <3>1. i \in 1 .. times /\ i \in 1 .. times + 1 /\ i - 1 \in 0 .. times /\ i - 1 <= k
      BY <2>2
    <3>2. f[i - 1] = g[i - 1]
      BY <3>1
    <3> QED BY <1>1, <1>2, <3>1, <3>2
  <2> QED BY <2>1, <2>2
<1>5. T = Nat
  <2>1. T \subseteq Nat
    OBVIOUS
  <2> HIDE DEF T
  <2> QED BY <1>3, <1>4, <2>1, SetInduction
<1>6. times \in T /\ times \in 0 .. times
  <2> HIDE DEF T
  <2> QED BY <1>5
<1>7. f[times] = g[times]
  BY <1>6
<1>8. times + 1 \in 1 .. times + 1 /\ (times + 1) - 1 = times
  OBVIOUS
<1>9. g[times + 1] = g[times] \o MarkFirst(s)
  BY <1>2, <1>8
<1> QED BY <1>1, <1>2, <1>7, <1>9

LEMMA NotRepeated ==
  ASSUME NEW s \in Seq(Segments)
  PROVE  Repeated(s, 0) = s
<1>1. PICK f \in [0 .. 0 -> Seq(Segments)] : f[0] = s /\ Repeated(s, 0) = f[0]
  BY RepeatedSteps
<1> QED BY <1>1

(* Without the tolerance there is the same number of repetitions or one     *)
(* more.                                                                    *)
LEMMA RepeatsDiffer ==
  ASSUME NEW once \in Int, once > 0, once >= Epsilon, NEW target \in Int
  PROVE  LET r == Repeats(once, target)
             s == FillRepeats(once, target)
         IN  s = r \/ (s = r + 1 /\ (r + 1) * once >= target - Epsilon)
<1> DEFINE r == Repeats(once, target)
           s == FillRepeats(once, target)
           Length(q) == (q + 1) * once
<1>1. Epsilon \in Nat /\ MaxLoopRepeats \in Nat
  BY StitchAssumption DEF StitchAssumption
<1>2. /\ r \in 0 .. MaxLoopRepeats
      /\ r = MaxLoopRepeats \/ Length(r) >= target - Epsilon
      /\ \A q \in 0 .. r - 1 : ~(Length(q) >= target - Epsilon)
  BY RepeatsIsFirst
<1>3. /\ s \in 0 .. MaxLoopRepeats
      /\ s = MaxLoopRepeats \/ Length(s) >= target
      /\ \A q \in 0 .. s - 1 : ~(Length(q) >= target)
  BY FillRepeatsIsFirst
<1>4. \A q \in Nat : Length(q) \in Int /\ Length(q + 1) = Length(q) + once
  BY SMT
<1> HIDE DEF r, s, Length
<1>5. r \in Nat /\ s \in Nat
  BY <1>1, <1>2, <1>3
<1>6. r <= s
  <2>1. ASSUME s < r
        PROVE  FALSE
    <3>1. s \in 0 .. r - 1 /\ s # MaxLoopRepeats
      BY <1>1, <1>2, <1>5, <2>1
    <3>2. Length(s) >= target /\ ~(Length(s) >= target - Epsilon) /\ Length(s) \in Int
      BY <1>2, <1>3, <1>4, <1>5, <3>1
    <3> QED BY <1>1, <3>2
  <2> QED BY <1>5, <2>1
<1>7. CASE r = MaxLoopRepeats
  BY <1>1, <1>3, <1>5, <1>6, <1>7 DEF r, s
<1>8. CASE r # MaxLoopRepeats
  <2>1. Length(r) >= target - Epsilon /\ Length(r) \in Int
    BY <1>2, <1>4, <1>5, <1>8
  <2>2. ASSUME r + 1 < s
        PROVE  FALSE
    <3>1. r + 1 \in 0 .. s - 1
      BY <1>5, <2>2
    <3>2. ~(Length(r + 1) >= target)
      BY <1>3, <3>1
    <3>3. Length(r + 1) = Length(r) + once
      BY <1>4, <1>5
    <3> QED BY <1>1, <2>1, <3>2, <3>3
  <2>3. s = r \/ s = r + 1
    BY <1>5, <1>6, <2>2
  <2> QED BY <2>1, <2>3 DEF r, s, Length
<1> QED BY <1>7, <1>8

(* An ad of at least Epsilon fills a break in the VOD and in the live path  *)
(* alike, or lacks one repetition where the tolerance allows that.          *)
THEOREM FillersDoAgree == Spec => []FillersAgree
<1>1. ASSUME VodInv, Spliced, TotalDuration(ad) >= Epsilon, NEW f \in Flights
      PROVE  LET looped == LoopSegments(ad, Wanted(f))
                 filled == Fill(ad, TotalDuration(ad), Wanted(f))
             IN  \/ filled = looped
                 \/ /\ filled = looped \o MarkFirst(ad)
                    /\ TotalDuration(looped) >= Wanted(f) - Epsilon
  <2> DEFINE once == TotalDuration(ad)
             target == Wanted(f)
             looped == LoopSegments(ad, target)
             filled == Fill(ad, once, target)
             r == Repeats(once, target)
             s == FillRepeats(once, target)
  <2>1. IsAd(ad) /\ ad \in Seq(Segments) /\ once \in Int /\ Epsilon \in Nat /\ target \in Int
    BY <1>1, OutAsPlanned, BreakOfFlight, TotalIsInt, StitchAssumption DEF IsAd, StitchAssumption
  <2>2. looped = IF once <= 0 THEN ad ELSE Repeated(ad, r)
    BY DEF LoopSegments
  <2>3. filled = IF once <= 0 \/ once >= target THEN ad ELSE Repeated(ad, s)
    BY DEF Fill, FillRepeats
  <2>4. once >= Epsilon
    BY <1>1
  <2> HIDE DEF once, target, looped, filled
  <2>5. /\ r \in 0 .. MaxLoopRepeats
        /\ \A q \in 0 .. r - 1 : ~((q + 1) * once >= target - Epsilon)
    BY <2>1, RepeatsIsFirst
  <2>6. CASE once <= 0
    BY <2>2, <2>3, <2>6 DEF once, target, looped, filled
  <2>7. CASE once > 0 /\ once >= target
    <3>1. r = 0
      <4>1. ASSUME r # 0
            PROVE  FALSE
        <5> HIDE DEF r
        <5>1. 0 \in 0 .. r - 1
          BY <2>5, <4>1
        <5>2. ~((0 + 1) * once >= target - Epsilon)
          BY <2>5, <5>1
        <5> QED BY <2>1, <2>7, <5>2
      <4> QED BY <4>1
    <3> HIDE DEF r
    <3>2. looped = ad /\ filled = ad
      BY <2>1, <2>2, <2>3, <2>7, <3>1, NotRepeated
    <3> QED BY <3>2 DEF once, target, looped, filled
  <2>8. CASE once > 0 /\ ~(once >= target)
    <3>1. s = r \/ (s = r + 1 /\ (r + 1) * once >= target - Epsilon)
      BY <2>1, <2>4, <2>8, RepeatsDiffer
    <3>2. looped = Repeated(ad, r) /\ filled = Repeated(ad, s)
      BY <2>1, <2>2, <2>3, <2>8
    <3> HIDE DEF r, s
    <3>3. r \in Nat
      BY <2>5
    <3>4. CASE s = r
      BY <3>2, <3>4 DEF once, target, looped, filled
    <3>5. CASE s = r + 1 /\ (r + 1) * once >= target - Epsilon
      <4>1. filled = looped \o MarkFirst(ad)
        BY <2>1, <3>2, <3>3, <3>5, RepeatedOnceMore
      <4>2. TotalDuration(looped) >= target - Epsilon
        BY <2>1, <3>2, <3>3, <3>5, TotalRepeated DEF once
      <4> QED BY <4>1, <4>2 DEF once, target, looped, filled
    <3> QED BY <3>1, <3>4, <3>5
  <2> QED BY <2>1, <2>6, <2>7, <2>8
<1>2. VodInv => FillersAgree
  BY <1>1 DEF FillersAgree
<1> QED BY <1>2, VodInvariant, PTL

----------------------------------------------------------------------------
(* evenSegmentPlan.  With n the number of segments and S the nominal length, *)
(* (2n - 1) S <= 2 duration < (2n + 1) S unless n is 1, and a segment is the *)
(* difference of two successive keyframes.                                   *)
LEMMA Quotient ==
  ASSUME NEW x \in Int, NEW n \in Nat \ {0}
  PROVE  /\ x \div n \in Int /\ n * (x \div n) \in Int
         /\ n * (x \div n) <= x /\ x <= n * (x \div n) + n - 1
<1>1. x = n * (x \div n) + (x % n) /\ x % n \in 0 .. n - 1 /\ x \div n \in Int
  OBVIOUS
<1>2. n * (x \div n) \in Int
  BY <1>1
<1> QED BY <1>1, <1>2

LEMMA CountFits ==
  ASSUME NEW d \in Int
  PROVE  LET n == SegmentCount(d)
             S == SegmentSeconds
         IN  /\ n \in Nat \ {0} /\ 2 * d < 2 * (n * S) + S
             /\ n # 1 => 2 * (n * S) - S <= 2 * d
<1> DEFINE S == SegmentSeconds
           n == SegmentCount(d)
           x == 2 * d + S
           m == 2 * S
           q == x \div m
<1>1. S \in Nat \ {0} /\ x \in Int /\ m \in Nat \ {0}
  BY ContentPrepAssumption DEF ContentPrepAssumption
<1>2. n = IF q < 1 THEN 1 ELSE q
  BY DEF SegmentCount
<1>3. q \in Int /\ m * q \in Int /\ m * q <= x /\ x <= m * q + m - 1
  <2> HIDE DEF m, x
  <2> QED BY <1>1, Quotient
<1> HIDE DEF q, n
<1>4. m * q = 2 * (q * S) /\ q * S \in Int
  BY <1>1, <1>3
<1>5. CASE q < 1
  <2>1. n = 1 /\ n * S = S
    BY <1>1, <1>2, <1>5
  <2>2. q * S <= 0
    <3>1. (0 - q) \in Nat
      BY <1>3, <1>5
    <3>2. (0 - q) * S \in Nat
      BY <1>1, <3>1
    <3>3. (0 - q) * S = 0 - (q * S)
      BY <1>1, <1>3
    <3> QED BY <1>4, <3>2, <3>3
  <2> HIDE DEF S
  <2> QED BY <1>1, <1>3, <1>4, <2>1, <2>2 DEF n, S
<1>6. CASE ~(q < 1)
  <2>1. n = q /\ n \in Nat \ {0}
    BY <1>2, <1>3, <1>6
  <2>2. 2 * (n * S) <= 2 * d + S /\ 2 * d + S <= 2 * (n * S) + 2 * S - 1
    BY <1>3, <1>4, <2>1
  <2>3. n * S \in Int
    BY <1>1, <2>1
  <2> HIDE DEF S
  <2> QED BY <1>1, <2>1, <2>2, <2>3 DEF n, S
<1> QED BY <1>5, <1>6

(* So is every segment that it plans.                                        *)
EvenlyLong(dur) == 2 * dur <= 3 * SegmentSeconds /\ 3 * dur + 3 >= 2 * SegmentSeconds

LEMMA PlanIsEven ==
  ASSUME NEW d \in Int, NEW k \in DOMAIN EvenSegmentPlan(d)
  PROVE  LET plan == EvenSegmentPlan(d)
         IN  /\ 2 * plan[k] <= 3 * SegmentSeconds
             /\ EvenlyLong(plan[k]) \/ Len(plan) = 1
<1> DEFINE n == SegmentCount(d)
           S == SegmentSeconds
           plan == EvenSegmentPlan(d)
           a == (k * d) \div n
           b == ((k - 1) * d) \div n
           dur == a - b
<1>1. /\ n \in Nat \ {0} /\ 2 * d < 2 * (n * S) + S
      /\ n # 1 => 2 * (n * S) - S <= 2 * d
  BY CountFits
<1>2. S \in Nat \ {0}
  BY ContentPrepAssumption DEF ContentPrepAssumption
<1>3. plan = [j \in 1 .. n |-> ((j * d) \div n) - (((j - 1) * d) \div n)]
  BY DEF EvenSegmentPlan
<1>4. DOMAIN plan = 1 .. n
  BY <1>3
<1>5. k \in 1 .. n /\ k \in Int /\ plan[k] = dur
  <2>1. k \in 1 .. n
    BY <1>4
  <2> HIDE DEF n
  <2> QED BY <1>1, <1>3, <2>1
<1>6. Len(plan) = n
  <2> HIDE DEF n
  <2> QED BY <1>1, <1>3
<1> HIDE DEF plan, n, S
<1>7. /\ a \in Int /\ n * a \in Int /\ n * a <= k * d /\ k * d <= n * a + n - 1
      /\ b \in Int /\ n * b \in Int /\ n * b <= (k - 1) * d /\ (k - 1) * d <= n * b + n - 1
  <2>1. k * d \in Int /\ (k - 1) * d \in Int
    BY <1>5
  <2> QED BY <1>1, <2>1, Quotient
<1>8. k * d - (k - 1) * d = d /\ k * d \in Int /\ (k - 1) * d \in Int
  BY <1>5
<1> HIDE DEF a, b
<1>9. n * dur = n * a - n * b /\ n * dur \in Int /\ dur \in Int /\ n * S \in Int
  BY <1>1, <1>2, <1>7
<1>10. d - n + 1 <= n * dur /\ n * dur <= d + n - 1
  BY <1>1, <1>7, <1>8, <1>9
<1> HIDE DEF dur
<1>11. CASE n = 1
  <2>1. n * dur = dur /\ n * S = S
    BY <1>2, <1>9, <1>11
  <2>2. 2 * dur <= 3 * S
    BY <1>1, <1>2, <1>9, <1>10, <1>11, <2>1
  <2> QED BY <1>5, <1>6, <1>11, <2>2 DEF plan, S
<1>12. CASE n # 1
  <2>1. 2 * dur <= 3 * S
    <3>1. ASSUME 3 * S + 1 <= 2 * dur
          PROVE  FALSE
      <4>1. n * (2 * dur - (3 * S + 1)) >= 0
        <5>1. 2 * dur - (3 * S + 1) \in Nat
          BY <1>2, <1>9, <3>1
        <5>2. n * (2 * dur - (3 * S + 1)) \in Nat
          BY <1>1, <5>1
        <5> QED BY <5>2
      <4>2. n * (2 * dur - (3 * S + 1)) = 2 * (n * dur) - 3 * (n * S) - n
        BY <1>1, <1>2, <1>9
      <4>3. n * S - S >= n - 1
        <5>1. n - 1 \in Nat /\ S - 1 \in Nat
          BY <1>1, <1>2
        <5>2. (n - 1) * (S - 1) \in Nat
          BY <5>1
        <5>3. (n - 1) * (S - 1) = n * S - S - n + 1
          BY <1>1, <1>2
        <5> QED BY <1>1, <1>2, <1>9, <5>2, <5>3
      <4> QED BY <1>1, <1>2, <1>9, <1>10, <4>1, <4>2, <4>3
    <3> QED BY <1>2, <1>9, <3>1
  <2>2. 3 * dur + 3 >= 2 * S
    <3>1. ASSUME 3 * dur + 4 <= 2 * S
          PROVE  FALSE
      <4>1. n * (2 * S - (3 * dur + 4)) >= 0
        <5>1. 2 * S - (3 * dur + 4) \in Nat
          BY <1>2, <1>9, <3>1
        <5>2. n * (2 * S - (3 * dur + 4)) \in Nat
          BY <1>1, <5>1
        <5> QED BY <5>2
      <4>2. n * (2 * S - (3 * dur + 4)) = 2 * (n * S) - 3 * (n * dur) - 4 * n
        BY <1>1, <1>2, <1>9
      <4>3. n * S - 2 * S >= 0
        <5>1. n - 2 \in Nat
          BY <1>1, <1>12
        <5>2. (n - 2) * S \in Nat /\ (n - 2) * S = n * S - 2 * S
          BY <1>1, <1>2, <5>1
        <5> QED BY <5>2
      <4> QED BY <1>1, <1>2, <1>9, <1>10, <1>12, <4>1, <4>2, <4>3
    <3> QED BY <1>2, <1>9, <3>1
  <2> QED BY <1>5, <2>1, <2>2 DEF EvenlyLong, plan, S
<1> QED BY <1>11, <1>12


(* A short segment is alone in its span, so that the break before it and the *)
(* break after it, or an end of the content, are on both of its sides.       *)
NotRunt(s, first, final) ==
  /\ 2 * s.dur <= 3 * SegmentSeconds
  /\ EvenlyLong(s.dur) \/ ((first \/ s.in) /\ (s.out \/ final))

LEMMA SpanIsEven ==
  ASSUME NEW total \in Int, NEW breaks \in Seq(Asked), NEW i \in 1 .. Len(breaks) + 1,
         NEW k \in 1 .. Len(CuedSpan(total, breaks, i))
  PROVE  LET span == CuedSpan(total, breaks, i)
         IN  NotRunt(span[k], i = 1 /\ k = 1, i = Len(breaks) + 1 /\ k = Len(span))
<1> DEFINE from == IF i = 1 THEN 0 ELSE breaks[i - 1].start
           last == i > Len(breaks)
           limit == IF last THEN 0 ELSE breaks[i].start - from
           duration == total - from
           encoded == IF limit > 0 /\ duration > limit THEN limit ELSE duration
           durs == EvenSegmentPlan(encoded)
           announces(j) == ~last /\ j = Len(durs)
           seg(j) == ContentSegment(durs[j], announces(j), i > 1 /\ j = 1,
                                    IF announces(j) THEN breaks[i].duration ELSE 0)
           span == CuedSpan(total, breaks, i)
<1>1. Len(breaks) \in Nat /\ \A j \in 1 .. Len(breaks) : breaks[j] \in Asked
  BY LenProperties
<1>2. from \in Int
  <2>1. i # 1 => breaks[i - 1] \in Asked
    BY <1>1
  <2> QED BY <2>1 DEF Asked
<1>3. limit \in Int
  <2>1. ~last => breaks[i] \in Asked
    BY <1>1
  <2>2. ~last => breaks[i].start \in Int
    BY <2>1 DEF Asked
  <2> HIDE DEF from, last
  <2> QED BY <1>2, <2>2
<1>4. encoded \in Int
  <2> HIDE DEF from, limit
  <2> QED BY <1>2, <1>3
<1>5. span = [j \in DOMAIN durs |-> seg(j)]
  BY DEF CuedSpan, EncodeHLS
<1>6. span \in Seq(Uncued)
  BY CuedSpanTyped
<1>7. (last <=> i = Len(breaks) + 1) /\ (i > 1 <=> i # 1)
  BY <1>1
<1> HIDE DEF encoded, span, last
<1>8. durs \in Seq(Int)
  BY <1>4, PlanTyped
<1> HIDE DEF durs
<1>9. Len(span) = Len(durs) /\ k \in DOMAIN durs /\ k \in 1 .. Len(durs) /\ Len(durs) \in Nat
  <2>1. k \in 1 .. Len(span)
    BY DEF span
  <2>2. DOMAIN span = DOMAIN durs
    BY <1>5
  <2> QED BY <1>6, <1>8, <2>1, <2>2, LenProperties
<1>10. span[k] = seg(k)
  BY <1>5, <1>9
<1>11. /\ 2 * durs[k] <= 3 * SegmentSeconds
       /\ EvenlyLong(durs[k]) \/ Len(durs) = 1
  BY <1>4, <1>9, PlanIsEven DEF durs
<1>12. /\ span[k].dur = durs[k]
       /\ span[k].out = announces(k)
       /\ span[k].in = (i > 1 /\ k = 1)
  <2> HIDE DEF announces
  <2> QED BY <1>10 DEF ContentSegment
<1>13. NotRunt(span[k], i = 1 /\ k = 1, i = Len(breaks) + 1 /\ k = Len(span))
  <2>1. CASE EvenlyLong(durs[k])
    BY <1>11, <1>12, <2>1 DEF NotRunt
  <2>2. CASE Len(durs) = 1
    <3>1. k = 1 /\ k = Len(durs) /\ k = Len(span)
      BY <1>9, <2>2
    <3>2. (i = 1 \/ span[k].in) /\ (span[k].out \/ i = Len(breaks) + 1)
      BY <1>7, <1>12, <3>1
    <3>3. 2 * span[k].dur <= 3 * SegmentSeconds
      BY <1>11, <1>12
    <3> QED BY <3>1, <3>2, <3>3 DEF NotRunt
  <2> QED BY <1>11, <2>1, <2>2
<1> QED BY <1>13 DEF span

LEMMA PreparedIsEven ==
  ASSUME NEW total \in Int, NEW breaks \in Seq(Asked)
  PROVE  LET segments == InjectBreaks(total, breaks)
         IN  \A i \in DOMAIN segments :
               NotRunt(segments[i], i = 1, i = Len(segments))
<1> DEFINE n == Len(breaks) + 1
           spans == [i \in 1 .. n |-> CuedSpan(total, breaks, i)]
           flat == FlattenSeq(spans)
           segments == InjectBreaks(total, breaks)
<1>1. n \in Nat
  BY LenProperties
<1>2. spans \in [1 .. n -> Seq(Uncued)]
  BY CuedSpanTyped
<1>3. spans \in Seq(Seq(Uncued)) /\ Len(spans) = n
  <2> HIDE DEF spans, n
  <2> QED BY <1>1, <1>2
<1>4. \A i \in 1 .. n : spans[i] = CuedSpan(total, breaks, i)
  OBVIOUS
<1>5. segments = Numbered(flat)
  BY DEF InjectBreaks
<1> HIDE DEF spans, segments
<1>6. flat \in Seq(Uncued)
  BY <1>3, FlattenTyped
<1>7. \A i \in 1 .. Len(flat) : ComesFrom(flat, i, spans, n)
  BY <1>3, FlattenElements
<1> HIDE DEF flat, n
<1>8. DOMAIN flat = 1 .. Len(flat) /\ Len(flat) \in Nat
  BY <1>6, LenProperties
<1>9. segments = [i \in 1 .. Len(flat) |-> [flat[i] EXCEPT !.id = i]]
  BY <1>5, <1>8 DEF Numbered
<1>10. Len(segments) = Len(flat) /\ DOMAIN segments = 1 .. Len(flat)
  BY <1>8, <1>9
<1> SUFFICES ASSUME NEW i \in 1 .. Len(flat)
             PROVE  NotRunt(segments[i], i = 1, i = Len(flat))
  BY <1>10 DEF segments
<1>11. PICK j \in 1 .. n : \E k \in 1 .. Len(spans[j]) :
         /\ flat[i] = spans[j][k]
         /\ j = 1 /\ k = 1 => i = 1
         /\ j = n /\ k = Len(spans[n]) => i = Len(flat)
  BY <1>7 DEF ComesFrom
<1>12. PICK k \in 1 .. Len(spans[j]) :
         /\ flat[i] = spans[j][k]
         /\ j = 1 /\ k = 1 => i = 1
         /\ j = n /\ k = Len(spans[n]) => i = Len(flat)
  BY <1>11
<1>13. NotRunt(spans[j][k], j = 1 /\ k = 1, j = n /\ k = Len(spans[j]))
  <2>1. spans[j] = CuedSpan(total, breaks, j)
    BY <1>4
  <2>2. k \in 1 .. Len(CuedSpan(total, breaks, j)) /\ j \in 1 .. Len(breaks) + 1
    BY <2>1 DEF n
  <2>3. NotRunt(CuedSpan(total, breaks, j)[k], j = 1 /\ k = 1,
                j = Len(breaks) + 1 /\ k = Len(CuedSpan(total, breaks, j)))
    BY <2>2, SpanIsEven
  <2> QED BY <2>1, <2>3 DEF n
<1>14. /\ segments[i].dur = spans[j][k].dur
       /\ segments[i].in = spans[j][k].in
       /\ segments[i].out = spans[j][k].out
  <2>1. flat[i] \in Segments
    BY <1>6, <1>8 DEF Uncued
  <2>2. segments[i] = [flat[i] EXCEPT !.id = i]
    BY <1>9
  <2>3. segments[i].dur = flat[i].dur /\ segments[i].in = flat[i].in /\ segments[i].out = flat[i].out
    BY <2>1, <2>2 DEF Segments
  <2> QED BY <1>12, <2>3
<1>15. (j = 1 /\ k = 1 => i = 1) /\ (j = n /\ k = Len(spans[j]) => i = Len(flat))
  BY <1>12
<1> QED BY <1>13, <1>14, <1>15 DEF NotRunt

(* What a request left behind is what InjectBreaks prepared for it.          *)
RequestInv ==
  /\ stage = "start" => request = NoRequest
  /\ request # NoRequest =>
       \A i \in DOMAIN content : NotRunt(content[i], i = 1, i = Len(content))

(* Every segment that evenSegmentPlan makes of a span lasts between two      *)
(* thirds and one and a half of the nominal length, give or take rounding,   *)
(* except the only segment of a span that is itself short: whatever is asked *)
(* of InjectBreaks, no runt is left at the end of a span.                    *)
THEOREM SegmentsAreEven == Spec => []NoRuntSegments
<1>1. Init => RequestInv
  BY DEF Init, RequestInv
<1>2. RequestInv /\ [Next]_vars => RequestInv'
  <2> SUFFICES ASSUME RequestInv, [Next]_vars
               PROVE  RequestInv'
    OBVIOUS
  <2>1. CASE Prepare
    <3>1. PICK r \in Requests : content' = InjectBreaks(r.total, SortedBreaks(r.breaks))
      BY <2>1 DEF Prepare
    <3>2. r.total \in Int /\ r.breaks \in Seq(Asked)
      BY VodAssumption DEF VodAssumption, Asked
    <3>3. \A i \in DOMAIN content' : NotRunt(content'[i], i = 1, i = Len(content'))
      BY <3>1, <3>2, SortedTyped, PreparedIsEven
    <3>4. stage' = "content"
      BY <2>1 DEF Prepare
    <3> QED BY <3>3, <3>4 DEF RequestInv
  <2>2. CASE Read
    BY <2>2 DEF Read, RequestInv
  <2>3. CASE Splice
    BY <2>3 DEF Splice, RequestInv
  <2>4. CASE UNCHANGED vars
    BY <2>4 DEF vars, RequestInv
  <2> QED BY <2>1, <2>2, <2>3, <2>4 DEF Next
<1>3. RequestInv => NoRuntSegments
  <2> SUFFICES ASSUME RequestInv, request # NoRequest, NEW i \in DOMAIN content
               PROVE  /\ 2 * content[i].dur <= 3 * SegmentSeconds
                      /\ \/ 3 * content[i].dur + 3 >= 2 * SegmentSeconds
                         \/ /\ i = 1 \/ content[i].in
                            /\ content[i].out \/ i = Len(content)
    BY DEF NoRuntSegments
  <2>1. NotRunt(content[i], i = 1, i = Len(content))
    BY DEF RequestInv
  <2> QED BY <2>1 DEF NotRunt, EvenlyLong
<1> QED BY <1>1, <1>2, <1>3, PTL DEF Spec

----------------------------------------------------------------------------
(* How long the first k segments last.                                       *)
UpTo(s, k) == TotalDuration(SubSeq(s, 1, k))

LEMMA FirstOnes ==
  ASSUME NEW s \in Seq(Segments), NEW k \in 0 .. Len(s)
  PROVE  /\ SubSeq(s, 1, k) \in Seq(Segments) /\ Len(SubSeq(s, 1, k)) = k
         /\ \A i \in 1 .. k : SubSeq(s, 1, k)[i] = s[i]
         /\ UpTo(s, k) \in Int
<1>1. Len(s) \in Nat /\ DOMAIN s = 1 .. Len(s) /\ \A i \in 1 .. Len(s) : s[i] \in Segments
  BY LenProperties
<1>2. k \in Nat /\ \A i \in 1 .. k : s[i] \in Segments
  BY <1>1
<1> DEFINE t == SubSeq(s, 1, k)
<1>3. /\ t \in Seq(Segments) /\ Len(t) = IF 1 <= k THEN k - 1 + 1 ELSE 0
      /\ \A i \in 1 .. k - 1 + 1 : t[i] = s[1 + i - 1]
  BY <1>2, SubSeqProperties
<1> HIDE DEF t
<1>4. Len(t) = k
  BY <1>2, <1>3
<1>5. \A i \in 1 .. k : t[i] = s[i]
  <2> SUFFICES ASSUME NEW i \in 1 .. k
               PROVE  t[i] = s[i]
    OBVIOUS
  <2>1. i \in 1 .. k - 1 + 1 /\ 1 + i - 1 = i
    BY <1>2
  <2> QED BY <1>3, <2>1
<1> QED BY <1>3, <1>4, <1>5, TotalIsInt DEF UpTo, t

LEMMA TotalOfOne ==
  ASSUME NEW x \in Segments
  PROVE  TotalDuration(<<x>>) = x.dur
<1>1. <<x>> \in Seq(Segments) /\ Len(<<x>>) = 1 /\ <<x>>[1] = x
  OBVIOUS
<1>2. PICK f \in [0 .. 1 -> Int] :
        /\ f[0] = 0 /\ TotalDuration(<<x>>) = f[1]
        /\ \A k \in 1 .. 1 : f[k] = f[k - 1] + <<x>>[k].dur
  BY <1>1, TotalSteps
<1>3. x.dur \in Int
  BY DEF Segments
<1>4. f[1] = f[0] + <<x>>[1].dur
  BY <1>2
<1> QED BY <1>1, <1>2, <1>3, <1>4

LEMMA UpToSteps ==
  ASSUME NEW s \in Seq(Segments)
  PROVE  /\ UpTo(s, 0) = 0 /\ UpTo(s, Len(s)) = TotalDuration(s)
         /\ \A k \in 1 .. Len(s) : UpTo(s, k) = UpTo(s, k - 1) + s[k].dur
<1>1. Len(s) \in Nat /\ \A i \in 1 .. Len(s) : s[i] \in Segments
  BY LenProperties
<1>2. UpTo(s, 0) = 0
  <2>1. SubSeq(s, 1, 0) \in Seq(Segments) /\ Len(SubSeq(s, 1, 0)) = 0
    BY <1>1, FirstOnes
  <2>2. SubSeq(s, 1, 0) = <<>>
    BY <2>1, EmptySeq
  <2> QED BY <2>1, <2>2, TotalIsInt DEF UpTo
<1>3. UpTo(s, Len(s)) = TotalDuration(s)
  <2>1. /\ SubSeq(s, 1, Len(s)) \in Seq(Segments) /\ Len(SubSeq(s, 1, Len(s))) = Len(s)
        /\ \A i \in 1 .. Len(s) : SubSeq(s, 1, Len(s))[i] = s[i]
    <3>1. Len(s) \in 0 .. Len(s)
      BY <1>1
    <3> QED BY <3>1, FirstOnes
  <2> QED BY <2>1, TotalSame DEF UpTo
<1>4. ASSUME NEW k \in 1 .. Len(s)
      PROVE  UpTo(s, k) = UpTo(s, k - 1) + s[k].dur
  <2> DEFINE t == SubSeq(s, 1, k)
             u == SubSeq(s, 1, k - 1)
             all == u \o <<s[k]>>
  <2>1. k \in 0 .. Len(s) /\ k - 1 \in 0 .. Len(s) /\ k \in Nat
    BY <1>1
  <2>2. /\ t \in Seq(Segments) /\ Len(t) = k /\ \A i \in 1 .. k : t[i] = s[i]
        /\ u \in Seq(Segments) /\ Len(u) = k - 1 /\ \A i \in 1 .. k - 1 : u[i] = s[i]
    BY <2>1, FirstOnes
  <2>3. <<s[k]>> \in Seq(Segments) /\ Len(<<s[k]>>) = 1 /\ s[k] \in Segments
    BY <1>1
  <2> HIDE DEF t, u
  <2>4. /\ all \in Seq(Segments) /\ Len(all) = k - 1 + 1
        /\ \A i \in 1 .. k - 1 : all[i] = u[i]
        /\ all[k] = s[k]
    <3>1. /\ all \in Seq(Segments) /\ Len(all) = Len(u) + 1
          /\ \A i \in 1 .. Len(u) : all[i] = u[i]
          /\ \A i \in 1 .. 1 : all[Len(u) + i] = <<s[k]>>[i]
      BY <2>2, <2>3, ConcatElements
    <3>2. all[Len(u) + 1] = <<s[k]>>[1]
      BY <3>1
    <3>3. <<s[k]>>[1] = s[k] /\ Len(u) + 1 = k
      BY <2>1, <2>2
    <3> QED BY <2>2, <3>1, <3>2, <3>3
  <2>5. TotalDuration(all) = TotalDuration(u) + TotalDuration(<<s[k]>>)
    BY <2>2, <2>3, TotalConcat
  <2> HIDE DEF all
  <2>6. \A i \in 1 .. k : t[i] = all[i]
    BY <2>1, <2>2, <2>4
  <2>7. t = all
    BY <2>1, <2>2, <2>4, <2>6, SeqEqual
  <2> QED BY <2>3, <2>5, <2>7, TotalOfOne DEF UpTo, t, u
<1> QED BY <1>2, <1>3, <1>4

LEMMA UpToSame ==
  ASSUME NEW s \in Seq(Segments), NEW t \in Seq(Segments), NEW k \in Nat,
         k <= Len(s), k <= Len(t), \A i \in 1 .. k : t[i].dur = s[i].dur
  PROVE  UpTo(t, k) = UpTo(s, k)
<1> DEFINE u == SubSeq(s, 1, k)
           v == SubSeq(t, 1, k)
<1>1. k \in 0 .. Len(s) /\ k \in 0 .. Len(t)
  BY LenProperties
<1>2. /\ u \in Seq(Segments) /\ Len(u) = k /\ \A i \in 1 .. k : u[i] = s[i]
      /\ v \in Seq(Segments) /\ Len(v) = k /\ \A i \in 1 .. k : v[i] = t[i]
  BY <1>1, FirstOnes
<1> HIDE DEF u, v
<1>3. TotalDuration(v) = TotalDuration(u)
  BY <1>2, TotalSame
<1> QED BY <1>3 DEF UpTo, u, v

----------------------------------------------------------------------------
(* The spans of a request add up to it: each has at least one segment, ends  *)
(* where its break starts, and has the markers of the breaks around it.      *)
EndOfSpan(total, breaks, i) == IF i > Len(breaks) THEN total ELSE breaks[i].start

LEMMA SpanAddsUp ==
  ASSUME NEW total \in Int, NEW breaks \in Seq(Asked), Injectable(total, breaks),
         NEW i \in 1 .. Len(breaks) + 1
  PROVE  LET span == CuedSpan(total, breaks, i)
         IN  /\ Len(span) # 0
             /\ TotalDuration(span) = EndOfSpan(total, breaks, i)
                                       - (IF i = 1 THEN 0 ELSE EndOfSpan(total, breaks, i - 1))
             /\ \A k \in 1 .. Len(span) :
                  span[k].out <=> i <= Len(breaks) /\ k = Len(span)
             /\ i # 1 => span[1].in
<1> DEFINE from == IF i = 1 THEN 0 ELSE breaks[i - 1].start
           last == i > Len(breaks)
           limit == IF last THEN 0 ELSE breaks[i].start - from
           duration == total - from
           encoded == IF limit > 0 /\ duration > limit THEN limit ELSE duration
           durs == EvenSegmentPlan(encoded)
           announces(j) == ~last /\ j = Len(durs)
           seg(j) == ContentSegment(durs[j], announces(j), i > 1 /\ j = 1,
                                    IF announces(j) THEN breaks[i].duration ELSE 0)
           span == CuedSpan(total, breaks, i)
           to == EndOfSpan(total, breaks, i)
<1>1. /\ Len(breaks) \in Nat /\ DOMAIN breaks = 1 .. Len(breaks)
      /\ \A j \in 1 .. Len(breaks) : breaks[j].start \in Int
  <2>1. /\ Len(breaks) \in Nat /\ DOMAIN breaks = 1 .. Len(breaks)
        /\ \A j \in 1 .. Len(breaks) : breaks[j] \in Asked
    BY LenProperties
  <2> QED BY <2>1 DEF Asked
<1>2. /\ \A j \in 1 .. Len(breaks) : breaks[j].start < total
      /\ \A j \in 1 .. Len(breaks) :
           breaks[j].start > (IF j = 1 THEN 0 ELSE breaks[j - 1].start)
  BY <1>1 DEF Injectable
<1>3. from \in Int /\ from = IF i = 1 THEN 0 ELSE EndOfSpan(total, breaks, i - 1)
  <2>1. i # 1 => i - 1 \in 1 .. Len(breaks) /\ ~(i - 1 > Len(breaks))
    BY <1>1
  <2> QED BY <1>1, <2>1 DEF EndOfSpan
<1>4. encoded = to - from /\ encoded \in Int
  <2>1. CASE last
    <3>1. to = total /\ limit = 0
      BY <2>1 DEF EndOfSpan
    <3> HIDE DEF from, limit
    <3> QED BY <1>3, <3>1
  <2>2. CASE ~last
    <3>1. i \in 1 .. Len(breaks)
      BY <1>1, <2>2
    <3>2. to = breaks[i].start /\ limit = breaks[i].start - from
      BY <2>2 DEF EndOfSpan
    <3>3. breaks[i].start > from /\ breaks[i].start < total /\ breaks[i].start \in Int
      BY <1>1, <1>2, <3>1
    <3> HIDE DEF from, limit
    <3> QED BY <1>3, <3>2, <3>3
  <2> QED BY <2>1, <2>2
<1>5. span = [j \in DOMAIN durs |-> seg(j)]
  BY DEF CuedSpan, EncodeHLS
<1>6. span \in Seq(Uncued)
  BY CuedSpanTyped
<1>7. (last <=> ~(i <= Len(breaks))) /\ (i > 1 <=> i # 1)
  BY <1>1
<1> DEFINE n == SegmentCount(encoded)
           Keyframe(k) == (k * encoded) \div n
<1>8. durs = [k \in 1 .. n |-> Keyframe(k) - Keyframe(k - 1)]
  BY DEF EvenSegmentPlan
<1>9. n \in Nat \ {0}
  BY <1>4, CountFits
<1> HIDE DEF encoded, span, last, n, to
<1>10. durs \in Seq(Int)
  BY <1>4, PlanTyped
<1> HIDE DEF durs
<1>11. Len(durs) = n /\ DOMAIN durs = 1 .. n
  BY <1>8, <1>9
<1>12. span \in Seq(Segments) /\ Len(span) = n
  <2>1. span \in [1 .. n -> Uncued]
    <3>1. DOMAIN span = 1 .. n
      BY <1>5, <1>11
    <3> QED BY <1>6, <3>1, LenProperties
  <2>2. Uncued \subseteq Segments
    BY DEF Uncued
  <2> QED BY <1>6, <1>9, <2>1, <2>2, SeqMonotonic, LenProperties
<1>13. \A k \in 1 .. n : /\ span[k].dur = Keyframe(k) - Keyframe(k - 1)
                         /\ span[k].out = announces(k)
                         /\ span[k].in = (i > 1 /\ k = 1)
  <2> SUFFICES ASSUME NEW k \in 1 .. n
               PROVE  /\ span[k].dur = Keyframe(k) - Keyframe(k - 1)
                      /\ span[k].out = announces(k)
                      /\ span[k].in = (i > 1 /\ k = 1)
    OBVIOUS
  <2>1. span[k] = seg(k) /\ durs[k] = Keyframe(k) - Keyframe(k - 1)
    BY <1>5, <1>8, <1>11
  <2> HIDE DEF announces, Keyframe
  <2> QED BY <2>1 DEF ContentSegment
<1>14. TotalDuration(span) = encoded
  <2>1. \A k \in Int : Keyframe(k) \in Int
    <3> SUFFICES ASSUME NEW k \in Int
                 PROVE  Keyframe(k) \in Int
      OBVIOUS
    <3>1. k * encoded \in Int
      BY <1>4
    <3>2. \A x \in Int : x \div n \in Int
      BY <1>9
    <3> QED BY <3>1, <3>2
  <2>2. Keyframe(0) = 0
    <3>1. 0 * encoded = 0
      BY <1>4
    <3>2. 0 \div n = 0
      BY <1>9
    <3> QED BY <3>1, <3>2
  <2>3. Keyframe(n) = encoded
    BY <1>4, <1>9
  <2> DEFINE T == {k \in Nat : \A j \in 0 .. n : j <= k => UpTo(span, j) = Keyframe(j)}
  <2> HIDE DEF Keyframe
  <2>4. 0 \in T
    BY <1>12, <2>2, UpToSteps
  <2>5. ASSUME NEW k \in T
        PROVE  k + 1 \in T
    <3> SUFFICES ASSUME NEW j \in 0 .. n, j <= k + 1
                 PROVE  UpTo(span, j) = Keyframe(j)
      OBVIOUS
    <3>1. CASE j = 0
      BY <2>4, <3>1
    <3>2. CASE j # 0
      <4>1. j \in 1 .. n /\ j - 1 \in 0 .. n /\ j - 1 <= k /\ j \in Int /\ j - 1 \in Int
        BY <1>9, <3>2
      <4>2. UpTo(span, j - 1) = Keyframe(j - 1)
        BY <4>1
      <4>3. UpTo(span, j) = UpTo(span, j - 1) + span[j].dur
        BY <1>12, <4>1, UpToSteps
      <4>4. span[j].dur = Keyframe(j) - Keyframe(j - 1)
        BY <1>13, <4>1
      <4>5. Keyframe(j) \in Int /\ Keyframe(j - 1) \in Int
        BY <2>1, <4>1
      <4> QED BY <4>2, <4>3, <4>4, <4>5
    <3> QED BY <3>1, <3>2
  <2>6. T = Nat
    <3>1. T \subseteq Nat
      OBVIOUS
    <3> HIDE DEF T
    <3> QED BY <2>4, <2>5, <3>1, SetInduction
  <2>7. n \in T /\ n \in 0 .. n
    <3> HIDE DEF T
    <3> QED BY <1>9, <2>6
  <2>8. UpTo(span, n) = encoded
    BY <2>3, <2>7
  <2> QED BY <1>12, <2>8, UpToSteps
<1>15. Len(span) # 0
  BY <1>9, <1>12
<1>16. \A k \in 1 .. Len(span) : span[k].out <=> i <= Len(breaks) /\ k = Len(span)
  BY <1>7, <1>11, <1>12, <1>13
<1>17. i # 1 => span[1].in
  <2>1. 1 \in 1 .. n
    BY <1>9
  <2> QED BY <1>7, <1>13, <2>1
<1> HIDE DEF from
<1> QED BY <1>3, <1>4, <1>14, <1>15, <1>16, <1>17 DEF span, to

(* So do the spans of the first m breaks: each insertion point announced in  *)
(* them is where its break starts.                                           *)
Starts(breaks) == {breaks[i].start : i \in DOMAIN breaks}

AnnouncesWell(s, starts) ==
  \A x \in 1 .. Len(s) : s[x].out => UpTo(s, x) \in starts /\ (x # Len(s) => s[x + 1].in)

SpansUpTo(s, total, breaks, m) ==
  /\ s \in Seq(Segments) /\ Len(s) # 0
  /\ TotalDuration(s) = EndOfSpan(total, breaks, m)
  /\ AnnouncesWell(s, Starts(breaks))
  /\ s[Len(s)].out <=> m <= Len(breaks)
  /\ \E x \in 1 .. Len(s) : s[x].out

LEMMA SpanTyped ==
  ASSUME NEW total \in Int, NEW breaks \in Seq(Asked), NEW i \in 1 .. Len(breaks) + 1
  PROVE  CuedSpan(total, breaks, i) \in Seq(Segments)
<1>1. CuedSpan(total, breaks, i) \in Seq(Uncued)
  BY CuedSpanTyped
<1>2. Uncued \subseteq Segments
  BY DEF Uncued
<1> QED BY <1>1, <1>2, SeqMonotonic

LEMMA EndTyped ==
  ASSUME NEW total \in Int, NEW breaks \in Seq(Asked), NEW i \in 1 .. Len(breaks) + 1
  PROVE  /\ EndOfSpan(total, breaks, i) \in Int
         /\ i <= Len(breaks) => EndOfSpan(total, breaks, i) \in Starts(breaks)
<1>1. Len(breaks) \in Nat /\ DOMAIN breaks = 1 .. Len(breaks)
  BY LenProperties
<1>2. CASE i <= Len(breaks)
  <2>1. i \in DOMAIN breaks /\ breaks[i] \in Asked /\ ~(i > Len(breaks))
    BY <1>1, <1>2
  <2> QED BY <2>1 DEF EndOfSpan, Starts, Asked
<1>3. CASE ~(i <= Len(breaks))
  <2>1. i > Len(breaks)
    BY <1>1, <1>3
  <2> QED BY <1>3, <2>1 DEF EndOfSpan
<1> QED BY <1>2, <1>3

LEMMA FirstSpan ==
  ASSUME NEW total \in Int, NEW breaks \in Seq(Asked), Injectable(total, breaks)
  PROVE  SpansUpTo(CuedSpan(total, breaks, 1), total, breaks, 1)
<1> DEFINE s == CuedSpan(total, breaks, 1)
           to == EndOfSpan(total, breaks, 1)
<1>1. Len(breaks) \in Nat /\ breaks # <<>>
  BY LenProperties DEF Injectable
<1>2. Len(breaks) # 0
  BY <1>1, EmptySeq
<1>3. 1 \in 1 .. Len(breaks) + 1 /\ 1 <= Len(breaks)
  BY <1>1, <1>2
<1>4. s \in Seq(Segments) /\ to \in Int /\ to \in Starts(breaks)
  BY <1>3, SpanTyped, EndTyped
<1>5. /\ Len(s) # 0 /\ TotalDuration(s) = to - 0
      /\ \A k \in 1 .. Len(s) : s[k].out <=> 1 <= Len(breaks) /\ k = Len(s)
  BY <1>3, SpanAddsUp
<1> HIDE DEF s, to
<1>6. Len(s) \in 1 .. Len(s) /\ TotalDuration(s) = to
  BY <1>4, <1>5, LenProperties
<1>7. s[Len(s)].out
  BY <1>3, <1>5, <1>6
<1>8. UpTo(s, Len(s)) = to
  BY <1>4, <1>6, UpToSteps
<1>9. AnnouncesWell(s, Starts(breaks))
  BY <1>4, <1>5, <1>8 DEF AnnouncesWell
<1>10. SpansUpTo(s, total, breaks, 1)
  BY <1>3, <1>4, <1>5, <1>6, <1>7, <1>9 DEF SpansUpTo, to
<1> QED BY <1>10 DEF s

LEMMA NextSpan ==
  ASSUME NEW total \in Int, NEW breaks \in Seq(Asked), Injectable(total, breaks),
         NEW m \in 2 .. Len(breaks) + 1, NEW s, SpansUpTo(s, total, breaks, m - 1)
  PROVE  SpansUpTo(s \o CuedSpan(total, breaks, m), total, breaks, m)
<1> DEFINE t == CuedSpan(total, breaks, m)
           all == s \o t
           from == EndOfSpan(total, breaks, m - 1)
           to == EndOfSpan(total, breaks, m)
           more == m <= Len(breaks)
<1>1. Len(breaks) \in Nat
  BY LenProperties
<1>2. m \in 1 .. Len(breaks) + 1 /\ m - 1 \in 1 .. Len(breaks) + 1 /\ m # 1 /\ m - 1 <= Len(breaks)
  BY <1>1
<1>3. t \in Seq(Segments) /\ from \in Int /\ to \in Int /\ (more => to \in Starts(breaks))
  BY <1>2, SpanTyped, EndTyped
<1>4. /\ Len(t) # 0 /\ TotalDuration(t) = to - from /\ t[1].in
      /\ \A k \in 1 .. Len(t) : t[k].out <=> more /\ k = Len(t)
  BY <1>2, SpanAddsUp
<1>5. /\ s \in Seq(Segments) /\ Len(s) # 0 /\ TotalDuration(s) = from
      /\ AnnouncesWell(s, Starts(breaks))
      /\ \E x \in 1 .. Len(s) : s[x].out
  BY DEF SpansUpTo
<1> HIDE DEF t, from, to, more
<1>6. /\ all \in Seq(Segments) /\ Len(all) = Len(s) + Len(t)
      /\ Len(s) \in Nat /\ Len(t) \in Nat
      /\ \A i \in 1 .. Len(s) : all[i] = s[i]
      /\ \A i \in 1 .. Len(t) : all[Len(s) + i] = t[i]
  BY <1>3, <1>5, ConcatElements
<1>7. TotalDuration(all) = to
  <2>1. TotalDuration(all) = TotalDuration(s) + TotalDuration(t)
    BY <1>3, <1>5, TotalConcat
  <2> QED BY <1>3, <1>4, <1>5, <2>1
<1> HIDE DEF all
<1>8. all[Len(all)].out <=> more
  <2>1. Len(t) \in 1 .. Len(t)
    BY <1>4, <1>6
  <2> QED BY <1>4, <1>6, <2>1
<1>9. \E x \in 1 .. Len(all) : all[x].out
  <2>1. PICK x \in 1 .. Len(s) : s[x].out
    BY <1>5
  <2>2. x \in 1 .. Len(all) /\ all[x] = s[x]
    BY <1>6
  <2> QED BY <2>1, <2>2
<1>10. AnnouncesWell(all, Starts(breaks))
  <2> SUFFICES ASSUME NEW x \in 1 .. Len(all), all[x].out
               PROVE  UpTo(all, x) \in Starts(breaks) /\ (x # Len(all) => all[x + 1].in)
    BY DEF AnnouncesWell
  <2>1. CASE x \in 1 .. Len(s)
    <3>1. all[x] = s[x] /\ s[x].out /\ x \in Nat /\ x <= Len(s) /\ x <= Len(all)
      BY <1>6, <2>1
    <3>2. UpTo(all, x) = UpTo(s, x)
      <4>1. \A i \in 1 .. x : all[i].dur = s[i].dur
        BY <1>6, <3>1
      <4> QED BY <1>5, <1>6, <3>1, <4>1, UpToSame
    <3>3. UpTo(s, x) \in Starts(breaks) /\ (x # Len(s) => s[x + 1].in)
      BY <1>5, <2>1, <3>1 DEF AnnouncesWell
    <3>4. CASE x = Len(s)
      <4>1. 1 \in 1 .. Len(t)
        BY <1>4, <1>6
      <4>2. all[x + 1] = t[1]
        BY <1>6, <3>4, <4>1
      <4> QED BY <1>4, <3>2, <3>3, <4>2
    <3>5. CASE x # Len(s)
      <4>1. x + 1 \in 1 .. Len(s)
        BY <1>6, <2>1, <3>5
      <4> QED BY <1>6, <3>2, <3>3, <3>5, <4>1
    <3> QED BY <3>4, <3>5
  <2>2. CASE ~(x \in 1 .. Len(s))
    <3> DEFINE k == x - Len(s)
    <3>1. k \in 1 .. Len(t) /\ x = Len(s) + k
      BY <1>6, <2>2
    <3> HIDE DEF k
    <3>2. t[k].out
      BY <1>6, <3>1
    <3>3. more /\ k = Len(t)
      BY <1>4, <3>1, <3>2
    <3>4. x = Len(all)
      BY <1>6, <3>1, <3>3
    <3>5. UpTo(all, x) = to
      BY <1>6, <1>7, <3>4, UpToSteps
    <3> QED BY <1>3, <3>3, <3>4, <3>5
  <2> QED BY <2>1, <2>2
<1>11. Len(all) # 0
  BY <1>5, <1>6
<1>12. SpansUpTo(all, total, breaks, m)
  BY <1>6, <1>7, <1>8, <1>9, <1>10, <1>11 DEF SpansUpTo, to, more
<1> QED BY <1>12 DEF all, t

(* What InjectBreaks prepares lasts as long as its source; each insertion    *)
(* point in it is where a break was asked for, and has content behind it.    *)
WellPrepared(c, total, starts) ==
  /\ TotalDuration(c) = total
  /\ \A x \in 1 .. Len(c) : c[x].out => UpTo(c, x) \in starts /\ x # Len(c) /\ c[x + 1].in
  /\ \E x \in 1 .. Len(c) : c[x].out

LEMMA PreparedWell ==
  ASSUME NEW total \in Int, NEW breaks \in Seq(Asked), Injectable(total, breaks)
  PROVE  WellPrepared(InjectBreaks(total, breaks), total, Starts(breaks))
<1> DEFINE n == Len(breaks) + 1
           spans == [i \in 1 .. n |-> CuedSpan(total, breaks, i)]
           segments == InjectBreaks(total, breaks)
<1>1. n \in Nat /\ n # 0 /\ Len(breaks) \in Nat
  BY LenProperties
<1>2. spans \in [1 .. n -> Seq(Uncued)]
  BY CuedSpanTyped
<1>3. spans \in Seq(Seq(Uncued)) /\ Len(spans) = n
  <2> HIDE DEF spans, n
  <2> QED BY <1>1, <1>2
<1>4. \A i \in 1 .. n : spans[i] = CuedSpan(total, breaks, i)
  OBVIOUS
<1>5. segments = Numbered(FlattenSeq(spans))
  BY DEF InjectBreaks
<1> HIDE DEF spans, segments
<1>6. PICK flat \in [1 .. n -> Seq(Uncued)] :
        /\ flat[1] = spans[1] /\ FlattenSeq(spans) = flat[n]
        /\ \A k \in 1 .. n : k # 1 => flat[k] = flat[k - 1] \o spans[k]
  <2> HIDE DEF n
  <2> QED BY <1>1, <1>3, FlattenSteps
<1> DEFINE T == {k \in Nat : \A i \in 1 .. n : i <= k => SpansUpTo(flat[i], total, breaks, i)}
<1>7. 0 \in T
  BY <1>1
<1>8. ASSUME NEW k \in T
      PROVE  k + 1 \in T
  <2> SUFFICES ASSUME NEW i \in 1 .. n, i <= k + 1
               PROVE  SpansUpTo(flat[i], total, breaks, i)
    OBVIOUS
  <2>1. CASE i = 1
    BY <1>4, <1>6, <2>1, FirstSpan
  <2>2. CASE i # 1
    <3>1. i - 1 \in 1 .. n /\ i - 1 <= k /\ i \in 2 .. Len(breaks) + 1
      BY <1>1, <2>2
    <3>2. SpansUpTo(flat[i - 1], total, breaks, i - 1)
      BY <3>1
    <3>3. flat[i] = flat[i - 1] \o CuedSpan(total, breaks, i)
      BY <1>4, <1>6, <2>2
    <3> QED BY <3>1, <3>2, <3>3, NextSpan
  <2> QED BY <2>1, <2>2
<1>9. T = Nat
  <2>1. T \subseteq Nat
    OBVIOUS
  <2> HIDE DEF T
  <2> QED BY <1>7, <1>8, <2>1, SetInduction
<1> DEFINE s == flat[n]
<1>10. n \in T /\ n \in 1 .. n
  <2> HIDE DEF T
  <2> QED BY <1>1, <1>9
<1>11. SpansUpTo(s, total, breaks, n)
  BY <1>10
<1>12. s \in Seq(Uncued) /\ segments = Numbered(s)
  BY <1>5, <1>6, <1>10
<1> HIDE DEF T, s
<1>13. /\ s \in Seq(Segments) /\ TotalDuration(s) = total /\ ~s[Len(s)].out
       /\ AnnouncesWell(s, Starts(breaks)) /\ \E x \in 1 .. Len(s) : s[x].out
  <2>1. n > Len(breaks) /\ ~(n <= Len(breaks))
    BY <1>1
  <2> QED BY <1>11, <2>1 DEF SpansUpTo, EndOfSpan
<1>14. segments \in Seq(Segments) /\ Len(segments) = Len(s) /\ Len(s) \in Nat
  <2>1. IsContent(segments)
    <3>1. \A i \in DOMAIN s : ~s[i].ad
      BY <1>12 DEF Uncued
    <3> QED BY <1>12, <1>13, <3>1, NumberedIsContent
  <2>2. Len(s) \in Nat /\ DOMAIN s = 1 .. Len(s) /\ DOMAIN segments = DOMAIN s
    BY <1>12, <1>13, LenProperties DEF Numbered
  <2>3. segments \in Seq(Segments)
    BY <2>1 DEF IsContent
  <2> QED BY <2>2, <2>3, LenProperties
<1>15. \A x \in 1 .. Len(s) : /\ segments[x].dur = s[x].dur
                              /\ segments[x].out = s[x].out /\ segments[x].in = s[x].in
  <2> SUFFICES ASSUME NEW x \in 1 .. Len(s)
               PROVE  /\ segments[x].dur = s[x].dur
                      /\ segments[x].out = s[x].out /\ segments[x].in = s[x].in
    OBVIOUS
  <2>1. s[x] \in Segments /\ DOMAIN s = 1 .. Len(s)
    BY <1>13, LenProperties
  <2>2. segments[x] = [s[x] EXCEPT !.id = x]
    BY <1>12, <2>1 DEF Numbered
  <2> QED BY <2>1, <2>2 DEF Segments
<1>16. TotalDuration(segments) = total
  BY <1>13, <1>14, <1>15, TotalSame
<1>17. ASSUME NEW x \in 1 .. Len(s), segments[x].out
       PROVE  UpTo(segments, x) \in Starts(breaks) /\ x # Len(s) /\ segments[x + 1].in
  <2>1. s[x].out
    BY <1>15, <1>17
  <2>2. x # Len(s)
    BY <1>13, <2>1
  <2>3. UpTo(s, x) \in Starts(breaks) /\ s[x + 1].in
    BY <1>13, <2>1, <2>2 DEF AnnouncesWell
  <2>4. x + 1 \in 1 .. Len(s)
    BY <1>14, <2>2
  <2>5. UpTo(segments, x) = UpTo(s, x)
    <3>1. x \in Nat /\ x <= Len(s) /\ x <= Len(segments)
      BY <1>14
    <3>2. \A i \in 1 .. x : segments[i].dur = s[i].dur
      BY <1>14, <1>15
    <3> QED BY <1>13, <1>14, <3>1, <3>2, UpToSame
  <2> QED BY <1>15, <2>2, <2>3, <2>4, <2>5
<1>18. \E x \in 1 .. Len(s) : segments[x].out
  BY <1>13, <1>15
<1>19. WellPrepared(segments, total, Starts(breaks))
  BY <1>14, <1>16, <1>17, <1>18 DEF WellPrepared
<1> QED BY <1>19 DEF segments

(* sortBreaks inserts no break that was not asked for.                       *)
LEMMA SortedStarts ==
  ASSUME NEW breaks \in Seq(Asked)
  PROVE  Starts(SortedBreaks(breaks)) \subseteq {b.start : b \in ToSet(breaks)}
<1> DEFINE A == ToSet(breaks)
           sorted == SortedBreaks(breaks)
<1>1. breaks \in Seq(A)
  <2>1. Len(breaks) \in Nat /\ DOMAIN breaks = 1 .. Len(breaks)
    BY LenProperties
  <2>2. breaks \in [1 .. Len(breaks) -> A]
    <3>1. \A i \in 1 .. Len(breaks) : breaks[i] \in A
      BY <2>1 DEF ToSet
    <3>2. breaks = [i \in 1 .. Len(breaks) |-> breaks[i]]
      BY <2>1
    <3> HIDE DEF A
    <3> QED BY <3>1, <3>2
  <2> HIDE DEF A
  <2> QED BY <2>1, <2>2
<1> HIDE DEF A
<1>2. sorted \in Seq(A)
  BY <1>1, SortedTyped
<1> HIDE DEF sorted
<1>3. \A i \in DOMAIN sorted : sorted[i] \in A
  BY <1>2
<1>4. Starts(sorted) \subseteq {b.start : b \in A}
  BY <1>3 DEF Starts
<1> QED BY <1>4 DEF A, sorted

----------------------------------------------------------------------------
(* Every insertion point that content follows at once is a break.            *)
Paired(c, x, k) ==
  /\ x.start # 0 => x.start = k /\ c[k].out
  /\ \A i \in 1 .. k : c[i].out => x.start # 0 \/ x.breaks # <<>>

LEMMA PairedStep ==
  ASSUME NEW c, NEW n \in Nat, NEW k \in 1 .. n, NEW x \in Scans, Paired(c, x, k - 1),
         \A i \in 1 .. n : c[i].out => i # n /\ c[i + 1].in
  PROVE  Paired(c, ScanSegment(c, x, k), k)
<1> DEFINE y == ScanSegment(c, x, k)
<1>1. k \in Nat /\ k # 0 /\ x.start \in Nat /\ x.breaks \in Seq(Breaks)
  BY DEF Scans
<1>2. CASE x.start = 0 /\ c[k].out
  <2>1. y = [x EXCEPT !.start = k]
    BY <1>2 DEF ScanSegment
  <2>2. y.start = k
    BY <2>1 DEF Scans
  <2> HIDE DEF y
  <2>3. Paired(c, y, k)
    BY <1>1, <1>2, <2>2 DEF Paired
  <2> QED BY <2>3 DEF y
<1>3. CASE x.start # 0
  <2>1. x.start = k - 1 /\ c[k - 1].out
    BY <1>3 DEF Paired
  <2>2. k - 1 \in 1 .. n /\ (k - 1) + 1 = k
    BY <1>1, <1>3, <2>1
  <2>3. c[k].in
    BY <2>1, <2>2
  <2> DEFINE b == [start |-> x.start, end |-> k]
  <2>4. y = [start |-> 0, breaks |-> Append(x.breaks, b)]
    BY <1>3, <2>3 DEF ScanSegment
  <2>5. b \in Breaks
    BY <1>1 DEF Breaks
  <2> HIDE DEF b
  <2>6. Append(x.breaks, b) # <<>>
    BY <1>1, <2>5
  <2>7. y.start = 0 /\ y.breaks # <<>>
    BY <2>4, <2>6
  <2> HIDE DEF y
  <2>8. Paired(c, y, k)
    BY <2>7 DEF Paired
  <2> QED BY <2>8 DEF y
<1>4. CASE x.start = 0 /\ ~c[k].out
  <2>1. y = x
    BY <1>4 DEF ScanSegment
  <2> HIDE DEF y
  <2>2. \A i \in 1 .. k : i = k \/ i \in 1 .. k - 1
    BY <1>1
  <2>3. Paired(c, y, k)
    BY <1>4, <2>1, <2>2 DEF Paired
  <2> QED BY <2>3 DEF y
<1> QED BY <1>2, <1>3, <1>4

LEMMA PairedHasBreaks ==
  ASSUME NEW c \in Seq(Segments), \E i \in 1 .. Len(c) : c[i].out,
         \A i \in 1 .. Len(c) : c[i].out => i # Len(c) /\ c[i + 1].in
  PROVE  HasBreaks(c)
<1> DEFINE n == Len(c)
<1>1. n \in Nat
  OBVIOUS
<1>2. PICK f \in [0 .. n -> Scans] :
        /\ f[0] = NoScan /\ Scan(c) = f[n]
        /\ \A k \in 1 .. n : f[k] = ScanSegment(c, f[k - 1], k)
  BY ScanSteps
<1>3. \A i \in 1 .. n : c[i].out => i # n /\ c[i + 1].in
  OBVIOUS
<1>4. PICK i \in 1 .. n : c[i].out
  OBVIOUS
<1> HIDE DEF n
<1> DEFINE T == {k \in Nat : \A j \in 0 .. n : j <= k => Paired(c, f[j], j)}
<1>5. Paired(c, f[0], 0)
  BY <1>2 DEF Paired, NoScan
<1>6. 0 \in T
  BY <1>5
<1>7. ASSUME NEW k \in T
      PROVE  k + 1 \in T
  <2> SUFFICES ASSUME NEW j \in 0 .. n, j <= k + 1
               PROVE  Paired(c, f[j], j)
    OBVIOUS
  <2>1. CASE j = 0
    BY <1>5, <2>1
  <2>2. CASE j # 0
    <3>1. j \in 1 .. n /\ j - 1 \in 0 .. n /\ j - 1 <= k
      BY <1>1, <2>2
    <3>2. Paired(c, f[j - 1], j - 1) /\ f[j - 1] \in Scans
      BY <3>1
    <3>3. Paired(c, ScanSegment(c, f[j - 1], j), j)
      BY <1>1, <1>3, <3>1, <3>2, PairedStep
    <3> QED BY <1>2, <3>1, <3>3
  <2> QED BY <2>1, <2>2
<1>8. T = Nat
  <2>1. T \subseteq Nat
    OBVIOUS
  <2> HIDE DEF T
  <2> QED BY <1>6, <1>7, <2>1, SetInduction
<1>9. n \in T /\ n \in 0 .. n
  <2> HIDE DEF T
  <2> QED BY <1>1, <1>8
<1>10. Paired(c, Scan(c), n)
  BY <1>2, <1>9
<1>11. Scan(c).start = 0
  <2>1. SUFFICES ASSUME Scan(c).start # 0
                 PROVE  FALSE
    OBVIOUS
  <2>2. c[n].out /\ n \in 1 .. n
    BY <1>1, <1>4, <1>10, <2>1 DEF Paired
  <2> QED BY <1>3, <2>2
<1>12. Scan(c).breaks # <<>>
  BY <1>4, <1>10, <1>11 DEF Paired
<1> QED BY <1>11, <1>12 DEF HasBreaks

----------------------------------------------------------------------------
(* What a splice keeps of the content it keeps at its length.                *)
KeepsLength(c, s) ==
  \A i \in 1 .. Len(s) : ~s[i].ad => s[i].id \in 1 .. Len(c) /\ s[i].dur = c[s[i].id].dur

LEMMA ResumedLength ==
  ASSUME NEW s \in Seq(Segments)
  PROVE  /\ Resumed(s) \in Seq(Segments) /\ Len(Resumed(s)) = Len(s)
         /\ \A i \in 1 .. Len(s) : /\ Resumed(s)[i].ad = s[i].ad /\ Resumed(s)[i].id = s[i].id
                                   /\ Resumed(s)[i].dur = s[i].dur
<1>1. CASE s = <<>>
  BY <1>1, EmptySeq DEF Resumed
<1>2. CASE s # <<>>
  <2>1. 1 \in 1 .. Len(s) /\ s[1] \in Segments /\ DOMAIN s = 1 .. Len(s)
    BY <1>2, EmptySeq, ElementOfSeq, LenProperties
  <2> DEFINE e == [s[1] EXCEPT !.out = FALSE, !.in = FALSE, !.disc = TRUE]
             t == [s EXCEPT ![1] = e]
  <2>2. e \in Segments /\ e.ad = s[1].ad /\ e.id = s[1].id /\ e.dur = s[1].dur
    BY <2>1 DEF Segments
  <2>3. Resumed(s) = t
    <3>1. Resumed(s) = [s EXCEPT ![1].out = FALSE, ![1].in = FALSE, ![1].disc = TRUE]
      BY <1>2 DEF Resumed
    <3> QED BY <2>1, <3>1
  <2> HIDE DEF e
  <2>4. /\ t \in Seq(Segments) /\ Len(t) = Len(s)
        /\ \A j \in 1 .. Len(s) : t[j] = IF j = 1 THEN e ELSE s[j]
    BY <2>1, <2>2, ExceptSeq
  <2> HIDE DEF t
  <2> QED BY <2>2, <2>3, <2>4
<1> QED BY <1>1, <1>2

LEMMA AnnouncedLength ==
  ASSUME NEW s \in Seq(Segments), NEW o
  PROVE  /\ Announced(s, o) \in Seq(Segments) /\ Len(Announced(s, o)) = Len(s)
         /\ \A i \in 1 .. Len(s) : /\ Announced(s, o)[i].ad = s[i].ad
                                   /\ Announced(s, o)[i].id = s[i].id
                                   /\ Announced(s, o)[i].dur = s[i].dur
<1>1. CASE ~o.preserve
  BY <1>1 DEF Announced
<1>2. CASE o.preserve
  <2> DEFINE n == Len(s)
             e == [s[n] EXCEPT !.out = FALSE]
             t == [s EXCEPT ![n] = e]
  <2>1. Announced(s, o) = t
    BY <1>2 DEF Announced
  <2>2. n \in Nat /\ s \in [1 .. n -> Segments]
    BY LenProperties
  <2>3. CASE n = 0
    <3>1. t = s
      BY <2>2, <2>3
    <3> QED BY <2>1, <3>1
  <2>4. CASE n # 0
    <3>1. n \in 1 .. Len(s) /\ s[n] \in Segments
      BY <2>2, <2>4
    <3>2. e \in Segments /\ e.ad = s[n].ad /\ e.id = s[n].id /\ e.dur = s[n].dur
      BY <3>1 DEF Segments
    <3> HIDE DEF e
    <3>3. /\ t \in Seq(Segments) /\ Len(t) = Len(s)
          /\ \A j \in 1 .. Len(s) : t[j] = IF j = n THEN e ELSE s[j]
      <4> HIDE DEF n
      <4> QED BY <3>1, <3>2, ExceptSeq
    <3> HIDE DEF t, n
    <3> QED BY <2>1, <3>2, <3>3
  <2> QED BY <2>3, <2>4
<1> QED BY <1>1, <1>2

LEMMA SpanLength ==
  ASSUME NEW c, IsContent(c), NEW from \in Nat \ {0}, NEW to \in Int, to <= Len(c)
  PROVE  /\ SubSeq(c, from, to) \in Seq(Segments)
         /\ KeepsLength(c, SubSeq(c, from, to))
<1> DEFINE span == SubSeq(c, from, to)
<1>1. /\ c \in Seq(Segments) /\ Len(c) \in Nat /\ DOMAIN c = 1 .. Len(c)
      /\ \A i \in 1 .. Len(c) : c[i] \in Segments /\ ~c[i].ad /\ c[i].id = i
  BY DEF IsContent
<1>2. \A i \in from .. to : c[i] \in Segments
  BY <1>1
<1>3. /\ span \in Seq(Segments) /\ Len(span) = IF from <= to THEN to - from + 1 ELSE 0
      /\ \A i \in 1 .. to - from + 1 : span[i] = c[from + i - 1]
  BY <1>2, SubSeqProperties
<1> HIDE DEF span
<1>4. \A i \in 1 .. Len(span) : i \in 1 .. to - from + 1 /\ from + i - 1 \in 1 .. Len(c)
  BY <1>1, <1>3
<1>5. ASSUME NEW i \in 1 .. Len(span)
      PROVE  span[i].id \in 1 .. Len(c) /\ span[i].dur = c[span[i].id].dur
  <2> DEFINE j == from + i - 1
  <2>1. j \in 1 .. Len(c) /\ span[i] = c[j]
    BY <1>3, <1>4
  <2> HIDE DEF j
  <2> QED BY <1>1, <2>1
<1>6. KeepsLength(c, span)
  BY <1>5 DEF KeepsLength
<1> QED BY <1>3, <1>6 DEF span

LEMMA SameLength ==
  ASSUME NEW c, NEW s \in Seq(Segments), KeepsLength(c, s), NEW t, Len(t) = Len(s),
         \A i \in 1 .. Len(s) : t[i].ad = s[i].ad /\ t[i].id = s[i].id /\ t[i].dur = s[i].dur
  PROVE  KeepsLength(c, t)
BY DEF KeepsLength

LEMMA LengthGoesOn ==
  ASSUME NEW c, NEW s \in Seq(Segments), NEW t \in Seq(Segments),
         KeepsLength(c, s), KeepsLength(c, t)
  PROVE  s \o t \in Seq(Segments) /\ KeepsLength(c, s \o t)
<1> DEFINE all == s \o t
<1>1. /\ all \in Seq(Segments) /\ Len(all) = Len(s) + Len(t)
      /\ Len(s) \in Nat /\ Len(t) \in Nat
      /\ \A i \in 1 .. Len(s) : all[i] = s[i]
      /\ \A i \in 1 .. Len(t) : all[Len(s) + i] = t[i]
  BY ConcatElements
<1> HIDE DEF all
<1>2. ASSUME NEW i \in 1 .. Len(all), ~all[i].ad
      PROVE  all[i].id \in 1 .. Len(c) /\ all[i].dur = c[all[i].id].dur
  <2>1. CASE i \in 1 .. Len(s)
    BY <1>1, <1>2, <2>1 DEF KeepsLength
  <2>2. CASE ~(i \in 1 .. Len(s))
    <3>1. i - Len(s) \in 1 .. Len(t) /\ i = Len(s) + (i - Len(s))
      BY <1>1, <2>2
    <3>2. all[i] = t[i - Len(s)]
      BY <1>1, <3>1
    <3> QED BY <1>2, <3>1, <3>2 DEF KeepsLength
  <2> QED BY <2>1, <2>2
<1>3. KeepsLength(c, all)
  BY <1>2 DEF KeepsLength
<1> QED BY <1>1, <1>3 DEF all

LEMMA BreakKeepsLength ==
  ASSUME NEW c, IsContent(c), NEW a, IsAd(a), NEW o \in Options, NEW x \in Splices,
         NEW k \in 1 .. Len(FindBreaks(c)), KeepsLength(c, x.segments)
  PROVE  LET y == SpliceBreak(c, a, o, x, FindBreaks(c)[k])
             flight == Flight(a, BreakTarget(c, FindBreaks(c)[k], o), o)
         IN  /\ y \in Splices /\ KeepsLength(c, y.segments)
             /\ \E before \in Seq(Segments) : y.segments = before \o flight
             /\ flight \in Seq(Segments) /\ \A i \in 1 .. Len(flight) : flight[i].ad
<1> DEFINE br == FindBreaks(c)[k]
           span == SubSeq(c, x.cursor, SpanEnd(br, o))
           resumed == IF x.cursor = 1 THEN span ELSE Resumed(span)
           announced == Announced(resumed, o)
           flight == Flight(a, BreakTarget(c, br, o), o)
           y == SpliceBreak(c, a, o, x, br)
<1>1. c \in Seq(Segments)
  BY DEF IsContent
<1>2. br \in Breaks /\ IsBreak(c, br, Len(c)) /\ Len(c) \in Nat
  BY <1>1, BreaksFound, LenProperties
<1>3. x.cursor \in Nat \ {0} /\ x.segments \in Seq(Segments)
  BY DEF Splices
<1>4. y \in Splices
  BY <1>1, SpliceBreakTyped
<1>5. y.segments = (x.segments \o announced) \o flight
  BY DEF SpliceBreak
<1>6. /\ flight \in Seq(Segments) /\ \A i \in 1 .. Len(flight) : flight[i].ad
  <2>1. GoodFlight(flight)
    BY <1>1, <1>2, TargetIsInt, FlightIsGood
  <2> HIDE DEF flight
  <2> QED BY <2>1, LenProperties DEF GoodFlight
<1> HIDE DEF br
<1>7. SpanEnd(br, o) \in Int /\ SpanEnd(br, o) <= Len(c)
  <2>1. br.start \in 1 .. Len(c) /\ br.end \in 1 .. Len(c)
    BY <1>2 DEF IsBreak
  <2> QED BY <1>2, <2>1 DEF SpanEnd
<1>8. span \in Seq(Segments) /\ KeepsLength(c, span)
  BY <1>3, <1>7, SpanLength
<1> HIDE DEF y, flight, span
<1>9. resumed \in Seq(Segments) /\ KeepsLength(c, resumed)
  <2>1. Resumed(span) \in Seq(Segments) /\ KeepsLength(c, Resumed(span))
    BY <1>8, ResumedLength, SameLength
  <2> QED BY <1>8, <2>1
<1> HIDE DEF resumed
<1>10. announced \in Seq(Segments) /\ KeepsLength(c, announced)
  BY <1>9, AnnouncedLength, SameLength
<1> HIDE DEF announced
<1>11. KeepsLength(c, flight)
  BY <1>6 DEF KeepsLength
<1>12. x.segments \o announced \in Seq(Segments) /\ KeepsLength(c, x.segments \o announced)
  BY <1>3, <1>10, LengthGoesOn
<1> DEFINE before == x.segments \o announced
<1>13. KeepsLength(c, y.segments)
  <2>1. before \in Seq(Segments) /\ KeepsLength(c, before) /\ y.segments = before \o flight
    BY <1>5, <1>12 DEF y
  <2> HIDE DEF before
  <2> QED BY <1>6, <1>11, <2>1, LengthGoesOn
<1> QED BY <1>4, <1>5, <1>6, <1>12, <1>13 DEF y, flight, br

(* The ad plays, whatever its break wants, if there is any of it.            *)
LEMMA FlightPlays ==
  ASSUME NEW a, IsAd(a), a # <<>>, NEW target \in Int, NEW o
  PROVE  Len(Flight(a, target, o)) # 0
<1>1. a \in Seq(Segments) /\ TotalDuration(a) \in Int /\ Len(a) \in Nat \ {0}
  <2>1. a \in Seq(Segments)
    BY DEF IsAd
  <2> QED BY <2>1, TotalIsInt, EmptySeq, LenProperties
<1>2. MarkFirst(a) \in Seq(Segments) /\ Len(MarkFirst(a)) = Len(a)
  BY <1>1, MarkFirstMarks
<1>3. \A times \in Nat : Repeated(a, times) \in Seq(Segments) /\ Len(Repeated(a, times)) # 0
  <2> SUFFICES ASSUME NEW times \in Nat
               PROVE  Repeated(a, times) \in Seq(Segments) /\ Len(Repeated(a, times)) # 0
    OBVIOUS
  <2>1. PICK f \in [0 .. times -> Seq(Segments)] :
          /\ f[0] = a /\ Repeated(a, times) = f[times]
          /\ \A k \in 1 .. times : f[k] = f[k - 1] \o MarkFirst(a)
    BY <1>1, RepeatedSteps
  <2>2. CASE times = 0
    BY <1>1, <2>1, <2>2
  <2>3. CASE times # 0
    <3>1. times \in 1 .. times /\ times - 1 \in 0 .. times
      BY <2>3
    <3>2. f[times - 1] \in Seq(Segments) /\ f[times] = f[times - 1] \o MarkFirst(a)
      BY <2>1, <3>1
    <3> DEFINE u == f[times - 1]
               v == MarkFirst(a)
    <3>3. /\ Len(f[times]) = Len(u) + Len(v)
          /\ Len(u) \in Nat /\ f[times] \in Seq(Segments)
      <4>1. u \in Seq(Segments) /\ v \in Seq(Segments) /\ f[times] = u \o v
        BY <1>2, <3>2
      <4> HIDE DEF u, v
      <4> QED BY <4>1, ConcatElements
    <3> QED BY <1>1, <1>2, <2>1, <3>3
  <2> QED BY <2>2, <2>3
<1>4. LoopSegments(a, target) \in Seq(Segments) /\ Len(LoopSegments(a, target)) # 0
  <2>1. CASE TotalDuration(a) <= 0
    BY <1>1, <2>1 DEF LoopSegments
  <2>2. CASE ~(TotalDuration(a) <= 0)
    <3>1. Repeats(TotalDuration(a), target) \in Nat
      <4>1. Repeats(TotalDuration(a), target) \in 0 .. MaxLoopRepeats
        BY <1>1, RepeatsIsFirst
      <4> QED BY <4>1
    <3>2. LoopSegments(a, target) = Repeated(a, Repeats(TotalDuration(a), target))
      BY <2>2 DEF LoopSegments
    <3> QED BY <1>3, <3>1, <3>2
  <2> QED BY <2>1, <2>2
<1>5. CASE Loops(a, target, o)
  <2>1. Flight(a, target, o) = MarkFirst(LoopSegments(a, target))
    BY <1>5 DEF Flight
  <2> QED BY <1>4, <2>1, MarkFirstMarks
<1>6. CASE ~Loops(a, target, o)
  <2>1. Flight(a, target, o) = MarkFirst(a)
    BY <1>6 DEF Flight
  <2> QED BY <1>1, <1>2, <2>1
<1> QED BY <1>5, <1>6

LEMMA SpliceKeepsLength ==
  ASSUME NEW c, IsContent(c), NEW a, IsAd(a), NEW o \in Options, FindBreaks(c) # <<>>
  PROVE  LET s == SplicedSegments(c, a, o)
         IN  /\ s \in Seq(Segments) /\ KeepsLength(c, s)
             /\ a # <<>> => \E i \in 1 .. Len(s) : s[i].ad
<1> DEFINE n == Len(FindBreaks(c))
           all == SplicedSegments(c, a, o)
<1>1. c \in Seq(Segments) /\ n \in Nat \ {0} /\ Len(c) \in Nat
  BY BreaksFound, LenProperties, EmptySeq DEF IsContent
<1>2. PICK f \in [0 .. n -> Splices] :
        /\ f[0] = NoneSpliced /\ all = Ended(c, f[n])
        /\ \A k \in 1 .. n : f[k] = SpliceBreak(c, a, o, f[k - 1], FindBreaks(c)[k])
  BY <1>1, SplicedSteps
<1> DEFINE T == {k \in Nat : \A i \in 0 .. n : i <= k => KeepsLength(c, f[i].segments)}
<1>3. KeepsLength(c, f[0].segments)
  BY <1>2, EmptySeq DEF KeepsLength, NoneSpliced
<1>4. 0 \in T
  BY <1>3
<1>5. ASSUME NEW k \in T
      PROVE  k + 1 \in T
  <2> SUFFICES ASSUME NEW i \in 0 .. n, i <= k + 1
               PROVE  KeepsLength(c, f[i].segments)
    OBVIOUS
  <2>1. CASE i = 0
    BY <1>3, <2>1
  <2>2. CASE i # 0
    <3>1. i \in 1 .. n /\ i - 1 \in 0 .. n /\ i - 1 <= k
      BY <1>1, <2>2
    <3>2. KeepsLength(c, f[i - 1].segments) /\ f[i - 1] \in Splices
      BY <3>1
    <3>3. KeepsLength(c, SpliceBreak(c, a, o, f[i - 1], FindBreaks(c)[i]).segments)
      BY <3>1, <3>2, BreakKeepsLength
    <3> QED BY <1>2, <3>1, <3>3
  <2> QED BY <2>1, <2>2
<1>6. T = Nat
  <2>1. T \subseteq Nat
    OBVIOUS
  <2> HIDE DEF T
  <2> QED BY <1>4, <1>5, <2>1, SetInduction
<1>7. n \in T /\ n - 1 \in T /\ n \in 0 .. n /\ n - 1 \in 0 .. n /\ n \in 1 .. n
  <2> HIDE DEF T
  <2> QED BY <1>1, <1>6
<1>8. KeepsLength(c, f[n].segments) /\ KeepsLength(c, f[n - 1].segments)
  BY <1>7
<1> DEFINE x == f[n]
           rest == SubSeq(c, x.cursor, Len(c))
           flight == Flight(a, BreakTarget(c, FindBreaks(c)[n], o), o)
<1>9. f[n - 1] \in Splices /\ x = SpliceBreak(c, a, o, f[n - 1], FindBreaks(c)[n])
  BY <1>2, <1>7
<1>10. /\ x \in Splices /\ flight \in Seq(Segments) /\ \A i \in 1 .. Len(flight) : flight[i].ad
       /\ \E before \in Seq(Segments) : x.segments = before \o flight
  BY <1>7, <1>8, <1>9, BreakKeepsLength
<1>11. a # <<>> => Len(flight) # 0
  <2>1. BreakTarget(c, FindBreaks(c)[n], o) \in Int
    BY <1>1, <1>7, BreaksFound, TargetIsInt
  <2> QED BY <2>1, FlightPlays
<1> HIDE DEF flight, x, n, T
<1>12. x.cursor \in Nat \ {0} /\ x.segments \in Seq(Segments)
  BY <1>10 DEF Splices
<1>13. rest \in Seq(Segments) /\ KeepsLength(c, rest)
  BY <1>1, <1>12, SpanLength
<1>14. Resumed(rest) \in Seq(Segments) /\ KeepsLength(c, Resumed(rest))
  <2> HIDE DEF rest
  <2> QED BY <1>13, ResumedLength, SameLength
<1>15. all = x.segments \o Resumed(rest)
  BY <1>2 DEF Ended, x
<1>16. all \in Seq(Segments) /\ KeepsLength(c, all)
  <2> HIDE DEF rest
  <2> QED BY <1>8, <1>12, <1>14, <1>15, LengthGoesOn DEF x
<1>17. ASSUME a # <<>>
       PROVE  \E i \in 1 .. Len(all) : all[i].ad
  <2> HIDE DEF rest, all
  <2>1. PICK before \in Seq(Segments) : x.segments = before \o flight
    BY <1>10
  <2>2. /\ Len(x.segments) = Len(before) + Len(flight)
        /\ Len(before) \in Nat /\ Len(flight) \in Nat
        /\ \A i \in 1 .. Len(flight) : x.segments[Len(before) + i] = flight[i]
    BY <1>10, <2>1, ConcatElements
  <2>3. 1 \in 1 .. Len(flight)
    BY <1>11, <1>17, <2>2
  <2>4. /\ Len(all) = Len(x.segments) + Len(Resumed(rest))
        /\ Len(Resumed(rest)) \in Nat
        /\ \A i \in 1 .. Len(x.segments) : all[i] = x.segments[i]
    BY <1>12, <1>14, <1>15, ConcatElements
  <2> DEFINE i == Len(before) + 1
  <2>5. i \in 1 .. Len(x.segments) /\ i \in 1 .. Len(all)
    BY <2>2, <2>3, <2>4
  <2>6. all[i] = flight[1]
    BY <2>2, <2>3, <2>4, <2>5
  <2>7. all[i].ad
    BY <1>10, <2>3, <2>6
  <2> HIDE DEF i
  <2> QED BY <2>5, <2>7
<1> QED BY <1>16, <1>17

----------------------------------------------------------------------------
(* The timeline of the content: when all of it is kept, in order and at its  *)
(* length, it plays at its own pace, and ads take no time of it.             *)
Silent(s) == [i \in DOMAIN s |-> IF s[i].ad THEN [s[i] EXCEPT !.dur = 0] ELSE s[i]]

LEMMA SilentTyped ==
  ASSUME NEW s \in Seq(Segments)
  PROVE  /\ Silent(s) \in Seq(Segments) /\ Len(Silent(s)) = Len(s)
         /\ \A i \in 1 .. Len(s) : Silent(s)[i].dur = IF s[i].ad THEN 0 ELSE s[i].dur
<1> DEFINE t == Silent(s)
           One(i) == IF s[i].ad THEN [s[i] EXCEPT !.dur = 0] ELSE s[i]
<1>1. Len(s) \in Nat /\ DOMAIN s = 1 .. Len(s) /\ \A i \in 1 .. Len(s) : s[i] \in Segments
  BY LenProperties
<1>2. t = [i \in 1 .. Len(s) |-> One(i)]
  BY <1>1 DEF Silent
<1>3. ASSUME NEW i \in 1 .. Len(s)
      PROVE  One(i) \in Segments /\ One(i).dur = IF s[i].ad THEN 0 ELSE s[i].dur
  <2>1. s[i] \in Segments
    BY <1>1
  <2> DEFINE e == [s[i] EXCEPT !.dur = 0]
  <2>2. e \in Segments /\ e.dur = 0
    <3>1. ASSUME NEW x \in Segments, NEW d \in Int
          PROVE  [x EXCEPT !.dur = d] \in Segments
      BY DEF Segments
    <3>2. ASSUME NEW x \in Segments, NEW d \in Int
          PROVE  [x EXCEPT !.dur = d].dur = d
      BY DEF Segments
    <3> QED BY <2>1, <3>1, <3>2
  <2> QED BY <2>1, <2>2
<1> HIDE DEF One, t
<1>4. t \in [1 .. Len(s) -> Segments] /\ \A i \in 1 .. Len(s) : t[i] = One(i)
  BY <1>2, <1>3
<1>5. t \in Seq(Segments) /\ Len(t) = Len(s)
  BY <1>1, <1>4
<1> QED BY <1>3, <1>4, <1>5 DEF t

AllKept(c, s) ==
  /\ \A i, j \in 1 .. Len(s) : i < j /\ ~s[i].ad /\ ~s[j].ad => s[i].id < s[j].id
  /\ \A x \in 1 .. Len(c) : \E i \in 1 .. Len(s) : ~s[i].ad /\ s[i].id = x

At(c, s, k, m) ==
  /\ UpTo(Silent(s), k) = UpTo(c, m)
  /\ \A i \in 1 .. Len(s) : ~s[i].ad => (i <= k <=> s[i].id <= m)

LEMMA TimelineStep ==
  ASSUME NEW c \in Seq(Segments), NEW s \in Seq(Segments), KeepsLength(c, s), AllKept(c, s),
         NEW k \in 1 .. Len(s), NEW m \in 0 .. Len(c), At(c, s, k - 1, m)
  PROVE  \E to \in 0 .. Len(c) : At(c, s, k, to)
<1>1. /\ Len(c) \in Nat /\ Len(s) \in Nat /\ k \in Nat /\ m \in Nat
      /\ \A i \in 1 .. Len(s) : s[i] \in Segments
  BY LenProperties
<1>2. \A i \in 1 .. Len(s) : s[i].id \in Nat
  BY <1>1 DEF Segments
<1>3. UpTo(Silent(s), k) = UpTo(Silent(s), k - 1) + (IF s[k].ad THEN 0 ELSE s[k].dur)
  <2>1. Silent(s) \in Seq(Segments) /\ k \in 1 .. Len(Silent(s))
    BY SilentTyped
  <2>2. Silent(s)[k].dur = IF s[k].ad THEN 0 ELSE s[k].dur
    BY SilentTyped
  <2> QED BY <2>1, <2>2, UpToSteps
<1>4. UpTo(c, m) \in Int
  BY FirstOnes
<1>5. /\ UpTo(Silent(s), k - 1) = UpTo(c, m)
      /\ \A i \in 1 .. Len(s) : ~s[i].ad => (i <= k - 1 <=> s[i].id <= m)
  BY DEF At
<1>6. CASE s[k].ad
  <2>1. UpTo(Silent(s), k) = UpTo(c, m)
    BY <1>3, <1>4, <1>5, <1>6
  <2>2. \A i \in 1 .. Len(s) : ~s[i].ad => (i <= k <=> i <= k - 1)
    BY <1>1, <1>6
  <2>3. At(c, s, k, m)
    BY <1>5, <2>1, <2>2 DEF At
  <2> QED BY <2>3
<1>7. CASE ~s[k].ad
  <2> DEFINE d == s[k].id
  <2>1. d \in 1 .. Len(c) /\ s[k].dur = c[d].dur /\ d \in Nat
    BY <1>2, <1>7 DEF KeepsLength
  <2> HIDE DEF d
  <2>2. ~(k <= k - 1) /\ ~(d <= m)
    <3>1. k <= k - 1 <=> d <= m
      BY <1>5, <1>7 DEF d
    <3> QED BY <1>1, <3>1
  <2>3. d = m + 1
    <3>1. SUFFICES ASSUME d # m + 1
                   PROVE  FALSE
      OBVIOUS
    <3>2. m + 1 \in 1 .. Len(c) /\ m + 1 < d
      BY <1>1, <2>1, <2>2, <3>1
    <3>3. PICK i \in 1 .. Len(s) : ~s[i].ad /\ s[i].id = m + 1
      BY <3>2 DEF AllKept
    <3>4. ~(i <= k - 1)
      BY <1>1, <1>5, <3>3
    <3>5. i # k
      BY <3>2, <3>3, <2>1, <1>1 DEF d
    <3>6. k < i
      BY <1>1, <3>4, <3>5
    <3>7. d < m + 1
      BY <1>7, <3>3, <3>6 DEF AllKept, d
    <3> QED BY <1>1, <2>1, <3>2, <3>7
  <2>4. d \in 0 .. Len(c) /\ UpTo(c, d) = UpTo(c, m) + c[d].dur
    <3>1. UpTo(c, d) = UpTo(c, d - 1) + c[d].dur
      BY <2>1, UpToSteps
    <3>2. d - 1 = m
      BY <1>1, <2>3
    <3> QED BY <2>1, <3>1, <3>2
  <2>5. UpTo(Silent(s), k) = UpTo(c, d)
    BY <1>3, <1>5, <1>7, <2>1, <2>4
  <2>6. ASSUME NEW i \in 1 .. Len(s), ~s[i].ad
        PROVE  i <= k <=> s[i].id <= d
    <3>1. i <= k - 1 <=> s[i].id <= m
      BY <1>5, <2>6
    <3>2. CASE i = k
      BY <1>1, <2>1, <3>2 DEF d
    <3>3. CASE i < k
      <4>1. i <= k - 1
        BY <1>1, <3>3
      <4> QED BY <1>1, <1>2, <2>3, <3>1, <3>3, <4>1
    <3>4. CASE k < i
      <4>1. d < s[i].id
        BY <1>7, <2>6, <3>4 DEF AllKept, d
      <4> QED BY <1>1, <1>2, <2>1, <3>4, <4>1
    <3> QED BY <1>1, <3>2, <3>3, <3>4
  <2>7. At(c, s, k, d)
    BY <2>5, <2>6 DEF At
  <2> QED BY <2>4, <2>7
<1> QED BY <1>6, <1>7

LEMMA Timeline ==
  ASSUME NEW c \in Seq(Segments), NEW s \in Seq(Segments), KeepsLength(c, s), AllKept(c, s)
  PROVE  \A k \in 0 .. Len(s) : \E m \in 0 .. Len(c) : At(c, s, k, m)
<1> DEFINE n == Len(s)
           T == {k \in Nat : k <= n => \E m \in 0 .. Len(c) : At(c, s, k, m)}
<1>1. /\ n \in Nat /\ Len(c) \in Nat
      /\ \A i \in 1 .. n : ~s[i].ad => s[i].id \in 1 .. Len(c)
  BY LenProperties DEF KeepsLength
<1>2. 0 \in T
  <2>1. UpTo(Silent(s), 0) = 0 /\ UpTo(c, 0) = 0
    BY SilentTyped, UpToSteps
  <2>2. At(c, s, 0, 0)
    BY <1>1, <2>1 DEF At
  <2>3. 0 \in 0 .. Len(c)
    BY <1>1
  <2> QED BY <2>2, <2>3
<1>3. ASSUME NEW k \in T
      PROVE  k + 1 \in T
  <2> SUFFICES ASSUME k + 1 <= n
               PROVE  \E m \in 0 .. Len(c) : At(c, s, k + 1, m)
    OBVIOUS
  <2>1. k \in Nat /\ k <= n /\ k + 1 \in 1 .. Len(s) /\ (k + 1) - 1 = k
    BY <1>1
  <2>2. PICK m \in 0 .. Len(c) : At(c, s, (k + 1) - 1, m)
    BY <2>1
  <2> QED BY <2>1, <2>2, TimelineStep
<1>4. T = Nat
  <2>1. T \subseteq Nat
    OBVIOUS
  <2> HIDE DEF T
  <2> QED BY <1>2, <1>3, <2>1, SetInduction
<1>5. \A k \in 0 .. n : k \in T /\ k <= n
  <2> HIDE DEF T
  <2> QED BY <1>1, <1>4
<1> QED BY <1>5

(* So an ad that plays behind segment d starts when d has ended, and all of  *)
(* the content has ended at the end.                                         *)
LEMMA TimeBehind ==
  ASSUME NEW c \in Seq(Segments), NEW s \in Seq(Segments), KeepsLength(c, s), AllKept(c, s),
         NEW k \in 1 .. Len(s), ~s[k].ad
  PROVE  UpTo(Silent(s), k) = UpTo(c, s[k].id)
<1> DEFINE d == s[k].id
<1>1. Len(c) \in Nat /\ Len(s) \in Nat /\ k \in Nat /\ d \in 1 .. Len(c)
  BY LenProperties DEF KeepsLength
<1>2. k \in 0 .. Len(s)
  BY <1>1
<1>3. PICK m \in 0 .. Len(c) : At(c, s, k, m)
  BY <1>2, Timeline
<1>4. d <= m
  BY <1>1, <1>3 DEF At
<1>5. d = m
  <2>1. SUFFICES ASSUME d # m
                 PROVE  FALSE
    OBVIOUS
  <2>2. m \in 1 .. Len(c) /\ d < m
    BY <1>1, <1>4, <2>1
  <2>3. PICK i \in 1 .. Len(s) : ~s[i].ad /\ s[i].id = m
    BY <2>2 DEF AllKept
  <2>4. i <= k
    <3>1. m <= m
      BY <2>2
    <3> QED BY <1>3, <2>3, <3>1 DEF At
  <2>5. i # k
    BY <2>1, <2>3
  <2>6. i < k
    BY <1>1, <2>4, <2>5
  <2>7. m < d
    BY <2>3, <2>6 DEF AllKept
  <2> HIDE DEF d
  <2> QED BY <1>1, <2>2, <2>7
<1> QED BY <1>3, <1>5 DEF At

LEMMA TimeAtEnd ==
  ASSUME NEW c \in Seq(Segments), NEW s \in Seq(Segments), KeepsLength(c, s), AllKept(c, s)
  PROVE  TotalDuration(Silent(s)) = TotalDuration(c)
<1>1. Len(c) \in Nat /\ Len(s) \in Nat
  BY LenProperties
<1>2. PICK m \in 0 .. Len(c) : At(c, s, Len(s), m)
  BY <1>1, Timeline
<1>3. m = Len(c)
  <2>1. SUFFICES ASSUME m # Len(c)
                 PROVE  FALSE
    OBVIOUS
  <2>2. Len(c) \in 1 .. Len(c) /\ m < Len(c)
    BY <1>1, <2>1
  <2>3. PICK i \in 1 .. Len(s) : ~s[i].ad /\ s[i].id = Len(c)
    BY <2>2 DEF AllKept
  <2>4. Len(c) <= m
    BY <1>1, <1>2, <2>3 DEF At
  <2> QED BY <1>1, <2>2, <2>4
<1>4. Silent(s) \in Seq(Segments) /\ Len(Silent(s)) = Len(s)
  BY SilentTyped
<1> QED BY <1>2, <1>3, <1>4, UpToSteps DEF At

----------------------------------------------------------------------------
(* What a request left behind, and how it is spliced.                        *)
StartsAsked(r) == {b.start : b \in ToSet(r.breaks)}

PreparedInv ==
  /\ stage = "start" => request = NoRequest
  /\ request # NoRequest =>
       /\ WellPrepared(content, request.total, StartsAsked(request))
       /\ stage = "spliced" => opts.preserve

LEMMA PrepareWell ==
  ASSUME Prepare
  PROVE  PreparedInv'
<1>1. PICK r \in Requests : /\ Injectable(r.total, SortedBreaks(r.breaks))
                            /\ request' = r
                            /\ content' = InjectBreaks(r.total, SortedBreaks(r.breaks))
  BY DEF Prepare
<1> DEFINE sorted == SortedBreaks(r.breaks)
<1>2. r.total \in Int /\ r.breaks \in Seq(Asked)
  BY VodAssumption DEF VodAssumption, Asked
<1>3. sorted \in Seq(Asked) /\ Starts(sorted) \subseteq StartsAsked(r)
  BY <1>2, SortedTyped, SortedStarts DEF StartsAsked
<1>4. Injectable(r.total, sorted) /\ content' = InjectBreaks(r.total, sorted)
  BY <1>1
<1> HIDE DEF sorted
<1>5. WellPrepared(content', r.total, Starts(sorted))
  BY <1>2, <1>3, <1>4, PreparedWell
<1>6. WellPrepared(content', r.total, StartsAsked(r))
  BY <1>3, <1>5 DEF WellPrepared
<1>7. stage' = "content"
  BY DEF Prepare
<1>8. WellPrepared(content, request.total, StartsAsked(request))'
  BY <1>1, <1>6
<1> QED BY <1>7, <1>8 DEF PreparedInv

LEMMA PreparedInvariant == Spec => []PreparedInv
<1>1. Init => PreparedInv
  BY DEF Init, PreparedInv
<1>2. PreparedInv /\ [Next]_vars => PreparedInv'
  <2> SUFFICES ASSUME PreparedInv, [Next]_vars
               PROVE  PreparedInv'
    OBVIOUS
  <2>1. CASE Prepare
    BY <2>1, PrepareWell
  <2>2. CASE Read
    <3>1. stage = "start" /\ stage' = "content" /\ request' = request
      BY <2>2 DEF Read
    <3>2. request' = NoRequest'
      BY <3>1 DEF PreparedInv, NoRequest
    <3> QED BY <3>1, <3>2 DEF PreparedInv
  <2>3. CASE Splice
    <3>1. /\ stage' = "spliced" /\ request' = request /\ content' = content
          /\ request # NoRequest => opts'.preserve
      BY <2>3 DEF Splice
    <3>2. request # NoRequest => WellPrepared(content, request.total, StartsAsked(request))
      BY DEF PreparedInv
    <3>3. request' # NoRequest' => WellPrepared(content, request.total, StartsAsked(request))'
      BY <3>1, <3>2 DEF NoRequest
    <3> QED BY <3>1, <3>3 DEF PreparedInv, NoRequest
  <2>4. CASE UNCHANGED vars
    BY <2>4 DEF vars, PreparedInv, NoRequest
  <2> QED BY <2>1, <2>2, <2>3, <2>4 DEF Next
<1> QED BY <1>1, <1>2, PTL DEF Spec

LEMMA RequestSplices ==
  ASSUME VodInv, PreparedInv, stage = "spliced", request # NoRequest
  PROVE  Spliced /\ Out = SplicedSegments(content, ad, opts)
<1>1. IsContent(content) /\ content \in Seq(Segments) /\ SplicedWith
  BY DEF VodInv, IsContent
<1>2. result = SpliceWithOptions(declared, content, ad, opts)
  BY <1>1 DEF SplicedWith
<1>3. opts.preserve /\ WellPrepared(content, request.total, StartsAsked(request))
  BY DEF PreparedInv
<1>4. HasBreaks(content)
  BY <1>1, <1>3, PairedHasBreaks DEF WellPrepared
<1> DEFINE mismatch == \E i \in DOMAIN FindBreaks(content) :
                         Mismatch(ad, BreakTarget(content, FindBreaks(content)[i], opts), opts)
           segments == SplicedSegments(content, ad, opts)
           spliced == [error |-> "none", segments |-> segments,
                       target |-> TargetDuration(declared, segments)]
<1>5. ~mismatch
  BY <1>3 DEF Mismatch
<1>6. result = IF ~HasBreaks(content) THEN Failed("no ad break")
                 ELSE IF mismatch THEN Failed("duration mismatch") ELSE spliced
  BY <1>2 DEF SpliceWithOptions
<1>7. result = spliced
  <2> HIDE DEF mismatch, spliced
  <2> QED BY <1>4, <1>5, <1>6
<1>8. result.error = "none" /\ result.segments = segments
  <2> HIDE DEF segments
  <2> QED BY <1>7
<1> QED BY <1>8 DEF Spliced, Out

LEMMA RequestKept ==
  ASSUME VodInv, PreparedInv, stage = "spliced", request # NoRequest
  PROVE  /\ content \in Seq(Segments) /\ Out \in Seq(Segments)
         /\ KeepsLength(content, Out) /\ AllKept(content, Out)
         /\ ad # <<>> => \E i \in 1 .. Len(Out) : Out[i].ad
<1> DEFINE n == Len(FindBreaks(content))
           plan == PlanOf(content, ad, opts)
<1>1. Spliced /\ Out = SplicedSegments(content, ad, opts) /\ opts.preserve
  BY RequestSplices DEF PreparedInv
<1>2. /\ IsContent(content) /\ IsAd(ad) /\ opts \in Options /\ FindBreaks(content) # <<>>
      /\ SplicedUpTo(plan, Out, Len(content) + 1, n)
  BY <1>1, OutAsPlanned
<1>3. /\ Out \in Seq(Segments) /\ KeepsLength(content, Out)
      /\ ad # <<>> => \E i \in 1 .. Len(Out) : Out[i].ad
  BY <1>1, <1>2, SpliceKeepsLength
<1>4. /\ content \in Seq(Segments) /\ Len(content) \in Nat /\ n \in Nat
      /\ DOMAIN Out = 1 .. Len(Out) /\ Len(Out) \in Nat
      /\ \A j \in 1 .. n : FindBreaks(content)[j] \in Breaks
  BY <1>2, <1>3, BreaksFound, LenProperties DEF IsContent
<1>5. ASSUME NEW j \in DOMAIN plan, NEW x \in Nat
      PROVE  ~(plan[j].before < x /\ x < plan[j].after)
  <2>1. j \in 1 .. n
    BY DEF PlanOf
  <2>2. FindBreaks(content)[j].start \in Nat
    BY <1>4, <2>1 DEF Breaks
  <2>3. /\ plan[j].before = SpanEnd(FindBreaks(content)[j], opts)
        /\ plan[j].after = NextCursor(FindBreaks(content)[j], opts)
    BY <2>1 DEF PlanOf
  <2>4. /\ plan[j].before = FindBreaks(content)[j].start
        /\ plan[j].after = FindBreaks(content)[j].start + 1
    BY <1>1, <2>3 DEF SpanEnd, NextCursor
  <2> HIDE DEF plan
  <2> QED BY <2>2, <2>4
<1> HIDE DEF plan, n
<1>6. ASSUME NEW x \in 1 .. Len(content)
      PROVE  \E i \in 1 .. Len(Out) : ~Out[i].ad /\ Out[i].id = x
  <2>1. x \in Nat /\ x \in 1 .. (Len(content) + 1) - 1
    BY <1>4
  <2>2. Complete(plan, Out, Len(content) + 1)
    BY <1>2 DEF SplicedUpTo
  <2> QED BY <1>4, <1>5, <2>1, <2>2 DEF Complete
<1>7. \A i, j \in 1 .. Len(Out) : i < j /\ ~Out[i].ad /\ ~Out[j].ad => Out[i].id < Out[j].id
  BY <1>2, <1>4 DEF SplicedUpTo, InOrder
<1>8. AllKept(content, Out)
  BY <1>6, <1>7 DEF AllKept
<1> QED BY <1>3, <1>4, <1>8

(* A flight starts when a break of the request does.                         *)
LEMMA FlightOnTime ==
  ASSUME VodInv, PreparedInv, stage = "spliced", request # NoRequest, NEW f \in Flights
  PROVE  StartOfFlight(f) \in StartsAsked(request)
<1>1. Spliced /\ opts.preserve /\ WellPrepared(content, request.total, StartsAsked(request))
  BY RequestSplices DEF PreparedInv
<1>2. /\ content \in Seq(Segments) /\ Out \in Seq(Segments)
      /\ KeepsLength(content, Out) /\ AllKept(content, Out)
      /\ DOMAIN Out = 1 .. Len(Out) /\ Len(Out) \in Nat /\ Len(content) \in Nat
  BY RequestKept, LenProperties
<1>3. PICK j \in 1 .. Len(FindBreaks(content)) : FlightOfBreak(f, FindBreaks(content)[j])
  BY <1>1, FlightsFollowPlan
<1> DEFINE br == FindBreaks(content)[j]
<1>4. br \in Breaks /\ IsBreak(content, br, Len(content))
  BY <1>2, BreaksFound
<1>5. LastBefore(f) = SpanEnd(br, opts)
  BY <1>3 DEF FlightOfBreak
<1> HIDE DEF br
<1>6. LastBefore(f) = br.start
  BY <1>1, <1>5 DEF SpanEnd
<1>7. br.start \in 1 .. Len(content) /\ content[br.start].out
  BY <1>4 DEF IsBreak
<1>8. /\ f[1] \in 1 .. Len(Out) /\ f[1] \in Nat
      /\ f[1] = 1 \/ ~Out[f[1] - 1].ad
  BY <1>2 DEF Flights
<1>9. f[1] # 1
  BY <1>6, <1>7 DEF LastBefore
<1> DEFINE k == f[1] - 1
<1>10. k \in 1 .. Len(Out) /\ ~Out[k].ad /\ Out[k].id = br.start
  <2>1. k \in 1 .. Len(Out)
    BY <1>2, <1>8, <1>9
  <2> QED BY <1>6, <1>8, <1>9, <2>1 DEF LastBefore
<1> HIDE DEF k
<1>11. UpTo(Silent(Out), k) = UpTo(content, br.start)
  <2>1. UpTo(Silent(Out), k) = UpTo(content, Out[k].id)
    BY <1>2, <1>10, TimeBehind
  <2> QED BY <1>10, <2>1
<1>12. UpTo(content, br.start) \in StartsAsked(request)
  BY <1>1, <1>7 DEF WellPrepared
<1>13. ContentTime = Silent(Out)
  BY DEF ContentTime, Silent
<1>14. StartOfFlight(f) = UpTo(Silent(Out), k)
  BY <1>13 DEF StartOfFlight, UpTo, k
<1> QED BY <1>11, <1>12, <1>14

(* What plays of an ad is a flight.                                          *)
LEMMA SomeFlight ==
  ASSUME VodInv, Spliced, NEW i \in DOMAIN Out, Out[i].ad
  PROVE  Flights # {}
<1> DEFINE n == Len(FindBreaks(content))
           plan == PlanOf(content, ad, opts)
           cursor == Len(content) + 1
<1>1. SplicedUpTo(plan, Out, cursor, n)
  BY OutAsPlanned
<1>2. Out \in Seq(Segments) /\ AdsPlaced(plan, Out, cursor, n)
  BY <1>1 DEF SplicedUpTo
<1>3. DOMAIN Out = 1 .. Len(Out) /\ Len(Out) \in Nat
  BY <1>2, LenProperties
<1> HIDE DEF plan, n, cursor
<1>4. PICK j \in 1 .. n, p \in 1 .. i, q \in i .. Len(Out) : Placed(plan, Out, cursor, j, p, q)
  BY <1>2 DEF AdsPlaced
<1>5. p \in DOMAIN Out /\ q \in DOMAIN Out /\ p <= q
  BY <1>3
<1>6. /\ \A x \in p .. q : Out[x].ad
      /\ p = 1 \/ ~Out[p - 1].ad
      /\ q = Len(Out) \/ ~Out[q + 1].ad
  BY <1>4 DEF Placed
<1>7. <<p, q>> \in Flights
  BY <1>5, <1>6 DEF Flights
<1> QED BY <1>7

(* Whatever is asked of InjectBreaks, its result can be spliced, with any    *)
(* ad and any options that insert: every ad starts where a break was asked   *)
(* for, on the timeline of the source, all of which is played; and an ad     *)
(* that has any segments does play.                                          *)
THEOREM AdsStartOnTime == Spec => []AdAtRequestedTime
<1>1. VodInv /\ PreparedInv => AdAtRequestedTime
  <2> SUFFICES ASSUME VodInv, PreparedInv, stage = "spliced", request # NoRequest
               PROVE  /\ result.error = "none"
                      /\ \A f \in Flights : StartOfFlight(f) \in StartsAsked(request)
                      /\ TotalDuration(ContentTime) = request.total
                      /\ ad # <<>> => Flights # {}
    BY DEF AdAtRequestedTime, StartsAsked
  <2>1. Spliced /\ result.error = "none"
    BY RequestSplices DEF Spliced
  <2>2. \A f \in Flights : StartOfFlight(f) \in StartsAsked(request)
    BY FlightOnTime
  <2>3. TotalDuration(ContentTime) = request.total
    <3>1. /\ content \in Seq(Segments) /\ Out \in Seq(Segments)
          /\ KeepsLength(content, Out) /\ AllKept(content, Out)
      BY RequestKept
    <3>2. TotalDuration(Silent(Out)) = TotalDuration(content)
      BY <3>1, TimeAtEnd
    <3>3. TotalDuration(content) = request.total
      BY DEF PreparedInv, WellPrepared
    <3>4. ContentTime = Silent(Out)
      BY DEF ContentTime, Silent
    <3> QED BY <3>2, <3>3, <3>4
  <2>4. ad # <<>> => Flights # {}
    <3>1. Out \in Seq(Segments) /\ (ad # <<>> => \E i \in 1 .. Len(Out) : Out[i].ad)
      BY RequestKept
    <3>2. DOMAIN Out = 1 .. Len(Out)
      BY <3>1, LenProperties
    <3> QED BY <2>1, <3>1, <3>2, SomeFlight
  <2> QED BY <2>1, <2>2, <2>3, <2>4
<1> QED BY <1>1, VodInvariant, PreparedInvariant, PTL
=============================================================================
