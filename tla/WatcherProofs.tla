--------------------------- MODULE WatcherProofs ---------------------------
(* Theorems about one live channel, for every window size, upstream, ad     *)
(* pipeline and feed length.                                                *)
EXTENDS Watcher, Induction, SequenceTheorems, TLAPS

LEMMA FunctionIsSeq ==
  ASSUME NEW S, NEW k \in Nat, NEW f \in [1 .. k -> S]
  PROVE  f \in Seq(S)
BY SeqDef

LEMMA ShortSeqs ==
  ASSUME NEW S, NEW x \in S
  PROVE  <<>> \in Seq(S) /\ <<x>> \in Seq(S) /\ <<x, x>> \in Seq(S)
OBVIOUS

LEMMA OriginalType ==
  ASSUME feed \in Seq(Segments), NEW n \in 1 .. Len(feed), NEW d \in BOOLEAN
  PROVE  Original(n, d) \in Entry
<1>1. feed[n] \in [out : BOOLEAN, in : BOOLEAN, dur : Nat]
  BY WatcherAssumption DEF WatcherAssumption
<1> QED BY <1>1 DEF Original, Entry

LEMMA AdEntriesType ==
  ASSUME NEW f \in Flights \cup {<<>>}, NEW b \in Nat
  PROVE  AdEntries(f, b) \in Seq(Entry)
<1>1. f \in Seq(Nat)
  <2>1. CASE f \in Flights
    BY <2>1, WatcherAssumption DEF WatcherAssumption
  <2>2. CASE f = <<>>
    BY <2>2, EmptySeq
  <2> QED BY <2>1, <2>2
<1>2. DOMAIN f = 1 .. Len(f) /\ Len(f) \in Nat
  BY <1>1
<1>3. \A i \in DOMAIN f : f[i] \in Nat
  BY <1>1, <1>2
<1>4. AdEntries(f, b) \in [1 .. Len(f) -> Entry]
  BY <1>2, <1>3 DEF AdEntries, Entry
<1> QED BY <1>2, <1>4, FunctionIsSeq

LEMMA SplicedAdType ==
  ASSUME br \in BreakState, NEW n \in Nat
  PROVE  SplicedAd(n) \in Seq(Entry)
<1> DEFINE ads == br.adSegments
<1>1. ads \in Seq(Entry)
  BY DEF BreakState
<1>2. DOMAIN ads = 1 .. Len(ads) /\ Len(ads) \in Nat
  BY <1>1
<1>3. ASSUME NEW i \in DOMAIN ads
      PROVE  [ads[i] EXCEPT !.seq = n, !.disc = (i = 1)] \in Entry
  <2>1. ads[i] \in Entry
    BY <1>1, <1>2
  <2>2. (i = 1) \in BOOLEAN
    OBVIOUS
  <2> QED BY <2>1, <2>2 DEF Entry
<1>4. SplicedAd(n) \in [1 .. Len(ads) -> Entry]
  BY <1>2, <1>3 DEF SplicedAd
<1> QED BY <1>2, <1>4, FunctionIsSeq

LEMMA CeilSecondsType ==
  ASSUME NEW d \in Nat
  PROVE  CeilSeconds(d) \in Nat
<1>1. Ticks \in Nat /\ Ticks > 0
  BY WatcherAssumption DEF WatcherAssumption
<1>2. d + Ticks - 1 \in Nat
  BY <1>1
<1> QED BY <1>1, <1>2 DEF CeilSeconds

----------------------------------------------------------------------------
(* Processing a segment appends well-formed entries to the window and leaves *)
(* a well-formed break state: the cases of processSegment.                   *)
LEMMA ProcessType ==
  ASSUME TypeOK, NEW n \in 1 .. MaxFeed, ProcessSegment(n)
  PROVE  /\ n \in 1 .. Len(feed) /\ pc = "locked"
         /\ \E added \in Seq(Entry) : Processing(n, added)
         /\ br' \in BreakState
         /\ \A t \in resolving' : t \in Task
<1>1. br \in BreakState /\ (\A t \in resolving : t \in Task) /\ feed \in Seq(Segments)
  BY DEF TypeOK
<1>2. n \in 1 .. Len(feed) /\ pc = "locked"
  <2>1. pc = "locked" /\ n <= upstream.last
    BY DEF ProcessSegment, StartBreak, FailOpen, SpliceAd, Suppress, PassThrough, Processing
  <2>2. upstream.last \in Nat /\ upstream.last <= Len(feed)
    BY DEF TypeOK, Playlist
  <2>3. Len(feed) \in Nat
    BY <1>1
  <2> QED BY <2>1, <2>2, <2>3
<1>3. Original(n, FALSE) \in Entry /\ Original(n, TRUE) \in Entry
  <2>1. \A d \in BOOLEAN : Original(n, d) \in Entry
    BY <1>1, <1>2, OriginalType
  <2>2. FALSE \in BOOLEAN /\ TRUE \in BOOLEAN
    OBVIOUS
  <2> QED BY Zenon, <2>1, <2>2
<1>4. NoBreak \in BreakState
  BY DEF NoBreak, BreakState
<1>5. \A b \in BreakState : AfterSegment(n, b) \in BreakState
  BY <1>4 DEF AfterSegment
<1>6. Resume(n) \in Seq(Entry)
  <2>1. <<Original(n, TRUE)>> \in Seq(Entry) /\ <<>> \in Seq(Entry)
    BY <1>3, ShortSeqs
  <2> QED BY <2>1 DEF Resume
<1>7. /\ <<Original(n, FALSE)>> \in Seq(Entry)
      /\ <<Original(n, FALSE), Original(n, FALSE)>> \in Seq(Entry)
  BY <1>3, ShortSeqs
<1>8. CASE StartBreak(n)
  <2>1. br' \in BreakState
    <3>1. br.gen + 1 \in Nat
      BY <1>1 DEF BreakState
    <3>2. br' = [active |-> TRUE, gen |-> br.gen + 1, adReady |-> FALSE, adSpliced |-> FALSE,
                 adSegments |-> <<>>, start |-> n]
      BY <1>8 DEF StartBreak, NoBreak
    <3> QED BY <3>1, <3>2 DEF BreakState
  <2>2. [start |-> n, gen |-> br.gen + 1, phase |-> "request", flight |-> <<>>] \in Task
    BY <1>1 DEF Task, BreakState
  <2>3. \A t \in resolving' : t \in Task
    BY <1>1, <1>8, <2>2 DEF StartBreak
  <2>4. Processing(n, <<Original(n, FALSE)>>)
    BY <1>8 DEF StartBreak
  <2> QED BY <1>2, <1>7, <2>1, <2>3, <2>4
<1>9. CASE FailOpen(n)
  <2> DEFINE added == IF feed[n].in THEN <<Original(n, FALSE), Original(n, FALSE)>>
                                    ELSE <<Original(n, FALSE)>>
  <2>1. added \in Seq(Entry)
    BY <1>7
  <2>2. Processing(n, added) /\ br' = AfterSegment(n, br) /\ resolving' = resolving
    BY <1>9 DEF FailOpen
  <2> QED BY <1>2, <1>1, <1>5, <2>1, <2>2
<1>10. CASE SpliceAd(n)
  <2>1. SplicedAd(n) \in Seq(Entry)
    BY <1>1, SplicedAdType
  <2>2. SplicedAd(n) \o Resume(n) \in Seq(Entry)
    BY <1>6, <2>1, ConcatProperties
  <2>3. [br EXCEPT !.adSpliced = TRUE] \in BreakState
    BY <1>1 DEF BreakState
  <2>4. /\ Processing(n, SplicedAd(n) \o Resume(n))
        /\ br' = AfterSegment(n, [br EXCEPT !.adSpliced = TRUE])
        /\ resolving' = resolving
    BY <1>10 DEF SpliceAd
  <2> QED BY <1>2, <1>1, <1>5, <2>2, <2>3, <2>4
<1>11. CASE Suppress(n)
  <2>1. Processing(n, Resume(n)) /\ br' = AfterSegment(n, br) /\ resolving' = resolving
    BY <1>11 DEF Suppress
  <2> QED BY <1>2, <1>1, <1>5, <1>6, <2>1
<1>12. CASE PassThrough(n)
  <2>1. Processing(n, <<Original(n, FALSE)>>) /\ br' = br /\ resolving' = resolving
    BY <1>12 DEF PassThrough
  <2> QED BY <1>2, <1>1, <1>7, <2>1
<1> QED BY <1>8, <1>9, <1>10, <1>11, <1>12 DEF ProcessSegment

(* The trim and the target duration of Unlock keep their types.             *)
LEMMA UnlockType ==
  ASSUME TypeOK, Unlock
  PROVE  /\ segments' \in Seq(Entry) /\ dropped' \in Seq(Entry)
         /\ mediaSequence' \in Nat /\ targetDuration' \in Nat
<1>1. segments \in Seq(Entry) /\ dropped \in Seq(Entry) /\ mediaSequence \in Nat
      /\ targetDuration \in Nat
  BY DEF TypeOK
<1>2. TrimWindow /\ UpdateTargetDuration(segments')
  BY DEF Unlock
<1>3. segments' \in Seq(Entry) /\ dropped' \in Seq(Entry) /\ mediaSequence' \in Nat
  <2>1. CASE Len(segments) <= WindowSize
    BY <1>1, <1>2, <2>1 DEF TrimWindow
  <2>2. CASE ~(Len(segments) <= WindowSize)
    <3>1. segments # <<>>
      BY <2>2, EmptySeq, WatcherAssumption DEF WatcherAssumption
    <3>2. Head(segments) \in Entry /\ Tail(segments) \in Seq(Entry)
      BY <1>1, <3>1, HeadTailProperties
    <3>3. /\ segments' = Tail(segments) /\ mediaSequence' = mediaSequence + 1
          /\ dropped' = Append(dropped, Head(segments))
      BY <1>2, <2>2 DEF TrimWindow
    <3> QED BY <1>1, <3>2, <3>3, AppendProperties
  <2> QED BY <2>1, <2>2
<1>4. targetDuration' \in Nat
  <2>1. CASE targetDuration' = targetDuration
    BY <1>1, <2>1
  <2>2. ASSUME NEW i \in Longest(segments'), targetDuration' = CeilSeconds(segments'[i].dur)
        PROVE  targetDuration' \in Nat
    <3>1. i \in DOMAIN segments'
      BY DEF Longest
    <3>2. segments'[i] \in Entry
      BY <1>3, <3>1
    <3>3. segments'[i].dur \in Nat
      BY <3>2 DEF Entry
    <3> QED BY <2>2, <3>3, CeilSecondsType
  <2> QED BY <1>2, <2>1, <2>2 DEF UpdateTargetDuration
<1> QED BY <1>3, <1>4

(* The watcher's state stays well-formed: a channel's window holds whole    *)
(* segments only, the break state is one of breakState's, and the poller    *)
(* only processes segments that the upstream published.                     *)
THEOREM TypeCorrect == Spec => []TypeOK
<1>1. Init => TypeOK
  <2> SUFFICES ASSUME Init PROVE TypeOK
    OBVIOUS
  <2>1. DefaultTarget \in Nat
    BY WatcherAssumption DEF WatcherAssumption
  <2>2. NoBreak \in BreakState
    BY DEF NoBreak, BreakState
  <2>3. /\ <<>> \in Seq(Segments) /\ <<>> \in Seq(Entry) /\ Len(<<>>) = 0
    BY EmptySeq
  <2>4. /\ feed \in Seq(Segments) /\ feedFirst \in Nat \ {0}
        /\ upstream \in Playlist /\ upstream.first > 0 /\ upstream.last <= Len(feed)
    BY <2>3 DEF Init, Playlist
  <2>6. published \in [mediaSequence : Nat, segments : Seq(Entry), targetDuration : Nat]
    BY <2>1, <2>3 DEF Init
  <2> QED BY <2>1, <2>2, <2>3, <2>4, <2>6 DEF Init, TypeOK
<1>2. TypeOK /\ [Next]_vars => TypeOK'
  <2> SUFFICES ASSUME TypeOK, [Next]_vars PROVE TypeOK'
    OBVIOUS
  <2>1. CASE Publish
    <3>1. PICK s \in Segments : feed' = Append(feed, s)
      BY <2>1 DEF Publish
    <3>2. feed \in Seq(Segments) /\ feedFirst \in Nat \ {0} /\ upstream.last <= Len(feed)
          /\ upstream.last \in Nat /\ seen \subseteq 1 .. Len(feed)
      BY DEF TypeOK, Playlist
    <3>3. feed' \in Seq(Segments) /\ Len(feed') = Len(feed) + 1 /\ Len(feed) \in Nat
      BY <3>1, <3>2, AppendProperties
    <3>4. feedFirst' \in Nat \ {0}
      BY <2>1, <3>2 DEF Publish
    <3>5. upstream.last <= Len(feed') /\ seen \subseteq 1 .. Len(feed')
      BY <3>2, <3>3
    <3> QED BY <2>1, <3>3, <3>4, <3>5 DEF Publish, TypeOK, outputVars
  <2>2. CASE Fetch
    <3>1. feed \in Seq(Segments) /\ feedFirst \in Nat \ {0}
      BY DEF TypeOK
    <3>2. Len(feed) \in Nat
      BY <3>1
    <3>3. upstream' \in Playlist /\ upstream'.first > 0 /\ upstream'.last <= Len(feed)
      BY <2>2, <3>1, <3>2 DEF Fetch, FetchedPlaylist, Playlist
    <3> QED BY <2>2, <3>3 DEF Fetch, TypeOK, outputVars, upstreamVars
  <2>3. CASE Join
    <3>1. nextSeq' \in Nat
      BY <2>3 DEF Join, TypeOK, Playlist
    <3>2. mediaSequence' \in Nat /\ published' \in
             [mediaSequence : Nat, segments : Seq(Entry), targetDuration : Nat]
      BY <2>3, <3>1 DEF Join, TypeOK
    <3> QED BY <2>3, <3>1, <3>2 DEF Join, TypeOK, upstreamVars
  <2>4. CASE Lock
    BY <2>4 DEF Lock, TypeOK, outputVars, upstreamVars
  <2>5. ASSUME NEW n \in 1 .. MaxFeed, ProcessSegment(n)
        PROVE  TypeOK'
    <3>1. PICK added \in Seq(Entry) : Processing(n, added)
      BY <2>5, ProcessType
    <3>2. n \in 1 .. Len(feed) /\ br' \in BreakState /\ \A t \in resolving' : t \in Task
      BY <2>5, ProcessType
    <3>3. segments' \in Seq(Entry)
      BY <3>1, ConcatProperties DEF Processing, TypeOK
    <3> QED BY <3>1, <3>2, <3>3 DEF Processing, TypeOK, upstreamVars
  <2>6. CASE Unlock
    <3>1. /\ segments' \in Seq(Entry) /\ dropped' \in Seq(Entry)
          /\ mediaSequence' \in Nat /\ targetDuration' \in Nat
      BY <2>6, UnlockType
    <3>2. published' \in [mediaSequence : Nat, segments : Seq(Entry), targetDuration : Nat]
      BY <2>6, <3>1 DEF Unlock
    <3> QED BY <2>6, <3>1, <3>2 DEF Unlock, TypeOK, upstreamVars
  <2>7. CASE Stop
    BY <2>7 DEF Stop, TypeOK, outputVars, upstreamVars
  <2>8. ASSUME NEW t \in resolving, Encode(t)
        PROVE  TypeOK'
    <3>1. PICK f \in Flights :
            resolving' = (resolving \ {t}) \cup {[t EXCEPT !.phase = "encoded", !.flight = f]}
      BY <2>8 DEF Encode
    <3>2. t \in Task
      BY DEF TypeOK
    <3>3. [t EXCEPT !.phase = "encoded", !.flight = f] \in Task
      BY <3>2 DEF Task
    <3>4. \A u \in resolving' : u \in Task
      BY <3>1, <3>3 DEF TypeOK
    <3> QED BY <2>8, <3>4 DEF Encode, TypeOK, outputVars, upstreamVars
  <2>9. ASSUME NEW t \in resolving, GiveUp(t)
        PROVE  TypeOK'
    BY <2>9 DEF GiveUp, TypeOK, outputVars, upstreamVars
  <2>10. ASSUME NEW t \in resolving, Deliver(t)
         PROVE  TypeOK'
    <3>1. t \in Task /\ br \in BreakState
      BY DEF TypeOK
    <3>2. AdEntries(t.flight, t.start) \in Seq(Entry)
      BY <3>1, AdEntriesType DEF Task
    <3>3. br' \in BreakState
      BY <2>10, <3>1, <3>2 DEF Deliver, BreakState
    <3>4. \A u \in resolving' : u \in Task
      BY <2>10 DEF Deliver, TypeOK
    <3> QED BY <2>10, <3>3, <3>4 DEF Deliver, TypeOK, outputVars, upstreamVars
  <2>11. CASE Close
    BY <2>11 DEF Close, TypeOK, outputVars, upstreamVars
  <2>12. CASE UNCHANGED vars
    BY <2>12 DEF vars, TypeOK
  <2> QED BY <2>1, <2>2, <2>3, <2>4, <2>5, <2>6, <2>7, <2>8, <2>9, <2>10, <2>11, <2>12
             DEF Next, Poll, ResolveAd
<1> QED BY <1>1, <1>2, PTL DEF Spec

----------------------------------------------------------------------------
(* What viewers see and what the poller edits: outside the critical section *)
(* they are the same; inside it, the window only grew at its end since the  *)
(* last manifest, and MediaSequence did not move.                           *)
Prefix(s, t) == /\ Len(s) <= Len(t)
                /\ \A i \in 1 .. Len(s) : s[i] = t[i]

ListInv ==
  /\ published.mediaSequence = mediaSequence
  /\ Prefix(published.segments, segments)
  /\ pc # "locked" => published.segments = segments
  /\ haveInitialSeq \/ (pc # "locked" /\ segments = <<>>)

LEMMA PrefixOfConcat ==
  ASSUME NEW S, NEW s \in Seq(S), NEW t \in Seq(S), NEW u \in Seq(S), Prefix(s, t)
  PROVE  Prefix(s, t \o u)
BY ConcatProperties DEF Prefix

(* No step of the channel but the end of a poll changes the manifest, and   *)
(* that one appends to it and takes at most its first segment away.         *)
LEMMA UnlockKeepsNumbering ==
  ASSUME TypeOK, ListInv, Unlock
  PROVE  LET gone == published'.mediaSequence - published.mediaSequence IN
         /\ gone \in {0, 1}
         /\ \A i \in DOMAIN published.segments : i > gone =>
              /\ i - gone \in DOMAIN published'.segments
              /\ published'.segments[i - gone] = published.segments[i]
<1> DEFINE p == published.segments
<1>1. segments \in Seq(Entry) /\ p \in Seq(Entry) /\ mediaSequence \in Nat
      /\ published.mediaSequence = mediaSequence
  BY DEF TypeOK, ListInv
<1>2. Len(p) <= Len(segments) /\ (\A i \in 1 .. Len(p) : p[i] = segments[i])
  BY DEF ListInv, Prefix
<1>3. DOMAIN p = 1 .. Len(p) /\ Len(p) \in Nat /\ Len(segments) \in Nat
      /\ DOMAIN segments = 1 .. Len(segments)
  BY <1>1
<1>4. published'.mediaSequence = mediaSequence' /\ published'.segments = segments'
  BY DEF Unlock
<1>5. CASE Len(segments) <= WindowSize
  <2>1. segments' = segments /\ mediaSequence' = mediaSequence
    BY <1>5 DEF Unlock, TrimWindow
  <2> QED BY <1>1, <1>2, <1>3, <1>4, <2>1
<1>6. CASE ~(Len(segments) <= WindowSize)
  <2>1. segments' = Tail(segments) /\ mediaSequence' = mediaSequence + 1
    BY <1>6 DEF Unlock, TrimWindow
  <2>2. segments # <<>>
    BY <1>6, EmptySeq, WatcherAssumption DEF WatcherAssumption
  <2>3. /\ Len(segments') = Len(segments) - 1
        /\ segments' \in Seq(Entry)
        /\ \A i \in 1 .. Len(segments') : segments'[i] = segments[i + 1]
    BY <1>1, <2>1, <2>2, HeadTailProperties
  <2>4. DOMAIN segments' = 1 .. Len(segments) - 1
    BY <2>3
  <2>5. published'.mediaSequence - published.mediaSequence = 1
    BY <1>1, <1>4, <2>1
  <2>6. ASSUME NEW i \in DOMAIN p, i > 1
        PROVE  i - 1 \in DOMAIN segments' /\ segments'[i - 1] = p[i]
    <3>1. i \in 1 .. Len(segments) /\ i - 1 \in 1 .. Len(segments) - 1 /\ p[i] = segments[i]
      BY <1>2, <1>3, <2>6
    <3>2. segments'[i - 1] = segments[(i - 1) + 1]
      BY <2>3, <3>1
    <3> QED BY <2>4, <3>1, <3>2
  <2> QED BY <1>4, <2>5, <2>6
<1> QED BY <1>5, <1>6

LEMMA ListInductive == TypeOK /\ ListInv /\ [Next]_vars => ListInv'
<1> SUFFICES ASSUME TypeOK, ListInv, [Next]_vars PROVE ListInv'
  OBVIOUS
<1> USE DEF ListInv
<1>1. CASE Join
  <2>1. segments = <<>> /\ published.segments = <<>>
    BY <1>1 DEF Join
  <2>2. published'.mediaSequence = mediaSequence' /\ published'.segments = <<>>
    BY <1>1, <2>1 DEF Join, TypeOK
  <2> QED BY <1>1, <2>1, <2>2 DEF Join, Prefix
<1>2. ASSUME NEW n \in 1 .. MaxFeed, ProcessSegment(n)
      PROVE  ListInv'
  <2>1. PICK added \in Seq(Entry) : Processing(n, added)
    BY <1>2, ProcessType
  <2>2. Prefix(published.segments, segments \o added)
    BY PrefixOfConcat DEF TypeOK
  <2> QED BY <2>1, <2>2 DEF Processing, Prefix
<1>3. CASE Unlock
  <2>1. published'.segments = segments' /\ published'.mediaSequence = mediaSequence' /\ pc' = "idle"
        /\ haveInitialSeq' = haveInitialSeq /\ pc = "locked"
    BY <1>3 DEF Unlock
  <2>2. Len(segments') \in Nat
    BY <1>3, UnlockType
  <2>4. haveInitialSeq
    BY <2>1
  <2>5. haveInitialSeq' /\ pc' # "locked"
    BY <2>1, <2>4
  <2> QED BY <2>1, <2>2, <2>5 DEF Prefix
<1>4. CASE Publish \/ Fetch \/ Lock \/ Stop \/ Close
  BY <1>4 DEF Publish, Fetch, Lock, Stop, Close, outputVars, upstreamVars, Prefix
<1>5. CASE ResolveAd
  <2>1. UNCHANGED <<published, segments, mediaSequence, pc, haveInitialSeq>>
    BY <1>5 DEF ResolveAd, Encode, GiveUp, Deliver, outputVars
  <2> QED BY <2>1 DEF Prefix
<1>6. CASE UNCHANGED vars
  BY <1>6 DEF vars, Prefix
<1> QED BY <1>1, <1>2, <1>3, <1>4, <1>5, <1>6 DEF Next, Poll

(* The live-playlist contract that trimWindow exists for: from one manifest *)
(* to the next MediaSequence advances by at most one and every segment both *)
(* list keeps its media sequence number, however large an ad was spliced.   *)
THEOREM NumberingIsStable == Spec => StableNumbering
<1> DEFINE Keeps ==
      haveInitialSeq =>
        LET gone == published'.mediaSequence - published.mediaSequence IN
        /\ gone \in {0, 1}
        /\ \A i \in DOMAIN published.segments : i > gone =>
             /\ i - gone \in DOMAIN published'.segments
             /\ published'.segments[i - gone] = published.segments[i]
<1>1. Init => ListInv
  BY EmptySeq DEF Init, ListInv, Prefix
<1>2. TypeOK /\ ListInv /\ [Next]_vars => [Keeps]_vars
  <2> SUFFICES ASSUME TypeOK, ListInv, [Next]_vars, haveInitialSeq, ~Unlock
               PROVE  Keeps
    BY UnlockKeepsNumbering
  <2>1. published' = published
    <3>1. CASE ResolveAd
      BY <3>1 DEF ResolveAd, Encode, GiveUp, Deliver
    <3>2. ASSUME NEW n \in 1 .. MaxFeed, ProcessSegment(n)
          PROVE  published' = published
      BY <3>2, ProcessType DEF Processing
    <3> QED BY <3>1, <3>2 DEF Next, Poll, Publish, Fetch, Join, Lock, Stop, Close, vars
  <2>2. published.segments \in Seq(Entry) /\ published.mediaSequence \in Nat
    BY DEF TypeOK
  <2>3. \A i \in DOMAIN published.segments : i \in Int /\ i - 0 = i
    BY <2>2
  <2>4. published'.mediaSequence - published.mediaSequence = 0
    BY <2>1, <2>2
  <2> QED BY <2>1, <2>3, <2>4
<1>3. Spec => [][Keeps]_vars
  BY <1>1, <1>2, TypeCorrect, ListInductive, PTL DEF Spec
<1> QED BY <1>3 DEF StableNumbering
----------------------------------------------------------------------------
(* The inductive invariant.  The poller moves forward over the feed, and    *)
(* everything it has listed stands for a segment it has processed.          *)
SeenInv ==
  /\ \A n \in seen : n < nextSeq
  /\ \A i \in DOMAIN History : History[i].seq \in seen
  /\ ~haveInitialSeq => seen = {} /\ pc # "locked"

(* A break lasts from a CUE-OUT to the first CUE-IN after it, and an ad that *)
(* a goroutine delivers is never empty.                                      *)
BreakInv ==
  /\ ~br.active => br = NoBreak
  /\ br.active =>
       /\ br.start \in seen /\ feed[br.start].out
       /\ \A c \in seen : br.start < c => ~feed[c].in
  /\ br.adReady => br.adSegments # <<>>
  /\ \A i \in DOMAIN br.adSegments : br.adSegments[i].ad
  /\ \A t \in resolving : t.phase = "encoded" => t.flight # <<>>

(* The channel is on an ad from the splice to the CUE-IN.  Then an ad of this *)
(* break is in the history and its end; otherwise every ad in the history    *)
(* was ended by a CUE-IN and content is its end.                             *)
OnAd == br.active /\ br.adSpliced

EndedAt(c, i) == c \in seen /\ feed[c].in /\ History[i].seq <= c

SpliceInv ==
  /\ OnAd => \E i \in DOMAIN History : History[i].ad /\ History[i].seq > br.start
  /\ ~OnAd => \A i \in DOMAIN History : History[i].ad => \E c \in seen : EndedAt(c, i)
  /\ IF History = <<>> THEN ~OnAd ELSE (History[Len(History)].ad <=> OnAd)

IInv == SeenInv /\ BreakInv /\ SpliceInv

LEMMA HistoryType == TypeOK => History \in Seq(Entry)
BY ConcatProperties DEF TypeOK, History

(* The history grew by added, at its end: each entry is an old one in its   *)
(* old place or one of the added ones.                                      *)
Lengthened(added) ==
  /\ History \in Seq(Entry) /\ History' \in Seq(Entry)
  /\ Len(History) \in Nat /\ Len(added) \in Nat
  /\ DOMAIN History = 1 .. Len(History) /\ DOMAIN History' = 1 .. Len(History')
  /\ Len(History') = Len(History) + Len(added)
  /\ \A i \in 1 .. Len(History) : History'[i] = History[i]
  /\ \A k \in 1 .. Len(added) : History'[Len(History) + k] = added[k]
  /\ \A i \in DOMAIN History' :
       \/ i \in 1 .. Len(History) /\ i \in DOMAIN History /\ History'[i] = History[i]
       \/ \E k \in 1 .. Len(added) : i = Len(History) + k /\ History'[i] = added[k]

LEMMA HistoryGrows ==
  ASSUME TypeOK, NEW added \in Seq(Entry), segments' = segments \o added, dropped' = dropped
  PROVE  Lengthened(added)
<1>1. dropped \in Seq(Entry) /\ segments \in Seq(Entry)
  BY DEF TypeOK
<1>2. History' = History \o added
  BY <1>1, ConcatAssociative DEF History
<1>3. History \in Seq(Entry)
  BY HistoryType
<1>4. Len(History) \in Nat /\ Len(added) \in Nat
  BY <1>3
<1>5. /\ History' \in Seq(Entry) /\ Len(History') = Len(History) + Len(added)
      /\ \A i \in 1 .. Len(History) + Len(added) :
           History'[i] = IF i <= Len(History) THEN History[i] ELSE added[i - Len(History)]
  BY <1>2, <1>3, ConcatProperties
<1>6. ASSUME NEW i \in 1 .. Len(History)
      PROVE  History'[i] = History[i]
  BY <1>4, <1>5
<1>7. ASSUME NEW k \in 1 .. Len(added)
      PROVE  History'[Len(History) + k] = added[k]
  <2>1. /\ Len(History) + k \in 1 .. Len(History) + Len(added)
        /\ ~(Len(History) + k <= Len(History))
        /\ (Len(History) + k) - Len(History) = k
    BY <1>4
  <2> QED BY <1>5, <2>1
<1>8. DOMAIN History = 1 .. Len(History) /\ DOMAIN History' = 1 .. Len(History')
  BY <1>3, <1>5
<1>9. ASSUME NEW i \in DOMAIN History', i \notin 1 .. Len(History)
      PROVE  \E k \in 1 .. Len(added) : i = Len(History) + k /\ History'[i] = added[k]
  <2>1. i \in 1 .. Len(History) + Len(added)
    BY <1>5, <1>8
  <2>2. i - Len(History) \in 1 .. Len(added) /\ i = Len(History) + (i - Len(History))
    BY <1>4, <1>9, <2>1
  <2> QED BY <1>7, <2>2
<1> QED BY <1>3, <1>4, <1>5, <1>6, <1>7, <1>8, <1>9 DEF Lengthened

(* Trimming moves a segment from the window to what was dropped before.     *)
LEMMA TrimKeepsHistory ==
  ASSUME TypeOK, TrimWindow
  PROVE  History' = History
<1>1. dropped \in Seq(Entry) /\ segments \in Seq(Entry)
  BY DEF TypeOK
<1>2. CASE Len(segments) <= WindowSize
  BY <1>2 DEF TrimWindow, History
<1>3. CASE ~(Len(segments) <= WindowSize)
  <2>1. segments # <<>>
    BY <1>3, EmptySeq, WatcherAssumption DEF WatcherAssumption
  <2>2. segments' = Tail(segments) /\ dropped' = Append(dropped, Head(segments))
    BY <1>3 DEF TrimWindow
  <2>3. Head(segments) \in Entry /\ Tail(segments) \in Seq(Entry)
    BY <1>1, <2>1, HeadTailProperties
  <2>4. dropped' = dropped \o <<Head(segments)>>
    BY <1>1, <2>2, <2>3, AppendIsConcat
  <2>5. segments = <<Head(segments)>> \o Tail(segments)
    <3>1. SubSeq(segments, 1, Len(segments)) = segments /\ Tail(segments) = SubSeq(segments, 2, Len(segments))
      BY <1>1, <2>1, SubSeqFull, TailIsSubSeq
    <3>2. 1 \in 1 .. Len(segments) /\ Len(segments) \in 1 .. Len(segments) /\ 1 + 1 = 2
      BY <1>1, <2>1, EmptySeq
    <3>3. SubSeq(segments, 1, Len(segments)) = <<segments[1]>> \o SubSeq(segments, 1 + 1, Len(segments))
      BY <1>1, <3>2, SubSeqRecursiveFirst
    <3>4. Head(segments) = segments[1]
      BY <1>1, <2>1
    <3> QED BY <3>1, <3>2, <3>3, <3>4
  <2>6. <<Head(segments)>> \in Seq(Entry)
    BY <2>3, ShortSeqs
  <2>7. dropped' \o segments' = dropped \o (<<Head(segments)>> \o Tail(segments))
    BY <1>1, <2>2, <2>3, <2>4, <2>6, ConcatAssociative
  <2> QED BY <2>5, <2>7 DEF History
<1> QED BY <1>2, <1>3

(* Every step but the processing of a segment leaves the history alone.     *)
LEMMA QuietStep ==
  ASSUME TypeOK, [Next]_vars, \A n \in 1 .. MaxFeed : ~ProcessSegment(n)
  PROVE  /\ History' = History /\ seen' = seen
         /\ \A n \in 1 .. Len(feed) : feed'[n] = feed[n]
<1>1. CASE Publish
  <2>1. PICK s \in Segments : feed' = Append(feed, s)
    BY <1>1 DEF Publish
  <2>2. feed \in Seq(Segments)
    BY DEF TypeOK
  <2>3. \A n \in 1 .. Len(feed) : feed'[n] = feed[n]
    BY <2>1, <2>2, AppendProperties
  <2> QED BY <1>1, <2>3 DEF Publish, History, outputVars
<1>2. CASE Unlock
  BY <1>2, TrimKeepsHistory DEF Unlock, upstreamVars
<1>3. CASE Fetch \/ Join \/ Lock \/ Stop \/ Close
  BY <1>3 DEF Fetch, Join, Lock, Stop, Close, History, outputVars, upstreamVars
<1>4. CASE ResolveAd
  BY <1>4 DEF ResolveAd, Encode, GiveUp, Deliver, History, outputVars, upstreamVars
<1>5. CASE UNCHANGED vars
  BY <1>5 DEF vars, History
<1> QED BY <1>1, <1>2, <1>3, <1>4, <1>5 DEF Next, Poll
----------------------------------------------------------------------------
(* What each case of processSegment appends to the window for segment n.    *)
Content(s, n) == ~s.ad /\ s.seq = n
Plain(added, n) == Len(added) = 1 /\ Content(added[1], n)
Twice(added, n) == Len(added) = 2 /\ Content(added[1], n) /\ Content(added[2], n)
Nothing(added) == Len(added) = 0
Resumes(added, n) == Plain(added, n) /\ added[1].disc

(* A flight of m segments, the first one marked.                            *)
Flight(added, n, m) ==
  /\ m \in 1 .. Len(added) /\ added[1].disc
  /\ \A k \in 1 .. m : added[k].ad /\ added[k].seq = n

FlightThenContent(added, n) ==
  /\ Len(added) \in Nat /\ Len(added) > 1
  /\ Flight(added, n, Len(added) - 1)
  /\ Content(added[Len(added)], n) /\ added[Len(added)].disc

AddedBy(added, n) ==
  \/ StartBreak(n) /\ Plain(added, n)
  \/ FailOpen(n) /\ IF feed[n].in THEN Twice(added, n) ELSE Plain(added, n)
  \/ SpliceAd(n) /\ IF feed[n].in THEN FlightThenContent(added, n) ELSE Flight(added, n, Len(added))
  \/ Suppress(n) /\ IF feed[n].in THEN Resumes(added, n) ELSE Nothing(added)
  \/ PassThrough(n) /\ Plain(added, n)

LEMMA SplicedAdIsFlight ==
  ASSUME br \in BreakState, NEW n \in Nat, br.adSegments # <<>>,
         \A i \in DOMAIN br.adSegments : br.adSegments[i].ad
  PROVE  /\ SplicedAd(n) \in Seq(Entry)
         /\ Flight(SplicedAd(n), n, Len(SplicedAd(n)))
<1>1. br.adSegments \in Seq(Entry)
  BY DEF BreakState
<1>2. DOMAIN br.adSegments = 1 .. Len(br.adSegments) /\ Len(br.adSegments) \in Nat \ {0}
  BY <1>1, EmptySeq
<1>3. SplicedAd(n) \in Seq(Entry)
  BY SplicedAdType
<1>4. DOMAIN SplicedAd(n) = 1 .. Len(br.adSegments)
  BY <1>2 DEF SplicedAd
<1>5. Len(SplicedAd(n)) = Len(br.adSegments)
  BY <1>2, <1>3, <1>4, LenProperties
<1>6. ASSUME NEW k \in 1 .. Len(br.adSegments)
      PROVE  SplicedAd(n)[k].ad /\ SplicedAd(n)[k].seq = n /\ (k = 1 => SplicedAd(n)[k].disc)
  <2>1. br.adSegments[k] \in Entry /\ br.adSegments[k].ad
    BY <1>1, <1>2
  <2>2. SplicedAd(n)[k] = [br.adSegments[k] EXCEPT !.seq = n, !.disc = (k = 1)]
    BY <1>2 DEF SplicedAd
  <2> QED BY <2>1, <2>2 DEF Entry
<1> QED BY <1>2, <1>3, <1>5, <1>6 DEF Flight

LEMMA Cases ==
  ASSUME TypeOK, BreakInv, NEW n \in 1 .. MaxFeed, ProcessSegment(n)
  PROVE  \E added \in Seq(Entry) : Processing(n, added) /\ AddedBy(added, n)
<1>1. n \in 1 .. Len(feed) /\ n \in Nat /\ feed \in Seq(Segments) /\ br \in BreakState
  BY ProcessType DEF TypeOK
<1>2. \A d \in BOOLEAN : Original(n, d) \in Entry
  BY <1>1, OriginalType
<1>3. \A d \in BOOLEAN : Original(n, d) \in Entry /\ Content(Original(n, d), n)
                         /\ Original(n, d).disc = d
  BY <1>2 DEF Original, Content
<1>4. /\ Original(n, FALSE) \in Entry /\ Content(Original(n, FALSE), n)
      /\ Original(n, TRUE) \in Entry /\ Content(Original(n, TRUE), n) /\ Original(n, TRUE).disc
  BY <1>3
<1> DEFINE one == <<Original(n, FALSE)>>
           two == <<Original(n, FALSE), Original(n, FALSE)>>
           marked == <<Original(n, TRUE)>>
<1>5. /\ one \in Seq(Entry) /\ Plain(one, n)
      /\ two \in Seq(Entry) /\ Twice(two, n)
      /\ marked \in Seq(Entry) /\ Resumes(marked, n)
      /\ <<>> \in Seq(Entry) /\ Nothing(<<>>)
  BY <1>4, ShortSeqs DEF Plain, Twice, Resumes, Nothing
<1>6. CASE StartBreak(n)
  <2>1. Processing(n, one)
    BY <1>6 DEF StartBreak
  <2> QED BY <1>5, <1>6, <2>1 DEF AddedBy
<1>7. CASE FailOpen(n)
  <2>1. Processing(n, IF feed[n].in THEN two ELSE one)
    BY <1>7 DEF FailOpen
  <2> HIDE DEF one, two
  <2>2. CASE feed[n].in
    BY <1>5, <1>7, <2>1, <2>2 DEF AddedBy
  <2>3. CASE ~feed[n].in
    BY <1>5, <1>7, <2>1, <2>3 DEF AddedBy
  <2> QED BY <2>2, <2>3
<1>8. CASE SpliceAd(n)
  <2> DEFINE ads == SplicedAd(n)
  <2>1. br.adSegments # <<>> /\ \A i \in DOMAIN br.adSegments : br.adSegments[i].ad
    BY <1>8 DEF SpliceAd, BreakInv
  <2>2. ads \in Seq(Entry) /\ Flight(ads, n, Len(ads))
    BY <1>1, <2>1, SplicedAdIsFlight
  <2>3. Processing(n, ads \o Resume(n))
    BY <1>8 DEF SpliceAd
  <2> HIDE DEF ads
  <2>4. CASE feed[n].in
    <3>1. Processing(n, ads \o marked)
      BY <2>3, <2>4 DEF Resume
    <3> HIDE DEF marked
    <3>2. /\ ads \o marked \in Seq(Entry) /\ Len(ads \o marked) = Len(ads) + Len(marked)
          /\ \A i \in 1 .. Len(ads) + Len(marked) :
               (ads \o marked)[i] = IF i <= Len(ads) THEN ads[i] ELSE marked[i - Len(ads)]
      BY <1>5, <2>2, ConcatProperties
    <3>3. Len(marked) = 1 /\ Content(marked[1], n) /\ marked[1].disc
      BY <1>5 DEF Resumes, Plain
    <3>4. Len(ads) \in Nat /\ Len(ads) > 0
      BY <2>2 DEF Flight
    <3>5. /\ Len(ads \o marked) = Len(ads) + 1
          /\ (ads \o marked)[Len(ads) + 1] = marked[1]
          /\ \A i \in 1 .. Len(ads) : (ads \o marked)[i] = ads[i]
      BY <3>2, <3>3, <3>4
    <3>6. FlightThenContent(ads \o marked, n)
      BY <2>2, <3>3, <3>4, <3>5 DEF FlightThenContent, Flight
    <3> QED BY <1>8, <2>4, <3>1, <3>2, <3>6 DEF AddedBy
  <2>5. CASE ~feed[n].in
    <3>1. Processing(n, ads)
      BY <2>2, <2>3, <2>5, ConcatEmptySeq DEF Resume
    <3> QED BY <1>8, <2>2, <2>5, <3>1 DEF AddedBy
  <2> QED BY <2>4, <2>5
<1>9. CASE Suppress(n)
  <2>1. Processing(n, IF feed[n].in THEN marked ELSE <<>>)
    BY <1>9 DEF Suppress, Resume
  <2> HIDE DEF marked
  <2>2. CASE feed[n].in
    BY <1>5, <1>9, <2>1, <2>2 DEF AddedBy
  <2>3. CASE ~feed[n].in
    BY <1>5, <1>9, <2>1, <2>3 DEF AddedBy
  <2> QED BY <2>2, <2>3
<1>10. CASE PassThrough(n)
  <2>1. Processing(n, one)
    BY <1>10 DEF PassThrough
  <2> QED BY <1>5, <1>10, <2>1 DEF AddedBy
<1> QED BY <1>6, <1>7, <1>8, <1>9, <1>10 DEF ProcessSegment

(* The poller goes to a segment beyond all it has processed; what it appends *)
(* stands for that segment.                                                 *)
Extended(n, added) ==
  /\ n \in Nat /\ \A c \in seen : c \in Nat /\ c < n
  /\ seen' = seen \cup {n} /\ feed' = feed /\ nextSeq' = n + 1
  /\ haveInitialSeq /\ haveInitialSeq' = haveInitialSeq
  /\ \A k \in 1 .. Len(added) : added[k].seq = n
  /\ \A i \in 1 .. Len(History) : History[i].seq \in seen
  /\ Lengthened(added)

LEMMA Advances ==
  ASSUME TypeOK, SeenInv, BreakInv, NEW n \in 1 .. MaxFeed, ProcessSegment(n)
  PROVE  \E added \in Seq(Entry) : AddedBy(added, n) /\ Extended(n, added)
<1>0. PICK added \in Seq(Entry) : Processing(n, added) /\ AddedBy(added, n)
  BY Cases
<1>1. n \in Nat /\ n = Cursor
  BY <1>0 DEF Processing
<1>2. n >= nextSeq /\ nextSeq \in Nat /\ seen \subseteq Nat
  BY <1>1 DEF Cursor, TypeOK, Playlist
<1>3. haveInitialSeq
  BY <1>0 DEF SeenInv, Processing
<1>4. \A k \in 1 .. Len(added) : added[k].seq = n
  <2>1. CASE Plain(added, n) \/ Twice(added, n) \/ Nothing(added) \/ Resumes(added, n)
    BY <2>1 DEF Plain, Twice, Nothing, Resumes, Content
  <2>2. CASE FlightThenContent(added, n)
    BY <2>2 DEF FlightThenContent, Flight, Content
  <2>3. CASE Flight(added, n, Len(added))
    BY <2>3 DEF Flight
  <2> QED BY <1>0, <2>1, <2>2, <2>3 DEF AddedBy
<1>5. segments' = segments \o added /\ dropped' = dropped
  BY <1>0 DEF Processing
<1>6. History \in Seq(Entry)
  BY HistoryType
<1>7. \A i \in 1 .. Len(History) : History[i].seq \in seen
  BY <1>6 DEF SeenInv
<1>8. \A c \in seen : c \in Nat /\ c < n
  BY <1>1, <1>2 DEF SeenInv
<1>9. Lengthened(added)
  BY <1>5, HistoryGrows
<1> QED BY <1>0, <1>1, <1>3, <1>4, <1>6, <1>7, <1>8, <1>9 DEF Extended, Processing, upstreamVars

----------------------------------------------------------------------------
(* The inductive invariant is kept by processing a segment ...              *)
LEMMA SeenKept ==
  ASSUME TypeOK, SeenInv, BreakInv, NEW n \in 1 .. MaxFeed, ProcessSegment(n)
  PROVE  SeenInv'
<1> USE DEF Extended, Lengthened
<1>1. PICK added \in Seq(Entry) : AddedBy(added, n) /\ Extended(n, added)
  BY Advances
<1>2. \A m \in seen' : m < nextSeq'
  BY <1>1
<1>3. ASSUME NEW i \in DOMAIN History'
      PROVE  History'[i].seq \in seen'
  <2>1. \/ i \in 1 .. Len(History) /\ i \in DOMAIN History /\ History'[i] = History[i]
        \/ \E k \in 1 .. Len(added) : i = Len(History) + k /\ History'[i] = added[k]
    BY <1>1
  <2> QED BY <1>1, <2>1
<1> QED BY <1>1, <1>2, <1>3 DEF SeenInv

LEMMA BreakKept ==
  ASSUME TypeOK, SeenInv, BreakInv, NEW n \in 1 .. MaxFeed, ProcessSegment(n)
  PROVE  BreakInv'
<1> USE DEF Extended, Lengthened
<1>1. PICK added \in Seq(Entry) : AddedBy(added, n) /\ Extended(n, added)
  BY Advances
<1>3. br \in BreakState
  BY DEF TypeOK
<1>4. CASE StartBreak(n)
  <2>1. /\ br' = [active |-> TRUE, gen |-> br.gen + 1, adReady |-> FALSE, adSpliced |-> FALSE,
                  adSegments |-> <<>>, start |-> n]
        /\ resolving' = resolving \cup
             {[start |-> n, gen |-> br.gen + 1, phase |-> "request", flight |-> <<>>]}
        /\ feed[n].out
    BY <1>4 DEF StartBreak, NoBreak
  <2>2. \A t \in resolving' : t.phase = "encoded" => t.flight # <<>>
    BY <2>1 DEF BreakInv
  <2>3. \A c \in seen' : ~(n < c)
    BY <1>1
  <2>4. DOMAIN br'.adSegments = {}
    BY <2>1
  <2> QED BY <1>1, <2>1, <2>2, <2>3, <2>4 DEF BreakInv
<1>5. CASE FailOpen(n) \/ SpliceAd(n) \/ Suppress(n)
  <2>1. /\ br.active /\ resolving' = resolving
        /\ br' = AfterSegment(n, br) \/ (br' = AfterSegment(n, [br EXCEPT !.adSpliced = TRUE]))
    BY <1>5 DEF FailOpen, SpliceAd, Suppress
  <2>2. CASE feed[n].in
    <3>1. br' = NoBreak
      BY <2>1, <2>2 DEF AfterSegment
    <3>2. ~br'.active /\ ~br'.adReady /\ DOMAIN br'.adSegments = {}
      BY <3>1 DEF NoBreak
    <3> QED BY <2>1, <3>1, <3>2 DEF BreakInv, NoBreak
  <2>3. CASE ~feed[n].in
    <3>1. br' = br \/ br' = [br EXCEPT !.adSpliced = TRUE]
      BY <2>1, <2>3 DEF AfterSegment
    <3>2. /\ br'.active /\ br'.start = br.start /\ br'.adReady = br.adReady
          /\ br'.adSegments = br.adSegments
      BY <1>3, <2>1, <3>1 DEF BreakState
    <3>3. \A c \in seen' : br.start < c => ~feed[c].in
      BY <1>1, <2>1, <2>3 DEF BreakInv
    <3> QED BY <1>1, <2>1, <3>2, <3>3 DEF BreakInv
  <2> QED BY <2>2, <2>3
<1>6. CASE PassThrough(n)
  <2>1. br' = br /\ resolving' = resolving /\ ~br.active
    BY <1>6 DEF PassThrough
  <2> QED BY <1>1, <2>1 DEF BreakInv, NoBreak
<1> QED BY <1>4, <1>5, <1>6 DEF ProcessSegment

LEMMA SpliceKept ==
  ASSUME TypeOK, IInv, NEW n \in 1 .. MaxFeed, ProcessSegment(n)
  PROVE  SpliceInv'
<1> SeenInv /\ BreakInv /\ SpliceInv
  BY DEF IInv
<1> USE DEF Extended, Lengthened
<1>1. PICK added \in Seq(Entry) : AddedBy(added, n) /\ Extended(n, added)
  BY Advances
<1>3. br \in BreakState
  BY DEF TypeOK
<1>4. \A i \in DOMAIN History' :
        \/ i \in 1 .. Len(History) /\ i \in DOMAIN History /\ History'[i] = History[i]
        \/ \E k \in 1 .. Len(added) : i = Len(History) + k /\ History'[i] = added[k]
  BY <1>1
<1>5. Len(added) > 0 => /\ History' # <<>>
                        /\ History'[Len(History')] = added[Len(added)]
  BY <1>1, <1>3, EmptySeq
(* The ads listed so far are ended for good once there is no ad on.         *)
<1>6. ASSUME ~OnAd \/ feed[n].in, NEW i \in DOMAIN History', History'[i].ad,
             i \in 1 .. Len(History)
      PROVE  \E c \in seen' : EndedAt(c, i)'
  <2>1. i \in DOMAIN History /\ History'[i] = History[i]
    BY <1>1, <1>3, <1>6
  <2>2. CASE ~OnAd
    <3>1. PICK c \in seen : EndedAt(c, i)
      BY <1>6, <2>1, <2>2 DEF SpliceInv
    <3> QED BY <1>1, <2>1, <3>1 DEF EndedAt
  <2>3. CASE feed[n].in
    <3>1. History[i].seq <= n
      BY <1>1, <2>1
    <3> QED BY <1>1, <2>1, <2>3, <3>1 DEF EndedAt
  <2> QED BY <1>6, <2>2, <2>3
<1>7. CASE StartBreak(n) \/ FailOpen(n) \/ PassThrough(n)
  <2>1. ~OnAd /\ ~OnAd'
    <3>1. CASE StartBreak(n)
      BY <3>1 DEF StartBreak, NoBreak, OnAd
    <3>2. CASE FailOpen(n)
      BY <3>2 DEF FailOpen, AfterSegment, NoBreak, OnAd
    <3>3. CASE PassThrough(n)
      BY <3>3 DEF PassThrough, OnAd
    <3> QED BY <1>7, <3>1, <3>2, <3>3
  <2>2. Len(added) > 0 /\ \A k \in 1 .. Len(added) : ~added[k].ad
    <3>1. Plain(added, n) \/ Twice(added, n)
      BY <1>1, <1>7 DEF AddedBy, StartBreak, FailOpen, SpliceAd, Suppress, PassThrough
    <3> QED BY <3>1 DEF Plain, Twice, Content
  <2>3. \A i \in DOMAIN History' : History'[i].ad => \E c \in seen' : EndedAt(c, i)'
    BY <1>4, <1>6, <2>1, <2>2
  <2>4. History' # <<>> /\ ~History'[Len(History')].ad
    BY <1>3, <1>5, <2>2
  <2> QED BY <2>1, <2>3, <2>4 DEF SpliceInv
<1>8. CASE SpliceAd(n)
  <2>1. ~OnAd /\ br.active /\ br.start \in seen
    BY <1>8 DEF SpliceAd, OnAd, BreakInv
  <2>2. CASE feed[n].in
    <3>1. FlightThenContent(added, n)
      BY <1>1, <1>8, <2>2 DEF AddedBy, StartBreak, FailOpen, SpliceAd, Suppress, PassThrough
    <3>2. ~OnAd'
      BY <1>8, <2>2 DEF SpliceAd, AfterSegment, NoBreak, OnAd
    <3>3. ASSUME NEW i \in DOMAIN History', History'[i].ad
          PROVE  \E c \in seen' : EndedAt(c, i)'
      <4>1. CASE i \in 1 .. Len(History)
        BY <1>6, <2>2, <3>3, <4>1
      <4>2. CASE \E k \in 1 .. Len(added) : History'[i] = added[k]
        <5>1. History'[i].seq = n
          BY <1>1, <4>2
        <5> QED BY <1>1, <2>2, <5>1 DEF EndedAt
      <4> QED BY <1>4, <4>1, <4>2
    <3>4. History' # <<>> /\ ~History'[Len(History')].ad
      BY <1>3, <1>5, <3>1 DEF FlightThenContent, Content
    <3> QED BY <3>2, <3>3, <3>4 DEF SpliceInv
  <2>3. CASE ~feed[n].in
    <3>1. Flight(added, n, Len(added))
      BY <1>1, <1>8, <2>3 DEF AddedBy, StartBreak, FailOpen, SpliceAd, Suppress, PassThrough
    <3>2. OnAd' /\ br'.start = br.start
      BY <1>3, <1>8, <2>3 DEF SpliceAd, AfterSegment, BreakState, OnAd
    <3>3. /\ Len(added) > 0 /\ Len(added) \in 1 .. Len(added)
          /\ added[Len(added)].ad /\ added[Len(added)].seq = n
      BY <1>3, <3>1 DEF Flight
    <3>4. Len(History') \in DOMAIN History'
      BY <1>1, <1>3, <3>3
    <3>5. \E i \in DOMAIN History' : History'[i].ad /\ History'[i].seq > br'.start
      BY <1>1, <1>5, <2>1, <3>2, <3>3, <3>4
    <3> QED BY <1>5, <3>2, <3>3, <3>5 DEF SpliceInv
  <2> QED BY <2>2, <2>3
<1>9. CASE Suppress(n)
  <2>1. OnAd /\ br.active
    BY <1>9 DEF Suppress, OnAd
  <2>2. CASE feed[n].in
    <3>1. Plain(added, n)
      BY <1>1, <1>9, <2>2 DEF AddedBy, StartBreak, FailOpen, SpliceAd, Suppress, PassThrough, Resumes
    <3>2. ~OnAd'
      BY <1>9, <2>2 DEF Suppress, AfterSegment, NoBreak, OnAd
    <3>3. Len(added) > 0 /\ \A k \in 1 .. Len(added) : ~added[k].ad
      BY <3>1 DEF Plain, Content
    <3>4. \A i \in DOMAIN History' : History'[i].ad => \E c \in seen' : EndedAt(c, i)'
      BY <1>4, <1>6, <2>2, <3>3
    <3>5. History' # <<>> /\ ~History'[Len(History')].ad
      BY <1>3, <1>5, <3>3
    <3> QED BY <3>2, <3>4, <3>5 DEF SpliceInv
  <2>3. CASE ~feed[n].in
    <3>1. Len(added) = 0
      BY <1>1, <1>9, <2>3 DEF AddedBy, StartBreak, FailOpen, SpliceAd, Suppress, PassThrough, Nothing
    <3>2. br' = br /\ OnAd'
      BY <1>9, <2>1, <2>3 DEF Suppress, AfterSegment, OnAd
    <3>3. /\ History # <<>> /\ History[Len(History)].ad
          /\ \E i \in DOMAIN History : History[i].ad /\ History[i].seq > br.start
      BY <2>1 DEF SpliceInv
    <3>4. Len(History') = Len(History) /\ Len(History) > 0
      BY <1>1, <1>3, <3>1, <3>3, EmptySeq
    <3>5. History' # <<>> /\ History'[Len(History')].ad
      BY <1>1, <1>3, <3>3, <3>4, EmptySeq
    <3>6. \E i \in DOMAIN History' : History'[i].ad /\ History'[i].seq > br'.start
      BY <1>1, <1>3, <3>2, <3>3, <3>4
    <3> QED BY <3>2, <3>5, <3>6 DEF SpliceInv
  <2> QED BY <2>2, <2>3
<1> QED BY <1>7, <1>8, <1>9 DEF ProcessSegment
(* ... and by every other step.                                             *)
LEMMA QuietSeen ==
  ASSUME TypeOK, SeenInv, [Next]_vars, \A n \in 1 .. MaxFeed : ~ProcessSegment(n)
  PROVE  SeenInv'
<1>1. History' = History /\ seen' = seen
  BY QuietStep
<1>2. \A n \in seen' : n < nextSeq'
  <2>1. CASE Join
    BY <1>1, <2>1 DEF Join, SeenInv
  <2>2. CASE ~Join
    <3>1. nextSeq' = nextSeq
      BY <2>2 DEF Next, Poll, ResolveAd, Publish, Fetch, Lock, Unlock, Stop, Close,
                  Encode, GiveUp, Deliver, vars
    <3> QED BY <1>1, <3>1 DEF SeenInv
  <2> QED BY <2>1, <2>2
<1>3. ~haveInitialSeq' => seen' = {} /\ pc' # "locked"
  <2>1. CASE Join \/ Lock
    BY <1>1, <2>1 DEF SeenInv, Join, Lock
  <2>2. CASE ~(Join \/ Lock)
    <3>1. haveInitialSeq' = haveInitialSeq /\ (pc' = pc \/ pc' \in {"idle", "parsed", "stopped"})
      BY <2>2 DEF Next, Poll, ResolveAd, Publish, Fetch, Unlock, Stop, Close, Encode, GiveUp,
                  Deliver, vars
    <3> QED BY <1>1, <3>1 DEF SeenInv
  <2> QED BY <2>1, <2>2
<1> QED BY <1>1, <1>2, <1>3 DEF SeenInv

(* Of the steps between two segments only a delivered ad changes the break: *)
(* it sets adReady and the flight, of the break the generation points to.   *)
LEMMA QuietBreak ==
  ASSUME TypeOK, BreakInv, [Next]_vars, \A n \in 1 .. MaxFeed : ~ProcessSegment(n)
  PROVE  /\ br'.active = br.active /\ br'.start = br.start /\ br'.adSpliced = br.adSpliced
         /\ ~br.active => br' = br
         /\ br'.adReady => br'.adSegments # <<>>
         /\ \A i \in DOMAIN br'.adSegments : br'.adSegments[i].ad
         /\ \A t \in resolving' : t.phase = "encoded" => t.flight # <<>>
<1>1. br \in BreakState /\ \A t \in resolving : t \in Task
  BY DEF TypeOK
<1>2. ASSUME NEW t \in resolving, Encode(t)
      PROVE  br' = br /\ \A u \in resolving' : u.phase = "encoded" => u.flight # <<>>
  <2>1. PICK f \in Flights :
          resolving' = (resolving \ {t}) \cup {[t EXCEPT !.phase = "encoded", !.flight = f]}
    BY <1>2 DEF Encode
  <2>2. [t EXCEPT !.phase = "encoded", !.flight = f].flight = f
    BY <1>1 DEF Task
  <2>3. f # <<>>
    BY WatcherAssumption DEF WatcherAssumption
  <2> QED BY <1>2, <2>1, <2>2, <2>3 DEF Encode, BreakInv
<1>3. ASSUME NEW t \in resolving, Deliver(t), br' # br
      PROVE  /\ br.active
             /\ br' = [br EXCEPT !.adReady = TRUE, !.adSegments = AdEntries(t.flight, t.start)]
             /\ t.flight # <<>>
  BY <1>3 DEF Deliver, StillCurrent, BreakInv
<1>4. ASSUME NEW t \in resolving, Deliver(t), br' # br
      PROVE  /\ br'.active = br.active /\ br'.start = br.start /\ br'.adSpliced = br.adSpliced
             /\ br.active /\ br'.adSegments # <<>>
             /\ \A i \in DOMAIN br'.adSegments : br'.adSegments[i].ad
  <2>1. /\ br'.active = br.active /\ br'.start = br.start /\ br'.adSpliced = br.adSpliced
        /\ br'.adSegments = AdEntries(t.flight, t.start)
    BY <1>1, <1>3, <1>4 DEF BreakState
  <2>2. DOMAIN AdEntries(t.flight, t.start) = DOMAIN t.flight
    BY DEF AdEntries
  <2>3. t.flight \in Seq(Nat)
    BY <1>1, EmptySeq, WatcherAssumption DEF Task, WatcherAssumption
  <2>4. 1 \in DOMAIN t.flight
    <3>1. Len(t.flight) \in Nat /\ Len(t.flight) # 0 /\ DOMAIN t.flight = 1 .. Len(t.flight)
      <4>1. t.flight # <<>>
        BY <1>3, <1>4
      <4> QED BY <2>3, <4>1, EmptySeq
    <3> QED BY <3>1
  <2>5. br'.adSegments # <<>>
    BY <2>1, <2>2, <2>4
  <2>6. \A i \in DOMAIN br'.adSegments : br'.adSegments[i].ad
    BY <2>1, <2>2 DEF AdEntries
  <2> QED BY <1>3, <1>4, <2>1, <2>5, <2>6
<1>5. CASE br' # br
  <2>1. PICK t \in resolving : Deliver(t)
    BY <1>2, <1>5 DEF Next, Poll, ResolveAd, Publish, Fetch, Join, Lock, Unlock, Stop, Close,
                      GiveUp, vars
  <2>2. \A u \in resolving' : u.phase = "encoded" => u.flight # <<>>
    BY <2>1 DEF Deliver, BreakInv
  <2> QED BY <1>4, <1>5, <2>1, <2>2
<1>6. CASE br' = br
  <2>1. \A u \in resolving' : u.phase = "encoded" => u.flight # <<>>
    BY <1>2 DEF Next, Poll, ResolveAd, Publish, Fetch, Join, Lock, Unlock, Stop, Close,
                GiveUp, Deliver, vars, BreakInv
  <2> QED BY <1>6, <2>1 DEF BreakInv
<1> QED BY <1>5, <1>6

LEMMA QuietKeeps ==
  ASSUME TypeOK, IInv, [Next]_vars, \A n \in 1 .. MaxFeed : ~ProcessSegment(n)
  PROVE  IInv'
<1>1. SeenInv /\ BreakInv /\ SpliceInv
  BY DEF IInv
<1>2. /\ History' = History /\ seen' = seen
      /\ \A n \in 1 .. Len(feed) : feed'[n] = feed[n]
  BY QuietStep
<1>3. /\ br'.active = br.active /\ br'.start = br.start /\ br'.adSpliced = br.adSpliced
      /\ ~br.active => br' = br
      /\ br'.adReady => br'.adSegments # <<>>
      /\ \A i \in DOMAIN br'.adSegments : br'.adSegments[i].ad
      /\ \A t \in resolving' : t.phase = "encoded" => t.flight # <<>>
  BY <1>1, QuietBreak
<1>4. \A c \in seen : feed'[c] = feed[c]
  BY <1>2 DEF TypeOK
<1>5. SeenInv'
  BY <1>1, QuietSeen
<1>6. BreakInv'
  <2>1. ~br'.active => br' = NoBreak
    BY <1>1, <1>3 DEF BreakInv
  <2>2. br'.active =>
          /\ br'.start \in seen' /\ feed'[br'.start].out
          /\ \A c \in seen' : br'.start < c => ~feed'[c].in
    BY <1>1, <1>2, <1>3, <1>4 DEF BreakInv
  <2>3. NoBreak' = NoBreak
    BY DEF NoBreak
  <2> QED BY <1>3, <2>1, <2>2, <2>3 DEF BreakInv
<1>7. SpliceInv'
  <2>1. OnAd' <=> OnAd
    BY <1>3 DEF OnAd
  <2>2. \A c \in seen, i \in DOMAIN History : EndedAt(c, i)' <=> EndedAt(c, i)
    BY <1>2, <1>4 DEF EndedAt
  <2>3. \A i \in DOMAIN History : (\E c \in seen : EndedAt(c, i)) => \E c \in seen : EndedAt(c, i)'
    BY <2>2
  <2> QED BY <1>1, <1>2, <1>3, <2>1, <2>3 DEF SpliceInv
<1> QED BY <1>5, <1>6, <1>7 DEF IInv

LEMMA Inductive == Spec => []IInv
<1>1. Init => IInv
  <2> SUFFICES ASSUME Init PROVE IInv
    OBVIOUS
  <2>1. History = <<>>
    BY EmptySeq, ConcatEmptySeq DEF Init, History
  <2>2. DOMAIN History = {}
    BY <2>1
  <2>3. SeenInv /\ SpliceInv
    BY <2>1, <2>2 DEF Init, SeenInv, SpliceInv, OnAd, NoBreak
  <2>4. BreakInv
    BY DEF Init, BreakInv, NoBreak
  <2> QED BY <2>3, <2>4 DEF IInv
<1>2. TypeOK /\ IInv /\ [Next]_vars => IInv'
  <2> SUFFICES ASSUME TypeOK, IInv, [Next]_vars PROVE IInv'
    OBVIOUS
  <2>1. CASE \E n \in 1 .. MaxFeed : ProcessSegment(n)
    BY <2>1, SeenKept, BreakKept, SpliceKept DEF IInv
  <2> QED BY <2>1, QuietKeeps
<1> QED BY <1>1, <1>2, TypeCorrect, PTL DEF Spec

----------------------------------------------------------------------------
(* What the history and the feed say of the segments processed so far stays  *)
(* true: they are never edited.                                             *)
Remains(m) ==
  /\ m \in seen' /\ feed'[m] = feed[m]
  /\ InBreak(m) => InBreak(m)'
  /\ Forwarded(m) => Forwarded(m)'

LEMMA SegmentRemains ==
  ASSUME TypeOK, NEW n, NEW added \in Seq(Entry), Extended(n, added), NEW m \in seen
  PROVE  Remains(m)
<1> USE DEF Extended, Lengthened
<1>1. \A c \in seen' : c \in seen \/ c = n
  OBVIOUS
<1>2. InBreak(m) => InBreak(m)'
  BY <1>1 DEF InBreak
<1>3. Forwarded(m) => Forwarded(m)'
  <2>1. ASSUME NEW i \in DOMAIN History, ~History[i].ad, History[i].seq = m
        PROVE  i \in DOMAIN History' /\ ~History'[i].ad /\ History'[i].seq = m
    BY <2>1
  <2> QED BY <2>1 DEF Forwarded
<1> QED BY <1>2, <1>3 DEF Remains

(* Segment n is in the break that is on.                                    *)
LEMMA InOpenBreak ==
  ASSUME TypeOK, BreakInv, br.active, NEW n, NEW added, Extended(n, added)
  PROVE  InBreak(n)'
<1> USE DEF Extended
<1>1. br.start \in seen /\ br.start < n /\ feed[br.start].out
  BY DEF BreakInv
<1>2. \A c \in seen' : br.start < c /\ c < n => ~feed[c].in
  BY DEF BreakInv
<1> QED BY <1>1, <1>2 DEF InBreak

LEMMA ContentForwards ==
  ASSUME NEW n, NEW added \in Seq(Entry), Extended(n, added),
         NEW k \in 1 .. Len(added), Content(added[k], n)
  PROVE  Forwarded(n)'
<1> USE DEF Extended, Lengthened
<1>1. Len(History) + k \in DOMAIN History'
  OBVIOUS
<1> QED BY <1>1 DEF Forwarded, Content

LEMMA AccountedFor ==
  ASSUME TypeOK, IInv, NEW n \in 1 .. MaxFeed, ProcessSegment(n)
  PROVE  /\ Accounted(n)' /\ seen' = seen \cup {n}
         /\ \A m \in seen : Accounted(m) => Accounted(m)'
<1> SeenInv /\ BreakInv /\ SpliceInv
  BY DEF IInv
<1>1. PICK added \in Seq(Entry) : AddedBy(added, n) /\ Extended(n, added)
  BY Advances
<1>2. seen' = seen \cup {n} /\ feed' = feed
  BY <1>1 DEF Extended
<1>3. ASSUME NEW m \in seen, Accounted(m)
      PROVE  Accounted(m)'
  <2>1. Remains(m)
    BY <1>1, SegmentRemains
  <2>2. CASE Forwarded(m)
    BY <2>1, <2>2 DEF Remains, Accounted
  <2>3. CASE ~Forwarded(m)
    <3>1. InBreak(m) /\ ~feed[m].in
      BY <1>3, <2>3 DEF Accounted
    <3>2. PICK i \in DOMAIN History :
            /\ History[i].ad /\ History[i].seq <= m
            /\ \A c \in seen : History[i].seq <= c /\ c < m => ~feed[c].in
      BY <1>3, <2>3 DEF Accounted
    <3>3. i \in DOMAIN History' /\ History'[i] = History[i]
      BY <1>1 DEF Extended, Lengthened
    <3>4. \A c \in seen' : History[i].seq <= c /\ c < m => ~feed[c].in
      BY <1>1, <3>2 DEF Extended
    <3> QED BY <1>2, <2>1, <3>1, <3>2, <3>3, <3>4 DEF Remains, Accounted
  <2> QED BY <2>2, <2>3
<1>4. Accounted(n)'
  <2>1. CASE \E k \in 1 .. Len(added) : Content(added[k], n)
    BY <1>1, <2>1, ContentForwards DEF Accounted
  <2>2. CASE ~\E k \in 1 .. Len(added) : Content(added[k], n)
    <3>1. ~Plain(added, n) /\ ~Twice(added, n) /\ ~FlightThenContent(added, n) /\ ~Resumes(added, n)
      BY <2>2 DEF Plain, Twice, FlightThenContent, Resumes
    <3>2. /\ ~feed[n].in /\ br.active
          /\ Flight(added, n, Len(added)) \/ OnAd
      BY <1>1, <3>1 DEF AddedBy, SpliceAd, Suppress, OnAd
    <3>3. InBreak(n)'
      BY <1>1, <3>2, InOpenBreak
    <3>4. \E i \in DOMAIN History' :
            /\ History'[i].ad /\ History'[i].seq <= n
            /\ \A c \in seen' : History'[i].seq <= c /\ c < n => ~feed[c].in
      <4>1. CASE Flight(added, n, Len(added))
        <5>1. Len(History) + 1 \in DOMAIN History' /\ 1 \in 1 .. Len(added)
          BY <1>1, <4>1 DEF Flight, Extended, Lengthened
        <5>2. History'[Len(History) + 1].ad /\ History'[Len(History) + 1].seq = n
          BY <1>1, <4>1, <5>1 DEF Flight, Extended, Lengthened
        <5>3. n \in Nat /\ \A c \in seen' : c \in Nat
          BY <1>1 DEF Extended
        <5> QED BY <5>1, <5>2, <5>3
      <4>2. CASE OnAd
        <5>1. PICK i \in DOMAIN History : History[i].ad /\ History[i].seq > br.start
          BY <4>2 DEF SpliceInv
        <5>2. i \in DOMAIN History' /\ History'[i] = History[i] /\ History[i].seq < n
          BY <1>1 DEF Extended, Lengthened
        <5>3. \A c \in seen' : History[i].seq <= c /\ c < n => br.start < c /\ c \in seen
          BY <1>1, <5>1, <3>2 DEF Extended, Lengthened, BreakInv
        <5>4. \A c \in seen' : History[i].seq <= c /\ c < n => ~feed[c].in
          BY <3>2, <5>3 DEF BreakInv
        <5>5. n \in Nat /\ History[i].seq <= n
          BY <1>1, <5>2 DEF Extended, Lengthened
        <5> QED BY <5>1, <5>2, <5>4, <5>5
      <4> QED BY <3>2, <4>1, <4>2
    <3> QED BY <1>2, <3>2, <3>3, <3>4 DEF Accounted
  <2> QED BY <2>1, <2>2
<1> QED BY <1>2, <1>3, <1>4

(* No upstream content is ever lost: whatever the ad pipeline does, however  *)
(* the upstream slides and skips, a segment the poller processed is in the   *)
(* channel unless an ad plays in its place, and the segment of a CUE-IN      *)
(* always is (processSegment, endBreak).                                    *)
THEOREM NothingLost == Spec => []OnlyReplacedByAd
<1>1. Init => OnlyReplacedByAd
  BY DEF Init, OnlyReplacedByAd
<1>2. TypeOK /\ IInv /\ OnlyReplacedByAd /\ [Next]_vars => OnlyReplacedByAd'
  <2> SUFFICES ASSUME TypeOK, IInv, OnlyReplacedByAd, [Next]_vars PROVE OnlyReplacedByAd'
    OBVIOUS
  <2>1. \A m \in seen : Accounted(m)
    BY DEF OnlyReplacedByAd
  <2>2. \A m \in seen' : Accounted(m)'
    <3>1. CASE \E n \in 1 .. MaxFeed : ProcessSegment(n)
      BY <2>1, <3>1, AccountedFor
    <3>2. CASE \A n \in 1 .. MaxFeed : ~ProcessSegment(n)
      <4>1. /\ History' = History /\ seen' = seen
            /\ \A m \in seen : feed'[m] = feed[m]
        BY <3>2, QuietStep DEF TypeOK
      <4> QED BY <2>1, <4>1 DEF Accounted, Forwarded, InBreak
    <3> QED BY <3>1, <3>2
  <2> QED BY <2>2 DEF OnlyReplacedByAd
<1> QED BY <1>1, <1>2, TypeCorrect, Inductive, PTL DEF Spec

----------------------------------------------------------------------------
(* The entries that processing segment n adds, by whether they are ads.     *)
LEMMA AdsAdded ==
  ASSUME TypeOK, IInv, NEW n \in 1 .. MaxFeed, ProcessSegment(n),
         NEW added \in Seq(Entry), AddedBy(added, n), Extended(n, added),
         NEW k \in 1 .. Len(added), added[k].ad
  PROVE  SpliceAd(n) /\ ~OnAd /\ br.active
<1>1. CASE SpliceAd(n)
  BY <1>1 DEF SpliceAd, OnAd
<1>2. CASE ~SpliceAd(n)
  <2>1. Plain(added, n) \/ Twice(added, n) \/ Resumes(added, n) \/ Nothing(added)
    BY <1>2 DEF AddedBy
  <2> QED BY <2>1 DEF Plain, Twice, Resumes, Nothing, Content
<1> QED BY <1>1, <1>2

(* Ads stay in their breaks, and a CUE-IN stays between any two of them.     *)
LEMMA AdsApart ==
  ASSUME TypeOK, IInv, OneAdPerBreak, NEW n \in 1 .. MaxFeed, ProcessSegment(n)
  PROVE  OneAdPerBreak'
<1> SeenInv /\ BreakInv /\ SpliceInv
  BY DEF IInv
<1>1. PICK added \in Seq(Entry) : AddedBy(added, n) /\ Extended(n, added)
  BY Advances
<1>2. /\ n \in Nat /\ \A c \in seen : c \in Nat /\ c < n
      /\ seen' = seen \cup {n} /\ feed' = feed
      /\ \A i \in 1 .. Len(History) : History[i].seq \in seen
      /\ \A i \in DOMAIN History' :
           \/ i \in DOMAIN History /\ History'[i] = History[i] /\ History[i].seq \in seen
           \/ \E k \in 1 .. Len(added) : History'[i] = added[k] /\ added[k].seq = n
  BY <1>1 DEF Extended, Lengthened
<1>3. ASSUME NEW i \in DOMAIN History', History'[i].ad
      PROVE  InBreak(History[i].seq)'
  <2>1. CASE i \in DOMAIN History /\ History'[i] = History[i] /\ History[i].seq \in seen
    <3>1. InBreak(History[i].seq)
      BY <1>3, <2>1 DEF OneAdPerBreak
    <3>2. Remains(History[i].seq)
      BY <1>1, <2>1, SegmentRemains
    <3> QED BY <2>1, <3>1, <3>2 DEF Remains, InBreak
  <2>2. CASE \E k \in 1 .. Len(added) : History'[i] = added[k] /\ added[k].seq = n
    <3>1. br.active
      BY <1>1, <1>3, <2>2, AdsAdded
    <3>2. InBreak(n)'
      BY <1>1, <3>1, InOpenBreak
    <3> QED BY <2>2, <3>2 DEF InBreak
  <2> QED BY <1>2, <2>1, <2>2
<1>4. ASSUME NEW i \in DOMAIN History', History'[i].ad,
             NEW j \in DOMAIN History', History'[j].ad,
             History'[i].seq < History'[j].seq
      PROVE  \E c \in seen' : feed'[c].in /\ History'[i].seq <= c /\ c < History'[j].seq
  <2>1. i \in DOMAIN History /\ History'[i] = History[i] /\ History[i].seq \in seen
    <3>1. History'[j].seq <= n
      BY <1>2
    <3>2. ~(History'[i].seq = n)
      BY <1>2, <1>4, <3>1
    <3> QED BY <1>2, <3>2
  <2>2. CASE j \in DOMAIN History /\ History'[j] = History[j]
    <3>1. \E c \in seen : feed[c].in /\ History[i].seq <= c /\ c < History[j].seq
      BY <1>4, <2>1, <2>2 DEF OneAdPerBreak
    <3> QED BY <1>2, <2>1, <2>2, <3>1
  <2>3. CASE \E k \in 1 .. Len(added) : History'[j] = added[k] /\ added[k].seq = n
    <3>1. ~OnAd
      BY <1>1, <1>4, <2>3, AdsAdded
    <3>2. PICK c \in seen : EndedAt(c, i)
      BY <1>4, <2>1, <3>1 DEF SpliceInv
    <3> QED BY <1>2, <2>1, <2>3, <3>2 DEF EndedAt
  <2> QED BY <1>2, <2>2, <2>3
<1> QED BY <1>3, <1>4 DEF OneAdPerBreak

(* Ads only ever play inside a break that the upstream signalled, and a      *)
(* break gets one at most: with adSpliced, endBreak and the reset of the     *)
(* break state, however late or often resolveAd delivers.                   *)
THEOREM OneAdEach == Spec => []OneAdPerBreak
<1>1. Init => OneAdPerBreak
  <2> SUFFICES ASSUME Init PROVE OneAdPerBreak
    OBVIOUS
  <2>1. History = <<>>
    BY EmptySeq, ConcatEmptySeq DEF Init, History
  <2>2. DOMAIN History = {}
    BY <2>1
  <2> QED BY <2>2 DEF OneAdPerBreak
<1>2. TypeOK /\ IInv /\ OneAdPerBreak /\ [Next]_vars => OneAdPerBreak'
  <2> SUFFICES ASSUME TypeOK, IInv, OneAdPerBreak, [Next]_vars PROVE OneAdPerBreak'
    OBVIOUS
  <2>1. CASE \E n \in 1 .. MaxFeed : ProcessSegment(n)
    BY <2>1, AdsApart
  <2>2. CASE \A n \in 1 .. MaxFeed : ~ProcessSegment(n)
    <3>1. /\ History' = History /\ seen' = seen
          /\ \A m \in seen : feed'[m] = feed[m]
      BY <2>2, QuietStep DEF TypeOK
    <3> QED BY <3>1 DEF OneAdPerBreak, InBreak
  <2> QED BY <2>1, <2>2
<1> QED BY <1>1, <1>2, TypeCorrect, Inductive, PTL DEF Spec

----------------------------------------------------------------------------
(* Two content entries for one segment are added only by a break that fails *)
(* open at its CUE-IN.                                                      *)
LEMMA AddedContent ==
  ASSUME NEW n, NEW added \in Seq(Entry), AddedBy(added, n),
         NEW k \in 1 .. Len(added), NEW l \in 1 .. Len(added), k < l,
         ~added[k].ad, ~added[l].ad
  PROVE  feed[n].in
<1>1. Len(added) \in Nat
  OBVIOUS
<1>2. CASE Plain(added, n) \/ Resumes(added, n) \/ Nothing(added)
  BY <1>1, <1>2 DEF Plain, Resumes, Nothing
<1>3. CASE FlightThenContent(added, n)
  BY <1>1, <1>3 DEF FlightThenContent, Flight
<1>4. CASE Flight(added, n, Len(added))
  BY <1>1, <1>4 DEF Flight
<1>5. CASE Twice(added, n) /\ feed[n].in
  BY <1>1, <1>5 DEF Twice
<1> QED BY <1>2, <1>3, <1>4, <1>5 DEF AddedBy

LEMMA OrderKept ==
  ASSUME TypeOK, IInv, PlaybackOrder, NEW n \in 1 .. MaxFeed, ProcessSegment(n)
  PROVE  PlaybackOrder'
<1> SeenInv /\ BreakInv
  BY DEF IInv
<1> USE DEF Extended, Lengthened
<1>1. PICK added \in Seq(Entry) : AddedBy(added, n) /\ Extended(n, added)
  BY Advances
<1>2. feed' = feed
  BY <1>1
<1>3. ASSUME NEW i \in DOMAIN History', NEW j \in DOMAIN History', i < j
      PROVE  /\ History'[i].seq <= History'[j].seq
             /\ ~History'[i].ad /\ ~History'[j].ad /\ History'[i].seq = History'[j].seq =>
                  feed[History'[i].seq].in
  <2>1. CASE j \in 1 .. Len(History)
    <3>1. i \in 1 .. Len(History)
      BY <1>1, <1>3, <2>1
    <3>2. /\ i \in DOMAIN History /\ History'[i] = History[i]
          /\ j \in DOMAIN History /\ History'[j] = History[j]
      BY <1>1, <2>1, <3>1
    <3> QED BY <1>3, <3>2 DEF PlaybackOrder
  <2>2. CASE j \notin 1 .. Len(History)
    <3>1. PICK l \in 1 .. Len(added) : j = Len(History) + l /\ History'[j] = added[l]
      BY <1>1, <2>2
    <3>2. History'[j].seq = n /\ n \in Nat
      BY <1>1, <3>1
    <3>3. CASE i \in 1 .. Len(History)
      <4>1. History'[i] = History[i] /\ History[i].seq \in seen
        BY <1>1, <3>3
      <4>2. History'[i].seq \in Nat /\ History'[i].seq < n
        BY <1>1, <4>1
      <4> QED BY <3>2, <4>2
    <3>4. CASE i \notin 1 .. Len(History)
      <4>1. PICK k \in 1 .. Len(added) : i = Len(History) + k /\ History'[i] = added[k]
        BY <1>1, <3>4
      <4>2. k < l /\ History'[i].seq = n
        BY <1>1, <1>3, <3>1, <4>1
      <4>3. ~added[k].ad /\ ~added[l].ad => feed[n].in
        BY <1>1, <4>2, AddedContent
      <4> QED BY <3>1, <3>2, <4>1, <4>2, <4>3
    <3> QED BY <3>3, <3>4
  <2> QED BY <2>1, <2>2
<1> QED BY <1>2, <1>3 DEF PlaybackOrder

(* Viewers get the channel in upstream order, and no segment that carries no *)
(* CUE-IN twice.  (A CUE-IN segment of a break that failed open they do get  *)
(* twice, as the run of FailOpenIsUnchanged shows.)                          *)
THEOREM PlayedInOrder == Spec => []PlaybackOrder
<1>1. Init => PlaybackOrder
  <2> SUFFICES ASSUME Init PROVE PlaybackOrder
    OBVIOUS
  <2>1. History = <<>>
    BY EmptySeq, ConcatEmptySeq DEF Init, History
  <2>2. DOMAIN History = {}
    BY <2>1
  <2> QED BY <2>2 DEF PlaybackOrder
<1>2. TypeOK /\ IInv /\ PlaybackOrder /\ [Next]_vars => PlaybackOrder'
  <2> SUFFICES ASSUME TypeOK, IInv, PlaybackOrder, [Next]_vars PROVE PlaybackOrder'
    OBVIOUS
  <2>1. CASE \E n \in 1 .. MaxFeed : ProcessSegment(n)
    BY <2>1, OrderKept
  <2>2. CASE \A n \in 1 .. MaxFeed : ~ProcessSegment(n)
    <3>1. History' = History /\ \A m \in seen : feed'[m] = feed[m]
      BY <2>2, QuietStep DEF TypeOK
    <3>2. \A i \in DOMAIN History : feed'[History[i].seq] = feed[History[i].seq]
      BY <3>1 DEF IInv, SeenInv
    <3> QED BY <3>1, <3>2 DEF PlaybackOrder
  <2> QED BY <2>1, <2>2
<1> QED BY <1>1, <1>2, TypeCorrect, Inductive, PTL DEF Spec

----------------------------------------------------------------------------
(* Within what a segment adds, the bitstream changes only where the content *)
(* resumes after a flight, and there the entry is marked.                   *)
LEMMA AddedSwitch ==
  ASSUME NEW n, NEW added \in Seq(Entry), AddedBy(added, n),
         NEW k \in 1 .. Len(added), k > 1, added[k].ad # added[k - 1].ad
  PROVE  added[k].disc
<1>1. Len(added) \in Nat /\ k - 1 \in 1 .. Len(added) /\ added[k] \in Entry /\ added[k - 1] \in Entry
  OBVIOUS
<1>2. added[k].ad \in BOOLEAN /\ added[k - 1].ad \in BOOLEAN
  BY <1>1 DEF Entry
<1>3. CASE Plain(added, n) \/ Resumes(added, n) \/ Nothing(added)
  BY <1>1, <1>3 DEF Plain, Resumes, Nothing
<1>4. CASE Twice(added, n)
  <2>1. k = 2 /\ k - 1 = 1
    BY <1>1, <1>4 DEF Twice
  <2> QED BY <1>2, <1>4, <2>1 DEF Twice, Content
<1>5. CASE Flight(added, n, Len(added))
  BY <1>1, <1>2, <1>5 DEF Flight
<1>6. CASE FlightThenContent(added, n)
  <2>1. CASE k = Len(added)
    BY <1>6, <2>1 DEF FlightThenContent
  <2>2. CASE k # Len(added)
    <3>1. k \in 1 .. Len(added) - 1 /\ k - 1 \in 1 .. Len(added) - 1
      BY <1>1, <2>2
    <3> QED BY <1>2, <1>6, <3>1 DEF FlightThenContent, Flight
  <2> QED BY <2>1, <2>2
<1> QED BY <1>3, <1>4, <1>5, <1>6 DEF AddedBy

(* The first entry that a segment adds is marked if the channel changes from *)
(* ad to content or back with it.                                           *)
LEMMA FirstSwitch ==
  ASSUME NEW n, NEW added \in Seq(Entry), AddedBy(added, n), Len(added) > 0,
         ~(added[1].ad <=> OnAd)
  PROVE  added[1].disc
<1>1. CASE StartBreak(n) \/ FailOpen(n) \/ PassThrough(n)
  <2>1. ~OnAd
    BY <1>1 DEF StartBreak, FailOpen, PassThrough, OnAd
  <2>2. Plain(added, n) \/ Twice(added, n)
    BY <1>1 DEF AddedBy, StartBreak, FailOpen, SpliceAd, Suppress, PassThrough
  <2> QED BY <2>1, <2>2 DEF Plain, Twice, Content
<1>2. CASE SpliceAd(n)
  <2>1. FlightThenContent(added, n) \/ Flight(added, n, Len(added))
    BY <1>2 DEF AddedBy, StartBreak, FailOpen, SpliceAd, Suppress, PassThrough
  <2> QED BY <2>1 DEF FlightThenContent, Flight
<1>3. CASE Suppress(n)
  <2>1. Resumes(added, n) \/ Nothing(added)
    BY <1>3 DEF AddedBy, StartBreak, FailOpen, SpliceAd, Suppress, PassThrough
  <2> QED BY <2>1 DEF Resumes, Nothing
<1> QED BY <1>1, <1>2, <1>3 DEF AddedBy

LEMMA SwitchesKept ==
  ASSUME TypeOK, IInv, DiscontinuityAtSwitch, NEW n \in 1 .. MaxFeed, ProcessSegment(n)
  PROVE  DiscontinuityAtSwitch'
<1> SeenInv /\ BreakInv /\ SpliceInv
  BY DEF IInv
<1> USE DEF Extended, Lengthened
<1>1. PICK added \in Seq(Entry) : AddedBy(added, n) /\ Extended(n, added)
  BY Advances
<1>2. ASSUME NEW i \in DOMAIN History', i > 1, History'[i].ad # History'[i - 1].ad
      PROVE  History'[i].disc
  <2>1. i \in Nat /\ i - 1 \in DOMAIN History'
    BY <1>1, <1>2
  <2>2. CASE i \in 1 .. Len(History)
    <3>1. i \in DOMAIN History /\ i - 1 \in 1 .. Len(History)
      BY <1>1, <1>2, <2>2
    <3>2. History'[i] = History[i] /\ History'[i - 1] = History[i - 1]
      BY <1>1, <2>2, <3>1
    <3> QED BY <1>2, <3>1, <3>2 DEF DiscontinuityAtSwitch
  <2>3. CASE i \notin 1 .. Len(History)
    <3>1. PICK k \in 1 .. Len(added) : i = Len(History) + k /\ History'[i] = added[k]
      BY <1>1, <2>3
    <3>2. CASE k = 1
      <4>1. i - 1 = Len(History) /\ Len(History) \in 1 .. Len(History)
        BY <1>1, <1>2, <3>1, <3>2
      <4>2. History # <<>> /\ History'[i - 1] = History[Len(History)]
        BY <1>1, <4>1, EmptySeq
      <4>3. History[Len(History)].ad <=> OnAd
        BY <4>2 DEF SpliceInv
      <4>4. added[1].ad \in BOOLEAN /\ History[Len(History)].ad \in BOOLEAN
        <5>1. added[k] \in Entry /\ History[Len(History)] \in Entry
          BY <1>1, <4>1
        <5> QED BY <3>2, <5>1 DEF Entry
      <4>5. ~(added[1].ad <=> OnAd)
        BY <1>2, <3>1, <3>2, <4>2, <4>3, <4>4
      <4>6. added[1].disc
        BY <1>1, <3>2, <4>5, FirstSwitch
      <4> QED BY <3>1, <3>2, <4>6
    <3>3. CASE k # 1
      <4>1. k - 1 \in 1 .. Len(added) /\ i - 1 = Len(History) + (k - 1) /\ k > 1
        BY <1>1, <3>1, <3>3
      <4>2. History'[i - 1] = added[k - 1]
        BY <1>1, <4>1
      <4> QED BY <1>1, <1>2, <3>1, <4>1, <4>2, AddedSwitch
    <3> QED BY <3>2, <3>3
  <2> QED BY <2>2, <2>3
<1> QED BY <1>2 DEF DiscontinuityAtSwitch

(* A player meets a discontinuity tag exactly where it needs one: on the     *)
(* first segment of every ad and on the first one of the content after it   *)
(* (spliceAd, and endBreak's markDiscontinuity).                            *)
THEOREM SwitchesMarked == Spec => []DiscontinuityAtSwitch
<1>1. Init => DiscontinuityAtSwitch
  <2> SUFFICES ASSUME Init PROVE DiscontinuityAtSwitch
    OBVIOUS
  <2>1. History = <<>>
    BY EmptySeq, ConcatEmptySeq DEF Init, History
  <2>2. DOMAIN History = {}
    BY <2>1
  <2> QED BY <2>2 DEF DiscontinuityAtSwitch
<1>2. TypeOK /\ IInv /\ DiscontinuityAtSwitch /\ [Next]_vars => DiscontinuityAtSwitch'
  <2> SUFFICES ASSUME TypeOK, IInv, DiscontinuityAtSwitch, [Next]_vars
               PROVE  DiscontinuityAtSwitch'
    OBVIOUS
  <2>1. CASE \E n \in 1 .. MaxFeed : ProcessSegment(n)
    BY <2>1, SwitchesKept
  <2>2. CASE \A n \in 1 .. MaxFeed : ~ProcessSegment(n)
    BY <2>2, QuietStep DEF DiscontinuityAtSwitch
  <2> QED BY <2>1, <2>2
<1> QED BY <1>1, <1>2, TypeCorrect, Inductive, PTL DEF Spec

----------------------------------------------------------------------------
(* An ad that resolveAd delivered in time is never wasted: when the break it *)
(* was accepted for is closed, the ad is in the channel (the poller decides *)
(* fail open, splice and suppress in one critical section per segment).     *)
THEOREM AcceptedIsPlayed == Spec => AcceptedAdIsPlayed
<1> DEFINE Plays == br.adReady /\ br'.start # br.start =>
                      \E i \in DOMAIN History' : History'[i].ad /\ History'[i].seq > br.start
<1>1. ASSUME TypeOK, IInv, NEW n \in 1 .. MaxFeed, ProcessSegment(n), br.adReady,
             br'.start # br.start
      PROVE  \E i \in DOMAIN History' : History'[i].ad /\ History'[i].seq > br.start
  <2> SeenInv /\ BreakInv /\ SpliceInv
    BY <1>1 DEF IInv
  <2>1. PICK added \in Seq(Entry) : AddedBy(added, n) /\ Extended(n, added)
    BY <1>1, Advances
  <2>2. br.active /\ br.start \in seen /\ br.start < n
    BY <1>1, <2>1 DEF BreakInv, NoBreak, Extended
  <2>3. CASE SpliceAd(n)
    <3>1. FlightThenContent(added, n) \/ Flight(added, n, Len(added))
      BY <2>1, <2>3 DEF AddedBy, StartBreak, FailOpen, SpliceAd, Suppress, PassThrough
    <3>2. 1 \in 1 .. Len(added) /\ added[1].ad
      BY <2>1, <3>1 DEF FlightThenContent, Flight, Extended, Lengthened
    <3>3. /\ Len(History) + 1 \in DOMAIN History'
          /\ History'[Len(History) + 1].ad /\ History'[Len(History) + 1].seq = n
      BY <2>1, <3>2 DEF Extended, Lengthened
    <3>4. n \in Nat /\ br.start \in Nat
      BY <2>1, <2>2 DEF Extended
    <3> QED BY <2>2, <3>3, <3>4
  <2>4. CASE Suppress(n)
    <3>1. PICK i \in DOMAIN History : History[i].ad /\ History[i].seq > br.start
      BY <2>4 DEF Suppress, SpliceInv, OnAd
    <3>2. i \in DOMAIN History' /\ History'[i] = History[i]
      BY <2>1 DEF Extended, Lengthened
    <3> QED BY <3>1, <3>2
  <2>5. ~FailOpen(n) /\ ~StartBreak(n) /\ ~PassThrough(n)
    BY <1>1, <2>2 DEF FailOpen, StartBreak, PassThrough
  <2> QED BY <1>1, <2>3, <2>4, <2>5 DEF ProcessSegment
<1>2. TypeOK /\ IInv /\ [Next]_vars => [Plays]_vars
  <2> SUFFICES ASSUME TypeOK, IInv, [Next]_vars PROVE Plays
    OBVIOUS
  <2>1. CASE \E n \in 1 .. MaxFeed : ProcessSegment(n)
    BY <1>1, <2>1
  <2>2. CASE \A n \in 1 .. MaxFeed : ~ProcessSegment(n)
    BY <2>2, QuietBreak DEF IInv
  <2> QED BY <2>1, <2>2
<1>3. Spec => [][Plays]_vars
  BY <1>2, TypeCorrect, Inductive, PTL DEF Spec
<1> QED BY <1>3 DEF AcceptedAdIsPlayed

----------------------------------------------------------------------------
(* A window with a segment has a longest one.                               *)
LEMMA HasLongest ==
  ASSUME NEW window \in Seq(Entry), window # <<>>
  PROVE  \E m \in DOMAIN window : \A j \in DOMAIN window : window[j].dur <= window[m].dur
<1>1. Len(window) \in Nat \ {0} /\ DOMAIN window = 1 .. Len(window)
  BY EmptySeq
<1>2. \A j \in DOMAIN window : window[j].dur \in Nat
  <2>1. \A j \in DOMAIN window : window[j] \in Entry
    BY <1>1
  <2> QED BY <2>1 DEF Entry
<1> DEFINE Beats(m, k) == \A j \in DOMAIN window : j <= k => window[j].dur <= window[m].dur
           T == {k \in Nat : k >= 1 /\ k <= Len(window) => \E m \in DOMAIN window : Beats(m, k)}
<1>3. 0 \in T
  OBVIOUS
<1>4. ASSUME NEW k \in T
      PROVE  k + 1 \in T
  <2> SUFFICES ASSUME k + 1 <= Len(window)
               PROVE  \E m \in DOMAIN window : Beats(m, k + 1)
    OBVIOUS
  <2>1. k \in Nat /\ k + 1 \in DOMAIN window
    BY <1>1
  <2>2. CASE k = 0
    <3>1. \A j \in DOMAIN window : j <= k + 1 => j = k + 1
      BY <1>1, <2>2
    <3>2. window[k + 1].dur \in Nat
      BY <1>2, <2>1
    <3>3. Beats(k + 1, k + 1)
      BY <3>1, <3>2
    <3> QED BY <2>1, <3>3
  <2>3. CASE k # 0
    <3>1. PICK m \in DOMAIN window : Beats(m, k)
      BY <1>1, <2>1, <2>3
    <3>2. \A j \in DOMAIN window : j <= k + 1 => j <= k \/ j = k + 1
      BY <1>1, <2>1
    <3>3. CASE window[k + 1].dur <= window[m].dur
      <4>1. Beats(m, k + 1)
        BY <3>1, <3>2, <3>3
      <4> QED BY <4>1
    <3>4. CASE ~(window[k + 1].dur <= window[m].dur)
      <4>1. window[m].dur <= window[k + 1].dur /\ window[k + 1].dur <= window[k + 1].dur
        BY <1>2, <2>1, <3>4
      <4>2. Beats(k + 1, k + 1)
        BY <1>2, <2>1, <3>1, <3>2, <4>1
      <4> QED BY <2>1, <4>2
    <3> QED BY <3>3, <3>4
  <2> QED BY <2>2, <2>3
<1>5. T = Nat
  <2> HIDE DEF T
  <2>1. T \in SUBSET Nat
    BY DEF T
  <2> QED BY <1>3, <1>4, <2>1, SetInduction
<1>6. Len(window) \in T
  BY <1>1, <1>5
<1>7. PICK m \in DOMAIN window : Beats(m, Len(window))
  BY <1>1, <1>6
<1> QED BY <1>1, <1>7

LEMMA CeilCovers ==
  ASSUME NEW d \in Nat
  PROVE  CeilSeconds(d) \in Nat /\ d <= CeilSeconds(d) * Ticks
<1>1. Ticks \in Nat /\ Ticks > 0
  BY WatcherAssumption DEF WatcherAssumption
<1> DEFINE a == d + Ticks - 1
<1>2. a \in Nat
  BY <1>1
<1>3. a = (a \div Ticks) * Ticks + (a % Ticks) /\ a % Ticks < Ticks
  BY <1>1, <1>2
<1>4. a % Ticks \in Nat /\ a \div Ticks \in Nat
  BY <1>1, <1>2
<1>5. (a \div Ticks) * Ticks \in Nat
  BY <1>1, <1>4
<1>6. d <= (a \div Ticks) * Ticks
  BY <1>1, <1>3, <1>4, <1>5
<1> QED BY <1>6, <1>4 DEF CeilSeconds

(* The manifest that the end of a poll publishes is covered.                *)
LEMMA UnlockCovers ==
  ASSUME TypeOK, Unlock
  PROVE  TargetDurationCovers'
<1>1. segments' \in Seq(Entry) /\ UpdateTargetDuration(segments')
  BY UnlockType DEF Unlock
<1>2. published'.segments = segments' /\ published'.targetDuration = targetDuration'
  BY DEF Unlock
<1>3. \A i \in DOMAIN segments' : segments'[i].dur \in Nat
  <2>1. \A i \in DOMAIN segments' : segments'[i] \in Entry
    BY <1>1
  <2> QED BY <2>1 DEF Entry
<1>4. Ticks \in Nat /\ targetDuration' \in Nat /\ targetDuration' * Ticks \in Nat
  BY UnlockType, WatcherAssumption DEF WatcherAssumption
<1>5. ASSUME NEW j \in DOMAIN segments'
      PROVE  segments'[j].dur <= targetDuration' * Ticks
  <2>1. CASE Longest(segments') = {}
    <3>1. segments' # <<>>
      BY <1>5
    <3>2. PICK m \in DOMAIN segments' : \A k \in DOMAIN segments' : segments'[k].dur <= segments'[m].dur
      BY <1>1, <3>1, HasLongest
    <3>3. ~(segments'[m].dur > 0)
      BY <2>1, <3>2 DEF Longest
    <3>4. segments'[j].dur = 0
      BY <1>3, <3>2, <3>3
    <3> QED BY <1>4, <3>4
  <2>2. CASE Longest(segments') # {}
    <3>1. PICK i \in Longest(segments') : targetDuration' = CeilSeconds(segments'[i].dur)
      BY <1>1, <2>2 DEF UpdateTargetDuration
    <3>2. i \in DOMAIN segments' /\ segments'[j].dur <= segments'[i].dur
      BY DEF Longest
    <3>3. segments'[i].dur <= targetDuration' * Ticks
      BY <1>3, <3>1, <3>2, CeilCovers
    <3> QED BY <1>3, <1>4, <3>2, <3>3
  <2> QED BY <2>1, <2>2
<1> QED BY <1>2, <1>5, <1>4 DEF TargetDurationCovers

(* Every manifest served declares a target duration that no segment of it    *)
(* exceeds (updateTargetDuration, RFC 8216 4.4.3.1).                        *)
THEOREM TargetCovers == Spec => []TargetDurationCovers
<1>1. Init => TargetDurationCovers
  BY DEF Init, TargetDurationCovers
<1>2. TypeOK /\ TargetDurationCovers /\ [Next]_vars => TargetDurationCovers'
  <2> SUFFICES ASSUME TypeOK, TargetDurationCovers, [Next]_vars, ~Unlock
               PROVE  TargetDurationCovers'
    BY UnlockCovers
  <2>1. /\ published'.segments = published.segments
        /\ published'.targetDuration = published.targetDuration
    <3>1. CASE Join
      <4>1. published' = [published EXCEPT !.mediaSequence = mediaSequence']
        BY <3>1 DEF Join
      <4> QED BY <4>1 DEF TypeOK
    <3>2. CASE ~Join
      <4>1. CASE ResolveAd
        BY <4>1 DEF ResolveAd, Encode, GiveUp, Deliver
      <4>2. ASSUME NEW n \in 1 .. MaxFeed, ProcessSegment(n)
            PROVE  published' = published
        BY <4>2, ProcessType DEF Processing
      <4> QED BY <3>2, <4>1, <4>2 DEF Next, Poll, Publish, Fetch, Lock, Stop, Close, vars
    <3> QED BY <3>1, <3>2
  <2> QED BY <2>1 DEF TargetDurationCovers
<1> QED BY <1>1, <1>2, TypeCorrect, PTL DEF Spec
=============================================================================
