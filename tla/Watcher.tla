------------------------------ MODULE Watcher ------------------------------
(***************************************************************************)
(* internal/live: the Watcher of one live channel.  A background goroutine  *)
(* polls an upstream HLS media playlist (the feed), walks its new segments  *)
(* through the ad-break state machine, and maintains the output window that *)
(* every viewer of the channel is served.  Each break starts a goroutine of *)
(* its own (resolveAd) that fetches, downloads and encodes an ad and, if    *)
(* its generation number still matches, hands it to the poller.             *)
(*                                                                          *)
(* w.mu is held by the poller from Lock to Unlock (pc = "locked"); every    *)
(* other critical section of the code is a single action here.              *)
(***************************************************************************)
EXTENDS Integers, Sequences

CONSTANTS
  WindowSize,      \* Config.WindowSize, after setDefaults
  Segments,        \* upstream segments, [out, in : BOOLEAN, dur : Nat]
  Flights,         \* segment durations of the ads that resolveAd can deliver
  OriginWindow,    \* how many segments the upstream playlist lists
  MaxFeed,         \* bound: segments the upstream ever publishes
  Ticks,           \* duration units in one second
  DefaultTarget    \* New's placeholder #EXT-X-TARGETDURATION

ASSUME WatcherAssumption ==
  /\ WindowSize \in Nat \ {0}
  /\ Segments \subseteq [out : BOOLEAN, in : BOOLEAN, dur : Nat]
  /\ Flights \subseteq Seq(Nat) \ {<<>>}
  /\ OriginWindow \in Nat \ {0}
  /\ MaxFeed \in Nat
  /\ Ticks \in Nat \ {0}
  /\ DefaultTarget \in Nat

VARIABLES
  \* The upstream packager: every segment it has published (segment n has
  \* media sequence number n), and the first one its playlist still lists.
  feed, feedFirst,
  \* The poller goroutine: its program counter and the playlist it parsed.
  pc, upstream,
  \* Fields of Watcher guarded by w.mu.
  haveInitialSeq, nextSeq, mediaSequence, segments, targetDuration, br,
  \* resolveAd goroutines in flight, and the ad files under WorkDir.
  resolving,
  \* w.done is closed.
  done,
  \* History: what CurrentManifest returns, the segments trimmed from the
  \* window, and the upstream segments that went through processSegment.
  published, dropped, seen

(* A definition named X_Y is a mutant of X: X with a plausible bug in it,    *)
(* used only to show that the properties would notice.                      *)

upstreamVars == <<feed, feedFirst>>
outputVars   == <<mediaSequence, segments, targetDuration>>
vars == <<feed, feedFirst, pc, upstream, haveInitialSeq, nextSeq, mediaSequence,
          segments, targetDuration, br, resolving, done, published,
          dropped, seen>>

----------------------------------------------------------------------------
(* Segments of the output window.  seq is the upstream segment forwarded,   *)
(* or the one in whose place the poller spliced the ad; brk names, for an   *)
(* ad, the break it was resolved for (by the sequence number of its         *)
(* CUE-OUT).                                                                *)

Entry == [ad : BOOLEAN, seq : Nat, brk : Nat, dur : Nat, disc : BOOLEAN]

Original(n, disc) ==
  [ad |-> FALSE, seq |-> n, brk |-> 0, dur |-> feed[n].dur, disc |-> disc]

AdEntries(flight, brk) ==
  [i \in DOMAIN flight |->
     [ad |-> TRUE, seq |-> 0, brk |-> brk, dur |-> flight[i], disc |-> FALSE]]

(* breakState; start is history: the CUE-OUT segment that opened the break. *)
NoBreak == [active |-> FALSE, gen |-> 0, adReady |-> FALSE, adSpliced |-> FALSE,
            adSegments |-> <<>>, start |-> 0]

BreakState == [active : BOOLEAN, gen : Nat, adReady : BOOLEAN, adSpliced : BOOLEAN,
               adSegments : Seq(Entry), start : Nat]

(* A resolveAd goroutine: the break and generation it was started with, and *)
(* how far it is.                                                           *)
Task == [start : Nat, gen : Nat, phase : {"request", "encoded"}, flight : Flights \cup {<<>>}]

Playlist == [first : Nat, last : Nat]

Init ==
  /\ feed = <<>> /\ feedFirst = 1
  /\ pc = "idle" /\ upstream = [first |-> 1, last |-> 0]
  /\ haveInitialSeq = FALSE /\ nextSeq = 0
  /\ mediaSequence = 0 /\ segments = <<>> /\ targetDuration = DefaultTarget
  /\ br = NoBreak
  /\ resolving = {}
  /\ done = FALSE
  /\ published = [mediaSequence |-> 0, segments |-> <<>>, targetDuration |-> DefaultTarget]
  /\ dropped = <<>> /\ seen = {}

----------------------------------------------------------------------------
(* The upstream packager appends a segment and, once its playlist is full,  *)
(* slides it by one.                                                        *)
Publish ==
  /\ Len(feed) < MaxFeed
  /\ \E s \in Segments : feed' = Append(feed, s)
  /\ feedFirst' = IF Len(feed) + 1 - feedFirst < OriginWindow
                    THEN feedFirst ELSE feedFirst + 1
  /\ UNCHANGED <<pc, upstream, haveInitialSeq, nextSeq, outputVars, br, resolving,
                 done, published, dropped, seen>>

----------------------------------------------------------------------------
(* The playlist as manifest.Parse returns it: MediaSequence and segments.   *)
FetchedPlaylist == [first |-> feedFirst, last |-> Len(feed)]

(* The poller.  A fetch or parse error returns before any state changes: a  *)
(* stuttering step.                                                         *)
Fetch ==
  /\ pc = "idle"
  /\ upstream' = FetchedPlaylist
  /\ pc' = "parsed"
  /\ UNCHANGED <<upstreamVars, haveInitialSeq, nextSeq, outputVars, br, resolving,
                 done, published, dropped, seen>>

(* First successful poll: join at the live edge, output nothing.            *)
Join ==
  /\ pc = "parsed" /\ ~haveInitialSeq
  /\ nextSeq' = upstream.last + 1
  /\ haveInitialSeq' = TRUE
  /\ mediaSequence' = nextSeq'
  /\ published' = [published EXCEPT !.mediaSequence = mediaSequence']
  /\ pc' = "idle"
  /\ UNCHANGED <<upstreamVars, upstream, segments, targetDuration, br, resolving,
                 done, dropped, seen>>

Lock_AwaitsAd ==
  /\ pc = "parsed" /\ haveInitialSeq /\ (br.active => br.adReady)
  /\ pc' = "locked"
  /\ UNCHANGED <<upstreamVars, upstream, haveInitialSeq, nextSeq, outputVars, br,
                 resolving, done, published, dropped, seen>>

Lock ==
  /\ pc = "parsed" /\ haveInitialSeq
  /\ pc' = "locked"
  /\ UNCHANGED <<upstreamVars, upstream, haveInitialSeq, nextSeq, outputVars, br,
                 resolving, done, published, dropped, seen>>

(* The first segment of the parsed playlist not yet processed: the loop of  *)
(* poll skips those below nextSeq.                                          *)
Cursor_NoSkip == upstream.first
Cursor == IF upstream.first < nextSeq THEN nextSeq ELSE upstream.first

(* What processSegment has in common over its four cases: n is the segment  *)
(* under the cursor, added what it appends to the window, and the loop      *)
(* advances past n.                                                         *)
Processing(n, added) ==
  /\ pc = "locked" /\ n = Cursor /\ n <= upstream.last
  /\ nextSeq' = n + 1
  /\ segments' = segments \o added
  /\ seen' = seen \cup {n}
  /\ UNCHANGED <<upstreamVars, pc, upstream, haveInitialSeq, mediaSequence,
                 targetDuration, done, published, dropped>>

(* What is left of the break once segment n was processed: endBreak, on a   *)
(* CUE-IN, clears the whole break state, the generation counter included.   *)
AfterSegment(n, state) == IF feed[n].in THEN NoBreak ELSE state

StartBreak(n) ==
  /\ Processing(n, <<Original(n, FALSE)>>)
  /\ feed[n].out /\ ~br.active
  /\ br' = [NoBreak EXCEPT !.active = TRUE, !.gen = br.gen + 1, !.start = n]
  /\ resolving' = resolving \cup
       {[start |-> n, gen |-> br.gen + 1, phase |-> "request", flight |-> <<>>]}

(* An unspliced break whose ad is not ready: fail open.  The case appends   *)
(* the segment and, when it is a CUE-IN, calls endBreak, which appends the  *)
(* segment the channel resumes at, the same one.                            *)
FailOpen_IgnoresReadyAd(n) ==
  /\ Processing(n, <<Original(n, FALSE)>>)
  /\ br.active /\ ~br.adSpliced
  /\ br' = AfterSegment(n, br)
  /\ UNCHANGED resolving

FailOpen(n) ==
  /\ Processing(n, IF feed[n].in THEN <<Original(n, FALSE), Original(n, FALSE)>>
                                 ELSE <<Original(n, FALSE)>>)
  /\ br.active /\ ~br.adSpliced /\ ~br.adReady
  /\ br' = AfterSegment(n, br)
  /\ UNCHANGED resolving

(* What endBreak resumes with after an ad.                                  *)
Resume(n) == IF feed[n].in THEN <<Original(n, TRUE)>> ELSE <<>>

(* spliceAd: the whole flight at once, a discontinuity on its first segment. *)
SplicedAd_Unmarked(n) ==
  [i \in DOMAIN br.adSegments |-> [br.adSegments[i] EXCEPT !.seq = n]]

SplicedAd(n) ==
  [i \in DOMAIN br.adSegments |->
     [br.adSegments[i] EXCEPT !.seq = n, !.disc = (i = 1)]]

SpliceAd_NotRecorded(n) ==
  /\ Processing(n, SplicedAd(n) \o Resume(n))
  /\ br.active /\ ~br.adSpliced /\ br.adReady
  /\ br' = AfterSegment(n, br)
  /\ UNCHANGED resolving

SpliceAd(n) ==
  /\ Processing(n, SplicedAd(n) \o Resume(n))
  /\ br.active /\ ~br.adSpliced /\ br.adReady
  /\ br' = AfterSegment(n, [br EXCEPT !.adSpliced = TRUE])
  /\ UNCHANGED resolving

(* After the ad was spliced, break content is suppressed until a CUE-IN.    *)
Suppress_DropsCueIn(n) ==
  /\ Processing(n, <<>>)
  /\ br.active /\ br.adSpliced
  /\ br' = AfterSegment(n, br)
  /\ UNCHANGED resolving

Suppress(n) ==
  /\ Processing(n, Resume(n))
  /\ br.active /\ br.adSpliced
  /\ br' = AfterSegment(n, br)
  /\ UNCHANGED resolving

PassThrough(n) ==
  /\ Processing(n, <<Original(n, FALSE)>>)
  /\ ~br.active /\ ~feed[n].out
  /\ UNCHANGED <<br, resolving>>

ProcessSegment(n) ==
  StartBreak(n) \/ FailOpen(n) \/ SpliceAd(n) \/ Suppress(n) \/ PassThrough(n)

(* trimWindow: at most one segment leaves the window per poll.              *)
TrimWindow_AllAtOnce ==
  LET excess == Len(segments) - WindowSize IN
  IF excess <= 0
    THEN UNCHANGED <<segments, mediaSequence, dropped>>
    ELSE /\ segments' = SubSeq(segments, excess + 1, Len(segments))
         /\ mediaSequence' = mediaSequence + excess
         /\ dropped' = dropped \o SubSeq(segments, 1, excess)

TrimWindow_OffByOne ==
  IF Len(segments) <= WindowSize + 1
    THEN UNCHANGED <<segments, mediaSequence, dropped>>
    ELSE /\ segments' = Tail(segments)
         /\ mediaSequence' = mediaSequence + 1
         /\ dropped' = Append(dropped, Head(segments))

TrimWindow ==
  IF Len(segments) <= WindowSize
    THEN UNCHANGED <<segments, mediaSequence, dropped>>
    ELSE /\ segments' = Tail(segments)
         /\ mediaSequence' = mediaSequence + 1
         /\ dropped' = Append(dropped, Head(segments))

(* updateTargetDuration: the longest listed duration, rounded up to whole   *)
(* seconds; an empty window leaves the previous value.                      *)
CeilSeconds_Floor(d) == d \div Ticks
CeilSeconds(d) == (d + Ticks - 1) \div Ticks

Longest(window) ==
  {i \in DOMAIN window :
     window[i].dur > 0 /\ \A j \in DOMAIN window : window[j].dur <= window[i].dur}

UpdateTargetDuration(window) ==
  \/ \E i \in Longest(window) : targetDuration' = CeilSeconds(window[i].dur)
  \/ Longest(window) = {} /\ targetDuration' = targetDuration

Unlock ==
  /\ pc = "locked" /\ Cursor > upstream.last
  /\ TrimWindow
  /\ UpdateTargetDuration(segments')
  /\ published' = [mediaSequence |-> mediaSequence', segments |-> segments',
                   targetDuration |-> targetDuration']
  /\ pc' = "idle"
  /\ UNCHANGED <<upstreamVars, upstream, haveInitialSeq, nextSeq, br, resolving,
                 done, seen>>

(* run returns once its select takes the closed done channel.               *)
Stop ==
  /\ pc = "idle" /\ done
  /\ pc' = "stopped"
  /\ UNCHANGED <<upstreamVars, upstream, haveInitialSeq, nextSeq, outputVars, br,
                 resolving, done, published, dropped, seen>>

Poll == Fetch \/ Join \/ Lock \/ (\E n \in 1 .. MaxFeed : ProcessSegment(n)) \/ Unlock

----------------------------------------------------------------------------
(* resolveAd.  Encode stands for VAST, the download, FFmpeg and the filler; *)
(* any of them may fail, and the goroutine may panic (safego recovers it),  *)
(* at any point before it takes w.mu.                                       *)
Encode(t) ==
  /\ t.phase = "request"
  /\ \E f \in Flights :
       resolving' = (resolving \ {t}) \cup {[t EXCEPT !.phase = "encoded", !.flight = f]}
  /\ UNCHANGED <<upstreamVars, pc, upstream, haveInitialSeq, nextSeq, outputVars, br,
                 done, published, dropped, seen>>

GiveUp(t) ==
  /\ resolving' = resolving \ {t}
  /\ UNCHANGED <<upstreamVars, pc, upstream, haveInitialSeq, nextSeq, outputVars, br,
                 done, published, dropped, seen>>

(* The staleness check compares generation numbers only.                    *)
StillCurrent(t) == br.gen = t.gen /\ br.active

Deliver(t) ==
  /\ t.phase = "encoded" /\ pc # "locked"
  /\ resolving' = resolving \ {t}
  /\ br' = IF StillCurrent(t)
             THEN [br EXCEPT !.adReady = TRUE,
                             !.adSegments = AdEntries(t.flight, t.start)]
             ELSE br
  /\ UNCHANGED <<upstreamVars, pc, upstream, haveInitialSeq, nextSeq, outputVars,
                 done, published, dropped, seen>>

ResolveAd == \E t \in resolving : Encode(t) \/ GiveUp(t) \/ Deliver(t)

Close ==
  /\ ~done /\ done' = TRUE
  /\ UNCHANGED <<upstreamVars, pc, upstream, haveInitialSeq, nextSeq, outputVars, br,
                 resolving, published, dropped, seen>>

----------------------------------------------------------------------------
Next == Publish \/ Poll \/ Stop \/ ResolveAd \/ Close

Spec == Init /\ [][Next]_vars

(* The ticker fires every PollInterval whatever else happens, so the poller *)
(* never stops taking steps before it is closed; and as a failed fetch is a *)
(* stuttering step, the upstream is assumed not to fail for ever.  Nothing  *)
(* is assumed of the packager or of the ad pipeline.                        *)
FairSpec == Spec /\ WF_vars(Poll)

----------------------------------------------------------------------------
(* Everything the channel ever listed, oldest first.                        *)
History == dropped \o segments

TypeOK ==
  /\ feed \in Seq(Segments) /\ feedFirst \in Nat \ {0}
  /\ pc \in {"idle", "parsed", "locked", "stopped"}
  /\ upstream \in Playlist /\ upstream.first > 0 /\ upstream.last <= Len(feed)
  /\ haveInitialSeq \in BOOLEAN /\ nextSeq \in Nat
  /\ mediaSequence \in Nat /\ segments \in Seq(Entry) /\ targetDuration \in Nat
  /\ br \in BreakState
  /\ \A t \in resolving : t \in Task
  /\ done \in BOOLEAN
  /\ published \in [mediaSequence : Nat, segments : Seq(Entry), targetDuration : Nat]
  /\ dropped \in Seq(Entry) /\ seen \subseteq 1 .. Len(feed)

(* Upstream segment n went out as original content.                         *)
Forwarded(n) == \E i \in DOMAIN History : ~History[i].ad /\ History[i].seq = n

(* A break was signalled before segment n and, of the segments the poller   *)
(* saw, none ended it before n.                                             *)
InBreak(n) ==
  \E o \in seen : /\ o < n /\ feed[o].out
                  /\ \A c \in seen : o < c /\ c < n => ~feed[c].in

(* Segment n went out, or an ad of the break that n is in plays in its      *)
(* place: one spliced at n or before it, with no CUE-IN since.              *)
Accounted(n) ==
  \/ Forwarded(n)
  \/ /\ InBreak(n) /\ ~feed[n].in
     /\ \E i \in DOMAIN History :
          /\ History[i].ad /\ History[i].seq <= n
          /\ \A c \in seen : History[i].seq <= c /\ c < n => ~feed[c].in

(* No upstream content is lost: a segment the poller processed is forwarded *)
(* unless an ad already plays in its place, and the CUE-IN segment always   *)
(* is (processSegment's fail-open design, endBreak).                        *)
OnlyReplacedByAd == \A n \in seen : Accounted(n)

(* An ad is only ever spliced inside a signalled break, and a break gets at *)
(* most one: between two flights of the history a CUE-IN was processed.     *)
OneAdPerBreak ==
  \A i \in DOMAIN History :
    History[i].ad =>
      /\ InBreak(History[i].seq)
      /\ \A j \in DOMAIN History :
           History[j].ad /\ History[i].seq < History[j].seq =>
             \E c \in seen : feed[c].in /\ History[i].seq <= c /\ c < History[j].seq

(* Viewers play the channel in upstream order, over overlapping polls, and  *)
(* no segment but a CUE-IN goes out twice.  (That a CUE-IN does not either  *)
(* is a promise the code breaks, see FailOpenIsUnchanged.)                  *)
PlaybackOrder ==
  \A i, j \in DOMAIN History :
    i < j =>
      /\ History[i].seq <= History[j].seq
      /\ ~History[i].ad /\ ~History[j].ad /\ History[i].seq = History[j].seq =>
           feed[History[i].seq].in

(* Players reset their decoder exactly where the bitstream changes: the     *)
(* first segment of an ad and the first one after it carry a discontinuity. *)
DiscontinuityAtSwitch ==
  \A i \in DOMAIN History :
    i > 1 /\ History[i].ad # History[i - 1].ad => History[i].disc

(* #EXT-X-TARGETDURATION of every manifest served is at least the duration  *)
(* of every segment it lists (updateTargetDuration, RFC 8216 4.4.3.1).      *)
TargetDurationCovers ==
  \A i \in DOMAIN published.segments :
    published.segments[i].dur <= published.targetDuration * Ticks

(* Between one manifest and the next MediaSequence advances by at most one, *)
(* never goes back, and a media sequence number keeps denoting the same     *)
(* segment (trimWindow).                                                    *)
StableNumbering ==
  [][haveInitialSeq =>
       LET gone == published'.mediaSequence - published.mediaSequence IN
       /\ gone \in {0, 1}
       /\ \A i \in DOMAIN published.segments : i > gone =>
            /\ i - gone \in DOMAIN published'.segments
            /\ published'.segments[i - gone] = published.segments[i]]_vars

(* An ad accepted for a break is never thrown away with it: the break ends  *)
(* only once the ad is in the window.                                       *)
AcceptedAdIsPlayed ==
  [][br.adReady /\ br'.start # br.start =>
       \E i \in DOMAIN History' : History'[i].ad /\ History'[i].seq > br.start]_vars

(* Every segment published after the watcher joined is processed or has     *)
(* been overtaken by a later one, whatever the ad pipeline does.            *)
SegmentsAreConsumed ==
  \A n \in 1 .. MaxFeed :
    haveInitialSeq /\ n <= Len(feed) ~> nextSeq > n \/ done

(* When the upstream falls silent, a window that an ad flight blew up       *)
(* settles back to WindowSize (trimWindow's comment).                       *)
WindowSettles ==
  Len(feed) = MaxFeed ~> Len(published.segments) <= WindowSize \/ done

----------------------------------------------------------------------------
(* Statements of the source that the code does not keep.                    *)

(* breakState's comment: a goroutine of an earlier break "can recognize     *)
(* it's stale and discard its result instead of splicing into the wrong     *)
(* break".                                                                  *)
AdPlayedInItsBreak ==
  \A i \in DOMAIN History :
    History[i].ad =>
      \A c \in seen : History[i].brk < c /\ c < History[i].seq => ~feed[c].in

(* ADR 0003: until the ad is ready "the watcher forwards the original       *)
(* upstream break content unchanged", so no upstream segment goes out twice.*)
FailOpenIsUnchanged ==
  \A i, j \in DOMAIN History :
    i < j /\ ~History[i].ad /\ ~History[j].ad => History[i].seq # History[j].seq
=============================================================================
