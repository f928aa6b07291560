# A TLA+ verification project for stitchpoint

stitchpoint is a server-side ad inserter for HLS and DASH.  It splices ads into live
playlists as they are polled, into VOD playlists per request, into uploaded videos through a
playground API, and into files from the command line, where it also decodes SCTE-35 cues.
This directory holds TLA+ models of its stateful components, of its splicing algorithms and of
its decoders, TLC configurations that check them on small instances, and theorems with
machine-checked proofs about them for every value of their parameters.

Paths are relative to the root of the repository's sources (`src/`).  In the modules, a
definition named `X_Y` is a mutant of `X`: `X` with a plausible bug in it.  Mutants are
used by no specification; they show that a property would notice the bug.

## 1. Inventory

### Live watcher - `internal/live/live.go`

* **State.** Guarded by `w.mu`: the output window (`segments`, `mediaSequence`,
  `targetDuration`), the input cursor (`nextSeq`, `haveInitialSeq`), and one `breakState`
  (generation, active, ad ready, ad segments, ad spliced).  Outside it: the `done` channel
  and the ad files under `WorkDir`.
* **Operations.** `poll` every `PollInterval`: fetch and parse without the lock, then under
  it process each new segment, trim the window, recompute the target duration.
  `processSegment` starts a break at a CUE-OUT, forwards the original content while no ad
  is ready, splices the ad once it is, suppresses the rest of the break, resumes at the
  CUE-IN.  `resolveAd`, one goroutine per break: VAST, download, FFmpeg, filler, then hand
  over under the lock if the generation still matches.  `CurrentManifest`, `Close`.
* **Hard.** The ad goroutine of a break may finish at any moment: before the next segment,
  at the CUE-IN, in a later break, or never.  Polls overlap.  An ad flight may be longer
  than the window.
* **Correct when** no upstream content is lost but what an ad replaces; the channel plays
  in order; a break gets at most one ad, its own; discontinuities mark every switch; media
  sequence numbers are stable; the target duration covers the window; the channel keeps up
  whatever the ad pipeline does.

### Live sessions - `internal/playground/live.go`

* **State.** `s.liveSessions` under `liveMu`, each with a status and a pointer to a watcher
  that polls for ever until closed.
* **Operations.** Create (count, start a watcher, register), get, stop, the manifest and
  segment readers, `sweepExpiredLive` from the janitor, `Server.Close`.
* **Hard.** Each of them takes `liveMu` more than once or reads outside it; `Watcher.Close`
  may not be called twice.
* **Correct when** a poller runs exactly as long as its session; no watcher is closed
  twice; at most `MaxConcurrentLive` run; a stop is final; an abandoned session ends; a
  reader of a stopped session gets a 404.

### Playground jobs - `internal/playground/playground.go`

* **State.** `s.jobs` under `s.mu` with their status, the semaphore `s.sem`, the job
  directories under `WorkDir`, which no lock guards.
* **Operations.** `handleCreateJob`, `handleDemo`, the two pipelines in goroutines of their
  own, `sweepExpiredJobs`, `Close`.
* **Hard.** Every stage may fail or panic; a sweep may overtake a queued or running job and
  delete its directory under it; `EncodeHLS` makes directories again.
* **Correct when** slots are neither lost nor freed twice; a job reported ready has its
  files; outcomes are final; every queued job finishes; records and directories go away,
  and not too early.

### Dynamic insertion server - `internal/server/server.go`

* **State.** `s.sessions` under `s.mu`, the semaphore `s.sem`, session directories, and the
  rate limiter in front of `/vod/manifest`.
* **Operations.** `handleStartSession` with its many error returns, `handleSessionFile`,
  the janitor, `Close`.
* **Hard.** Panics between the directory and its registration; sweeps between lookups.
* **Correct when** slots and directories are not leaked, a listed session is servable, and
  every request that was let in is answered.

### Rate limiter - `internal/httpserve/ratelimit.go`

* **State.** A table from client IPs to a count and a window start, under `rl.mu`.
* **Operations.** `allow`, `sweep`, `Close`.
* **Hard.** The boundary of the window; the sweep racing requests.
* **Correct when** no client is admitted more than `max` times in one of its windows, and
  forgetting a client never gives it a second quota.

### VOD splicing - `internal/stitch`, `internal/contentprep`, `internal/transcode`, `internal/live/fill.go`

* **State.** None: playlists in, playlists out.
* **Operations.** `InjectBreaks` cuts a source at the requested times (`evenSegmentPlan`
  inside `EncodeHLS`) and sets the cue markers; `SpliceWithOptions` finds the breaks and
  replaces them or inserts the ad, looping it to fill them; `LoopFiller.Fill` does the same
  for the live path.
* **Hard.** Several breaks in one playlist, breaks that touch, tolerances, rounding.
* **Correct when** nothing but breaks is replaced, ads sit where they were asked for, every
  switch is marked, breaks are filled, target durations cover the output.

### DASH splicing - `internal/dashsplice`, `internal/mpd`

* **State.** None: an MPD in, an MPD out.
* **Operations.** `mpd.ExtractCues` finds the first SCTE-35 event of a Period;
  `dashsplice.SpliceWithOptions` expands every timeline of that Period, cuts it at the break's
  start and end, numbers the second half on, compacts both, puts the ad's Period in between
  and gives the three of them ids and starts.  `MergeTrailingShortSegment` repairs an encoded
  ad.  Durations are parsed from and formatted as text.
* **Hard.** Video and audio count in different timescales; a time is rounded where it is
  formatted and where it is turned into ticks; `S@t` may be left out, `S@r` is a repeat count;
  a template may belong to a Representation or to its AdaptationSet.
* **Correct when** only the segments of the break go, the others keep their files and their
  time on the presentation, and the ad starts at the cue.

### VAST client - `internal/vast`

* **State.** The depth of the wrapper chain.
* **Operations.** `Fetch` asks, follows a wrapper, or resolves the answer's first ad;
  `SelectMediaFile` picks the creative.
* **Hard.** Ad servers may answer anything, and wrappers may refer to each other.
* **Correct when** the chain ends after `MaxWrapperDepth` requests, no-fill is told from
  failure, and a usable ad is used.

### SCTE-35 and where cues come from - `internal/scte35`, `internal/hls`, `internal/mpd`

* **State.** The position of a bit reader.
* **Operations.** `Parse` decodes a section; `hls.ExtractCues` finds cues in a playlist's tags,
  `mpd.ExtractEmsgCues` in the boxes of a media segment, `mpd.ExtractCues` in an MPD.
* **Hard.** Optional fields shift all that follow; anything may be cut short anywhere; lengths
  and box sizes are the sender's word.
* **Correct when** every cue is reported as it was encoded, in order, and what is cut short is
  never taken for another cue.

### Commands - `cmd/stitchpoint`

* **State.** The files under `-out`.
* **Operations.** `stitch` and `dash-stitch` load content and ad (or resolve and encode it),
  splice, copy the media and write the manifest; `scte35` reports cues; `serve` runs the
  insertion server.
* **Hard.** Each of dozens of steps may fail; names of content and ad meet in one directory.
* **Correct when** a manifest is written last and only lists media that is there.

### Process - `internal/httpserve`, `serve`

* **State.** Whether it serves, drains, has returned, or is gone.
* **Operations.** `serve`: until a signal; then the listener closes, handlers have
  `shutdownTimeout`, `Server.Close` stops the janitors, `main` returns.
* **Hard.** A signal in the middle of pipelines and of the queue for a slot; a second signal.
* **Correct when** a shutdown that reports success has answered all it let in.

### The rest

| Component | Role | Why it is not modelled |
|---|---|---|
| `internal/httpserve` (rest), `internal/ssrf` | headers, media types, health, pprof; URL checks | no state; nothing here depends on them |
| `internal/safego` | recovers from panics | modelled at its callers |
| `internal/probe`, `internal/abrbench` | wrappers around libavformat and FFmpeg | no decision but what these return |
| `internal/adfixture` | an ad server with one fixed document | `MCCommands` lets it answer, among others |
| `cmd/*` for live, probe, abrbench, playground-api | flags and wiring | the packages they wire are modelled |

### Interactions

    upstream playlist --poll--> Watcher <--resolveAd-- VAST, FFmpeg, LoopFiller
                                  ^ New, Close, CurrentManifest
    playground: LiveSessions -----+      Jobs --> InjectBreaks --> SpliceWithOptions
                     \__ one janitor __/                               ^
    process -> server: RateLimiter --> handleStartSession -------------+
                                                                       |
    stitch, dash-stitch: VAST --> encode --> splice (Stitch or Dash) --+--> copy --> manifest
    scte35: playlist, MPD, segment or text --> Parse --> report

`LiveSessions` sees of a watcher only that it polls until closed, `Watcher` of its owner only
that it may be closed at any time; so each is checked against everything the other may do.
`Jobs` and `LiveSessions` share the janitor goroutine, which runs one sweep after the other;
each model lets its own sweep start at any time, which includes every delay the other causes.
`Process` wraps `Server` without changing a step of it, and `Commands` runs `Vast` between its
own steps; both are proved.

## 2. Modules

| Module | Models | Notes |
|---|---|---|
| `Watcher` | `live.go` | poller, ad goroutines, packager, `Close` |
| `MCWatcher` | - | segments and ads of the instance |
| `WatcherProofs` | - | theorems about `Watcher` |
| `LiveSessions`, `LiveSessionsProofs` | `playground/live.go` | sessions, readers, janitor, `Close` |
| `Jobs`, `JobsProofs` | `playground/playground.go` | jobs, slots, directories, janitor |
| `Quota` | - | abstract: what the limiter promises |
| `RateLimiter`, `RateLimiterProofs` | `ratelimit.go` | refines `Quota` |
| `Server` | `server.go` | composes `RateLimiter` |
| `Process` | `httpserve.go`, `cmd_serve.go` | `Server` with signals and shutdown; refines it |
| `ServerProofs` | - | theorems about `Server` and `Process` |
| `ContentPrep` | `contentprep.go`, `transcode.go` | operators |
| `Stitch` | `stitch.go`, `fill.go` | operators, on top of `ContentPrep` |
| `Vod`, `MCVod`, `VodProofs` | the callers of the two | prepare or read, then splice |
| `Manifest` | `internal/manifest` | operators: parser and writer |
| `Timeline` | `mpd/timeline.go`, `mpd` durations, `dashsplice/timeline.go` | operators |
| `Scte35` | `internal/scte35`, the encoder of `gentestcue` | operators |
| `Dash` | `dashsplice.go`, `mpd/cues.go` | operators, on top of `Timeline` and `Scte35` |
| `CueSources` | `internal/hls`, `mpd/emsg.go`, `cmd_scte35.go` | operators, on top of `Dash` |
| `Vast` | `internal/vast` | the wrapper chain |
| `Commands`, `MCCommands` | `cmd_stitch.go`, `cmd_dashstitch.go`, `cmd_scte35.go` | composes all of the above but `Vod` |
| `CommandsProofs` | - | theorems about `Vast` and `Commands`, with `Manifest`, `Timeline` and `Dash` |
| `Induction` | - | lemmas: induction, recursive functions, concatenation and flattening of sequences |

### Watcher

A fetch (`Fetch`) and the critical section that follows are separate steps: `pc` goes from
`idle` to `parsed` (playlist in hand, lock not held) to `locked` and back.  Under the lock
each segment is one action, the five cases of `processSegment`: `StartBreak`, `FailOpen`,
`SpliceAd`, `Suppress`, `PassThrough`; `endBreak` is part of the middle three whenever
the segment is a CUE-IN.  `Unlock` does the trimming and the target duration, which the code
does before it releases the lock, and sets `published`, what `CurrentManifest` returns from
then on.  `resolving` holds the ad goroutines, each with the generation it was started with;
`Encode` stands for everything it does outside the lock and may deliver any flight of the
constant `Flights` or fail (`GiveUp`), `Deliver` is its critical section.  A poll that fails
returns before it changes anything and is a stuttering step.  `Publish` is the upstream
packager: it appends a segment with any cue markers and slides its window.  Durations are in
fractions of a second (`Ticks`).  History variables: `published`, `dropped` (what left the
window), `seen` (what was processed).

### LiveSessions

Each critical section of `liveMu` is one action, and a request that takes the lock twice
moves through `creating`.  The readers read the `watcher` field twice without the lock, as the
code does.  `polling` holds the watchers whose goroutine runs.

### Jobs

A job goes through `pc`: handler (`request`, `save`), goroutine (`queued`, the stages, and
`release` for the deferred `<-s.sem`), `done`; or `abandoned`, when its upload could not be
saved.  A stage needs the directory that earlier stages wrote to, so it fails if the janitor
has taken it; `EncodeHLS` makes it again first.  Deleting a directory may fail, after the record is
gone: the code logs that and nobody tries again (`undeleted`).  Age is counted in ticks up to one more than
the limit, as nothing in the code tells larger ages apart.

### RateLimiter, Quota and Server

`RateLimiter` is `allow` and `sweep` on a table of buckets; `Quota` has no table, no sweep and
no lazily replaced bucket, only open windows and quiet clients.  The refinement mapping reads
a bucket whose window is over as a quiet client.  `recent[c][k]` is history: what client `c` was
admitted within the last `k` ticks; only `BurstBound` reads it.  `Server` takes the limiter with `INSTANCE`;
a request enters by an `Admit` of some client, an invalid one uses up quota too, and one that
is refused changes nothing.  `RemoveSessionDir`, which the error returns and the sweep share, may
fail and leave all or part of a directory; that is logged and not tried again.  History variables:
`panicked` and `undeleted`, the requests that left a directory behind in either way; `early` and
`undeleted` in `Jobs`.

### ContentPrep, Stitch and Vod

Segments are records with a duration, the two markers, the cue's duration and an `id` that
names the piece of content.  The scan of `FindBreaks` and the loop of `SpliceWithOptions` are recursive functions.
`Vod` is three steps long: prepare a request or read a playlist, then splice it with any ad
under the options of one of the callers; what is checked is that the result is right for all
of them.

### Process

`process` goes from `serving` through `draining` and `returned` to `gone`; `result` is what
`Serve` returned.  Every step of `Server` needs the process to be there, and requests come in
only while a connection can bring one.  A drain ends when no handler is at work (`Drained`) or
when its time is up (`DrainTimesOut`); a crash or a second signal (`Kill`) may come at any time.
What was on disk stays there: no process looks for directories of an earlier one.

### Vast

Each request of `fetchDepth` is one step, with an answer chosen freely from `Answers`, so loops
and chains of every length arise.  `answers` is a history variable.

### Manifest, Timeline, Dash, Scte35 and CueSources

A playlist is a sequence of lines, each a tag and its value; `Garbage` is a value that does not
parse.  An MPD is the sequence of its Periods.  An SCTE-35 message is laid out as its encoder
wrote it: a function from bit positions to the width and value of the field that starts there,
together with how many bits have arrived.  A read that does not match a field in position and
width yields `Garbled`, so a decoder that gets a width wrong or forgets an optional field reads
garbage from there on.  Boxes of a segment are read the same way.

### Commands

`Begin` takes one of `Inputs`, a command line with what its files hold.  `stage` follows the
order of the code: load, resolve (`Vast`), encode, splice, copy, done; any stage may fail.
`files` maps names under `-out` to what they are a copy of; a failed copy may leave a file
`Empty`, a failed write a `Partial` manifest, or a whole one if only `Close` fails.  FFmpeg is represented by how it was asked to cut:
video at the forced keyframes, audio with a remainder of its own.

## 3. Runs

Passing runs:

| Run | Instance | Shows |
|---|---|---|
| `watcher` | window of 2 in and out, up to 4 upstream segments with any of the four marker combinations, flights of three segments, more than the window holds | what viewers are served is right, in every interleaving of packager, poller and ad goroutines; the channel keeps up and its window settles |
| `live_sessions` | two creating requests, limit 1, one reader | no poller leaked, cut off or closed twice; every session registered before `Close` ends |
| `jobs` | an upload and a demo, one slot, TTL of one tick | slots, files, outcomes, expiry, with directories that cannot be deleted |
| `server` | module `Process`: two requests of one client, quota 2 in 2 ticks, one slot, TTL 1, a directory that cannot be deleted, a signal, a failing listener or a crash at any moment | slots, directories, sessions, the limiter's refinement, and what a shutdown loses |
| `vod` | all playlists of up to 5 segments of five kinds, all requests of up to 3 of five breaks on sources of three lengths, six ads, five option sets | the splicing algorithms under every caller |
| `commands` | some 100 DASH inputs, cues between two ticks among them, 30 HLS inputs and, of every SCTE-35 message and segment file, each prefix, and segments and MPDs with a bad box or event; eleven answers of ad servers with chains of up to 2 | the three commands from input to output, with every failure |

Runs that refute a statement of the source:

| Run | Statement | What happens |
|---|---|---|
| `watcher_ad_in_its_break` | a stale ad goroutine recognises that its break is over (`live.go:99-102`) | `endBreak` resets the generation with the rest of `br`, every break is generation 1, and the ad of an ended break is accepted by the next |
| `watcher_fail_open` | until an ad is ready the break's content is forwarded unchanged (ADR 0003) | a CUE-IN that ends such a break is appended by `processSegment` and again by `endBreak` |
| `live_sessions_limit` | `MaxConcurrentLive` bounds the live channels | counting and registering are two critical sections |
| `live_sessions_readers` | the watcher is nil once stopped, and readers test for it | the test and the use are not under the lock |
| `jobs_kept_for_ttl` | a finished job's output is kept for `JobTTL` | age counts from creation: a job that ran for long fails and is swept at once |
| `vod_every_break` | every break is spliced | a segment that ends one break and starts the next is looked at once |

### Properties worth a word

* `OnlyReplacedByAd`: every processed segment is in the output, or it is inside a break and
  an ad of the same break went out at or before it.  CUE-IN segments are always forwarded.
* `OneAdPerBreak` does not say that the ad was resolved for that break: that is
  `AdPlayedInItsBreak`, and it fails.
* `PlaybackOrder`: content plays in the order of its numbers, and nothing is played twice but
  segments with a CUE-IN.  That those are not either is `FailOpenIsUnchanged`, and it fails.
* `SessionsEnd`: a session that is registered before `Close` is stopped in the end, by a client,
  by the janitor or by `Close` itself.
* `StableNumbering` compares consecutive manifests once the watcher has joined: media
  sequence advances by 0 or 1 and whatever both list keeps its number.
* `OrphansAreExplained`, `DirsAreOwned`: who will delete a directory, for each one there is.
  The exceptions they name - a job swept before it finished, a handler that panicked, a
  deletion that failed - are real leaks of the code.
* `OutputKeptForTTL` is about jobs that have finished, as the comment is; that the sweep may take
  one that has not is behind `OrphansAreExplained`.
* `BurstBound`: in any `Window` consecutive ticks, boundaries and sweeps included, fewer than
  twice `MaxRequests` are admitted; a fixed window cannot promise less.
* `FillersAgree`: the two implementations of "repeat the creative until the break is filled"
  differ by at most the one repetition that the tolerance of one of them saves.  Of a creative
  that is itself shorter than the tolerance of a tenth of a second, they may differ by several;
  the proof showed that, and the property says so.
* `GracefulLosesNothing`: when `Serve` returns nil, all requests were answered and what is on
  disk belongs to a session, or to an expiry, or was left by a panic or a failed deletion.  The comment at `httpserve.go:1-3`
  promises that no in-flight request is dropped; a drain cut short by `shutdownTimeout` drops
  some, and then `Serve` returns an error, of which the property says nothing.
* `AdIsDecided`: the chain of wrappers ends at its bound, giving up and no-fill are said exactly
  when they are the case, and the creative is the best progressive MP4 of the ad.
* `ContentOutsideBreakKept`: of each track, what is left is a prefix and a suffix of what was,
  with the same file numbers and durations, and all other Periods are as they were.  It holds of
  any content, gaps and offsets included.
* `AdAtCue`: the cue is found, the Periods start where it says, the content before is as long
  as that, the content after plays when it did before (`TimesKept`), each to half a tick of the
  track, and the ad's length fits
  within `durationEpsilon` or, for an encoded ad, no track was made longer or shorter by merging
  its end.  It is limited to regular content: timelines without gaps, no
  `presentationTimeOffset`, distinct Period ids, a `start` where it cannot be inferred.  Outside
  it the code does change times: a gap is closed by `compactTimeline`, the offset is not
  subtracted, and a start that is missing is read as 0.
* `OutputIsComplete`: the manifest lists only copies of the right files, and there is none, nor a
  part of one, while files are still to copy or after a copy failed.  It is limited to input whose names do not meet (`NamesDiffer`), and that is read off what
  the commands are given: `-out` is not the directory of the content; the files an MPD names are
  in its own directory and none under `ad/`; the names that `stitch` gives to the ad's segments
  with the `ad_` prefix differ, and the content has none of them.  Otherwise one file is overwritten or the wrong one
  listed, as it also is when `startNumber` is absent (read as 0 while players count from 1: then
  the files named are not beside the MPD).  Of templates of the ad that belong to an
  AdaptationSet, which `prefixMediaPaths` passes over, nothing is said.
* `CuesAreReported`: cues come in the order of lines, boxes and events; those of one DATERANGE
  line come in any order, as the code ranges over a map.  A message cut at any byte is reported
  as unreadable.  Of a segment cut at any byte or with a bad box, and of an MPD with a bad event,
  either every cue of the part that is whole is reported or none is, with an error; never a part
  of them, and never another cue.

### Where the code differs from its documents without a run

Properties that pass are stated so that they hold of the code; where a document says more than
they do, that is:

* `timeline.go:64-66` and ADR 0007 have `dash-stitch` refuse a break that is not exactly on a tick
  boundary.  `durationToTicks` rounds it to the nearest tick (`dashsplice.go:186-188`), so it is
  spliced up to half a tick off; `AdAtCue` says so, and its instance has such cues.
* `timeline.go:104-105` and section 3 of ADR 0007 have the second half keep its tick values.
  `compactTimeline` keeps only the first, so what follows a gap plays early.
* `emsg.go:97` has a file end only at a box boundary; one that ends inside the 8 bytes of a box
  header passes too (`emsg.go:102-103`), and its cues are reported as if it were whole.
* `cmd_scte35.go:14-15` has malformed cues skipped.  That is so of texts and playlists; one bad box
  or event ends the command and hides the cues before it (`emsg.go:81-84`, `cues.go:47-49`).
* `playground.go:235-237` has `Close` stop every running watcher.  A session whose creation is under
  way when `Close` copies the table is registered later and polls on, until the process exits.
* `prefixMediaPaths` is to avoid collisions of file names.  It passes over templates that belong to
  an AdaptationSet; the names of an ad with such a template may be the content's.

### Bounds and why they are enough

* Four upstream segments hold a complete break, a second break after it and a poll that
  overlaps the one before; the two windows of 2 slide within them.  All combinations of
  markers are tried on each segment, so breaks of every shape occur, also two in a row and a
  CUE-OUT inside a break.  Two segments of different fractional duration are enough for
  rounding up to differ.
* Two concurrent requests or jobs and one slot: each lock is held for a bounded time and each
  property speaks of one actor against the rest or of a count against a limit of one.  The
  safety properties of `LiveSessions`, `Jobs` and `Server` do not depend on this: they are
  proved for any number.
* Ages stop at one more than the limit they are compared with, so the clocks are finite
  without a bound on runs.
* Durations of `Vod` are tenths of a second against a nominal segment of ten seconds, and
  include the tolerance, one more and one less, sums that are not whole, and ads longer than
  the cap allows to fill.
* `MCCommands` counts 24 units to the second; video ticks are thirds of a second and audio
  ticks sixths, so that the two tracks share some boundaries and not others.  Times are written
  to a quarter of a second, coarser than a tick, so that rounding shows.  Breaks start and end on
  segment boundaries or off them, between two ticks of a track, and at either end of the Period.
  Segments are cut to 10 s as the code does, and creatives leave an audio remainder shorter,
  and one longer, than `MinSegmentDuration`.  `MaxWrapperDepth` is 2; the proof is for any.
* `server` with three requests and two slots is out of reach of a short run; what is proved of
  `Server` and `Process` holds for any number.
* Deadlock is not checked: every server may come to rest with all requests answered, and the
  packager stops at its bound.

### Fairness

* `Watcher!FairSpec` has weak fairness on the poller alone.  Its ticker fires whatever else
  happens, and a failed poll is a stutter, so this assumes that the upstream does not fail
  for ever.  Nothing is assumed of the packager or the ad goroutines: they may stop for good.
* `LiveSessions!FairSpec`: the clock, the janitor's goroutine (its ticker; a panic in a sweep is
  recovered) and the rest of `Server.Close`.  No client is assumed to send anything.
* `Jobs!FairSpec`, `Process!FairProcessSpec`: the clock, the janitor and each goroutine that has
  entered.  Downloads have a timeout and FFmpeg reads a finite file, so stages end.  Waiting
  for a slot needs no strong fairness here, as each of finitely many goroutines holds one once.
  Nothing is assumed of signals, of the listener or of crashes, nor that a drain ends in time;
  what must happen is only claimed of a process that is there (`process = "gone"` excuses it).
* The commands have no liveness property: they may stop at any step, and say so.

## 4. Proofs

All theorems hold for every value of the constants that satisfies the named assumption of
their module.  The assumptions say that limits are positive where the code's defaults make
them so, that the sets of requests are finite, that durations are numbers (of ads, and of what
an upstream packager publishes, natural numbers), that a playlist read from a file holds no
segment of an ad yet, that media files have a bitrate and a natural length, and what shape the
answers of ad servers, the parts of an MPD, the names in a directory and the lines of a playlist
have (where a number is due there is one, or `Garbage` or `Bare`, which stand for text that is
none).  No run checks a type invariant: the types of the components with steps of their own are
proved.

| Theorem | States |
|---|---|
| `WatcherProofs!TypeCorrect` | `Spec => []TypeOK` |
| `WatcherProofs!NumberingIsStable` | `Spec => StableNumbering` |
| `WatcherProofs!NothingLost`, `OneAdEach`, `PlayedInOrder` | `OnlyReplacedByAd`, `OneAdPerBreak`, `PlaybackOrder` |
| `WatcherProofs!SwitchesMarked`, `AcceptedIsPlayed`, `TargetCovers` | `DiscontinuityAtSwitch`, `AcceptedAdIsPlayed`, `TargetDurationCovers` |
| `LiveSessionsProofs!TypeCorrect`, `JobsProofs!TypeCorrect`, `ServerProofs!TypeCorrect` | the types of these modules |
| `LiveSessionsProofs!NoPollerLeaks`, `NoDoubleClose`, `StopIsFinal` | `PollersAreOwned`, `ClosedAtMostOnce`, `StoppedStaysStopped` |
| `JobsProofs!NoSlotLeaks`, `ReadyJobsHaveFiles`, `OnlySweepsLeak`, `OutcomesAreFinal` | `SlotsAreHeld`, `ReadyHasFiles`, `OrphansAreExplained`, `OutcomeIsFinal` |
| `RateLimiterProofs!LimiterTypeCorrect`, `LimiterBoundsBursts`, `LimiterImplementsQuota` | the types, `BurstBound`, and `Spec => ImplementsQuota` |
| `ServerProofs!ServerSlotsAreHeld`, `SessionsStayServable`, `DirsStayOwned` | `SlotsAreHeld`, `SessionsAreServable`, `DirsAreOwned` |
| `ServerProofs!ServerKeepsQuota`, `ServerBoundsBursts` | `ImplementsQuota` and `BurstBound` of the limiter inside the server |
| `ServerProofs!ProcessImplementsServer` | `ProcessSpec => Spec` of `Server` |
| `ServerProofs!GracefulShutdownLosesNothing`, `ProcessSlotsAreHeld` | `GracefulLosesNothing`, `SlotsAreHeld` of the process |
| `VodProofs!NoContentLost`, `AdsSitInBreaks`, `SwitchesMarked` | `ContentKept`, `AdSitsInBreak`, `SwitchesAreMarked` |
| `VodProofs!BreaksAreFilled`, `FillersDoAgree`, `TargetCovers` | `BreakIsFilled`, `FillersAgree`, `TargetCoversOutput` |
| `VodProofs!SegmentsAreEven`, `AdsStartOnTime` | `NoRuntSegments`, `AdAtRequestedTime` |
| `CommandsProofs!ChainEnds` | `VastSpec => []ChainIsFollowed` |
| `CommandsProofs!CommandsImplementVast`, `CommandChainEnds`, `AdIsDecidedWell` | `Spec => VastSpec`, and `ChainIsFollowed` and `AdIsDecided` of the commands |
| `CommandsProofs!ListedSegmentsAreCopied` | what a playlist of `stitch` lists is in `-out`, and is the copy planned for that name |
| `CommandsProofs!DirectoriesCopied` | a `dash-stitch` that ends well has copied both directories |
| `CommandsProofs!BreakIsAllThatGoes` | `ContentOutsideBreakKept` |
| `CommandsProofs!ManifestIsWrittenLast` | no manifest while copies are to do, none after a copy failed |
| `CommandsProofs!RoundTrip` | `ParsePlaylist(WritePlaylist(p))` is `p`, but for CUE-OUT durations that are not positive |
| `CommandsProofs!OutputHolds` | `OutputIsComplete` |
| `CommandsProofs!EncodedAdIsWhole` | no track of an encoded ad gets longer or shorter by merging its end |

Arguments:

* **Watcher.** The six properties are about `History`, everything the channel ever listed.  None
  is inductive.  `IInv` is three parts: `SeenInv` (what was processed is behind the cursor, what
  is in the history was processed), `BreakInv` (an active break began at a CUE-OUT with no CUE-IN
  since; a flight in hand is not empty) and `SpliceInv`, which ties `br` to the history: the
  history ends in an ad exactly while a break is active and spliced, and otherwise every ad in it
  was ended by a CUE-IN.  Each of the five cases of `processSegment` appends a known few
  entries (`Lengthened`); `Unlock` moves an entry from the window to `dropped`, which leaves the
  history as it is.  `DiscontinuityAtSwitch` then follows from the end of the history,
  `OneAdPerBreak` from the CUE-IN that ended every earlier ad.
* **Numbering.** `StableNumbering` is about `published`, which only `Unlock` changes.  The
  invariant `ListInv` says that the published window is a prefix of the window the poller
  works on, under the same media sequence, and equal to it while no poll is under way;
  every case of `processSegment` only appends, and `trimWindow` takes one from the front and
  adds one to the number.  That it removes one at a time, and not all the excess, is used:
  the step bound fails otherwise.
* **Live sessions.** `RecordsFollowCreation` (nothing happens to a session before it is
  registered), `PointersAreRegistered` (stop requests, sweeps and `Close` hold only pointers
  to registered sessions) and `WatcherIsOpen` (closed once exactly when stopped).  The second
  is what excludes a stop before the registration, which would leave a poller behind.
* **Jobs.** `StatusFollowsPc` ties the status a client sees to where the goroutine stands;
  `RecordsOutlive` keeps records and pending deletions apart.  The count of slots is a
  cardinality, which changes by one where a job enters or leaves the set of holders.
* **Server.** The same, with `RecordsFollowHandlers` and `DirsFollowHandlers`.
  `ServerKeepsQuota` shows that each step of the server is a step of the limiter or leaves it
  alone, and uses the limiter's theorem.
* **Process.** Every step is one of `Server` or leaves its variables alone, so its theorems
  carry over.  `DrainedIsQuiet` says that after a drain that ended well no handler is at work and
  none can enter; with `DirsAreOwned` and `SlotsAreHeld` that gives `GracefulLosesNothing`.
* **Limiter.** A step simulation: an admission by the table is one by the quota, a tick is a
  tick, and a sweep is a stutter because it forgets only clients whose window is over.
* **Bursts.** `BurstBound` speaks of any `Window` ticks, which may straddle two windows of the
  code.  The invariant says, for each age of a client's bucket, how much of what was admitted
  recently belongs to that bucket and that the rest, older, is at most one quota.
* **VOD splicing.** What a splice makes is described by a plan: for each break, the segment
  before the flight, the flight, and the segment after it.  `FindBreaks` gives such a plan
  (`PlanIsGood`): the scan leaves breaks that start at a CUE-OUT, end at the next CUE-IN and
  follow each other.  By induction over the breaks, the output so far obeys the plan
  (`SplicedUpTo`): content in order and complete but for what the plan skips, each run of ads a
  flight between the two segments that it should be between, each switch marked.  The four
  properties about positions are read off that; the two about lengths need, besides, how long a
  creative is that is repeated, and that `loopSegments` and `Fill` stop at the first number of
  repetitions that is enough.
* **Even segments.** `EvenSegmentPlan` is a difference of two quotients.  With `n` segments of
  a span `d` long, each is within one unit of `d / n`, and `n` is the number closest to
  `d / SegmentSeconds`, so each is within the bounds unless `n` is 1.  A segment that is too short
  is therefore alone in its span, with the markers of both neighbouring breaks.
* **Vast.** `OnlyWrappers`: while asking, all answers so far were wrappers, and there are as many
  as `depth`.  Hence giving up at the bound is giving up after that many wrappers.  That the
  creative is the first of the highest bitrate is an induction over the media files.
* **Commands.** `CopiesAreMade`: each planned copy is still to do, or was made and not written over.
  The targets of `stitch` differ because each name is looked up once; those of `dash-stitch` because
  a directory has each file once, and the ad's go below `ad/`.  `Origins` ties what a command
  holds to the functions that made it: the ad is the one the input names, prefixed, or the encoding
  of the creative; what was spliced is the splice of content and ad; the manifest is that, written.
* **What a playlist lists.** `RoundTrip` is by induction over the segments.  What a segment was
  written as is read back, from a state with nothing pending, as that segment and a state with
  nothing pending (`Reads`); two texts that are read one after the other are read as the text they
  make together (`ParseConcat`), so the lines before do not matter.  The plan of the splice is the
  splice of the same segments before their names were looked up: `InsertFlight`, `SplicedSegments`
  and what they are made of commute with changing names, as no decision depends on a name.
* **What an MPD lists.** The three Periods name no file that the content or the ad did not name:
  each half of a template is part of its timeline under a number that has grown by what was left
  out (`IsHalfOf`).  The names of a Representation with a prefix are its names, each one below `ad/`;
  merging the end of a track drops at most its last segment, and encoding writes all of them.
* **How long an ad is.** What a timeline lasts grows with each S by the length of its run
  (`ExpandTicks`); of the two S at the end, merging leaves the same sum, whether the one before
  loses one of its run or all of it.
* **DASH splicing.** A splice that is not refused puts three Periods in the place of the cue's,
  which is found because each cue has the id of a Period.  `expandTimeline` after
  `compactTimeline` gives as many segments, of the same durations (`CompactKeeps`): by induction,
  an entry either begins a run or makes the last one longer, and the runs before it expand as
  they did (`ExpandAgrees`).  The start times may differ, where there was a gap, so the theorem
  is about numbers and durations.  Both halves are expanded from one timeline, and `startNumber`
  grows by what the second leaves out.  Two templates of a Period may be split at different
  numbers: each is split by its own timescale.

The recursive definitions of `Vast`, `ContentPrep`, `Stitch`, `Vod`, `Manifest` and
`Timeline` are functions on `0 .. n`.
`Induction` proves, from the least element that every set of natural numbers has, that such a
function exists, is unique, and satisfies its recursion; the lemmas named `...Steps` in
`VodProofs` and `CommandsProofs` apply that to each definition, and everything said of a
recursive definition is then an induction on a set of natural numbers (`SetInduction`).

The invariants used (`IInv` and the like in each module) were model-checked on the instances
of section 3 before they were proved, but for those of `Vod`, whose three steps say what they are.

Only model-checked: everything under fairness (`SegmentsAreConsumed`, `WindowSettles`,
`SessionsEnd`, `QueuedJobsFinish`, `RecordsExpire`, `RequestsAreAnswered`, `SessionsExpire`), as
the prover has no rules for liveness under fairness; and, of the commands, two properties that
compare what they do with what their input says of itself.  `AdAtCue` is about times: they are
rounded to a tick, to a unit and to the last digit of `FormatDuration`, and that they stay within
`Precision` and half a tick is a matter of the numbers chosen.  What it says of an encoded ad's
length is proved (`EncodedAdIsWhole`), as is which segments go, which `ContentOutsideBreakKept`
says without times.  `CuesAreReported` is
about decoders, of which nothing is to be said but that they undo an encoder; they fold over
fields with an operator as a parameter, which the prover cannot instantiate.

## 5. Not modelled

Contents of media files and the characters of manifests and XML; HTTP headers and status codes
other than what they say of the state; the SSRF checks; probing and benchmarks; the fixture; the
wiring of the remaining commands (section 1).  The CRC of an SCTE-35 section is a field like any
other, as the code does not verify it.  FFmpeg is external.

Left out of components that are modelled: the shared ad directory of the live path (every break
writes to `b1`, for the same reason that the generation check fails); a packager that restarts
its numbering; a second process of the insertion server, which would not look at the directories
of the first.

## 6. Plan

1. *Done:* the watcher; live sessions; jobs; limiter and server; VOD splicing; DASH splicing; the
   VAST chain; SCTE-35 and the sources of cues; the commands; shutdown and crashes of the process;
   the theorems above.
2. A packager that restarts, for the watcher; the shared ad directory.
3. Proofs: `AdAtCue` under conditions on the timescales that make its tolerances hold.
