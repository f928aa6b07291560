-------------------------------- MODULE Vast --------------------------------
(***************************************************************************)
(* internal/vast: ask an ad server for an ad and follow its wrappers, and   *)
(* pick the creative to download.  The ad server is free to answer each     *)
(* request with any document, so chains of any length, loops included,      *)
(* arise.  A document keeps what the client looks at: of each Ad, its       *)
(* Wrapper (none, without a VASTAdTagURI, or with one) and the media files  *)
(* of each Linear creative of its InLine.                                   *)
(***************************************************************************)
EXTENDS Integers, Sequences, FiniteSets, SequencesExt

CONSTANTS
  MaxWrapperDepth,  \* vast.MaxWrapperDepth
  MediaFiles,       \* the media files of a creative
  Answers           \* what an ad server can answer to a request

NoInLine == <<"no InLine">>

ASSUME VastAssumption ==
  /\ MaxWrapperDepth \in Nat
  /\ \A mf \in MediaFiles : mf.mp4 \in BOOLEAN /\ mf.bitrate \in Int
  /\ \A a \in Answers :
       /\ a = [status |-> a.status, ads |-> a.ads]
       /\ a.status \in {"ok", "failed", "malformed"}
       /\ a.ads # <<>> =>
            /\ a.ads[1].wrapper \in {"none", "without URI", "with URI"}
            /\ a.ads[1].inline # NoInLine => a.ads[1].inline[2] \in Seq(Seq(MediaFiles))

VARIABLES
  vast,     \* "idle", "asking" or "done"
  depth,    \* fetchDepth's argument
  answers,  \* the answers received, for the properties only
  fetched   \* [error, media]: what Fetch returned

vastVars == <<vast, depth, answers, fetched>>

(* A definition named X_Y is a mutant of X: X with a plausible bug in it,   *)
(* used only to show that the properties would notice.                      *)

InLine(creatives) == <<"InLine", creatives>>
Ad(wrapper, inline) == [wrapper |-> wrapper, inline |-> inline]
Unreachable == [status |-> "failed", ads |-> <<>>]
Malformed == [status |-> "malformed", ads |-> <<>>]
Document(ads) == [status |-> "ok", ads |-> ads]

Refused(error) == [error |-> error, media |-> <<>>]
Resolved(media) == [error |-> "none", media |-> media]

(* resolveInLine: the media files of all Linear creatives, in order.        *)
ResolveInLine(creatives) ==
  IF FlattenSeq(creatives) = <<>> THEN Refused("no media files")
                                  ELSE Resolved(FlattenSeq(creatives))

(* resolveDoc for a document that ends the chain: only its first Ad counts. *)
ResolveDoc(doc) ==
  CASE doc.ads = <<>> -> Refused("no fill")
    [] doc.ads # <<>> /\ doc.ads[1].wrapper = "without URI" -> Refused("no tag URI")
    [] doc.ads # <<>> /\ doc.ads[1].wrapper = "none" ->
         IF doc.ads[1].inline = NoInLine THEN Refused("neither InLine nor Wrapper")
                                         ELSE ResolveInLine(doc.ads[1].inline[2])

Redirects(answer) ==
  answer.status = "ok" /\ answer.ads # <<>> /\ answer.ads[1].wrapper = "with URI"

Outcome(answer) ==
  CASE answer.status = "failed" -> Refused("unavailable")
    [] answer.status = "malformed" -> Refused("malformed")
    [] OTHER -> ResolveDoc(answer)

VastInit == vast = "idle" /\ depth = 0 /\ answers = <<>> /\ fetched = Resolved(<<>>)

Fetch ==
  /\ vast = "idle" /\ vast' = "asking" /\ depth' = 0
  /\ UNCHANGED <<answers, fetched>>

(* fetchDepth: refuse, or ask and take the answer.                          *)
DepthExceeded_OffByOne == depth > MaxWrapperDepth
DepthExceeded == depth >= MaxWrapperDepth

GiveUp ==
  /\ vast = "asking" /\ DepthExceeded
  /\ vast' = "done" /\ fetched' = Refused("too many wrappers")
  /\ UNCHANGED <<depth, answers>>

Follow(answer) ==
  /\ vast = "asking" /\ ~DepthExceeded /\ Redirects(answer)
  /\ depth' = depth + 1 /\ answers' = Append(answers, answer)
  /\ UNCHANGED <<vast, fetched>>

Resolve(answer) ==
  /\ vast = "asking" /\ ~DepthExceeded /\ ~Redirects(answer)
  /\ vast' = "done" /\ fetched' = Outcome(answer) /\ answers' = Append(answers, answer)
  /\ UNCHANGED depth

VastNext == Fetch \/ GiveUp \/ \E a \in Answers : Follow(a) \/ Resolve(a)

VastSpec == VastInit /\ [][VastNext]_vastVars

(* SelectMediaFile: the progressive MP4 of the highest bitrate, the first   *)
(* of equals; NoMediaFile if there is none.                                 *)
NoMediaFile == [mp4 |-> FALSE, bitrate |-> -1]

Better(best, mf) == mf.mp4 /\ (best = NoMediaFile \/ mf.bitrate > best.bitrate)

BetterOf(best, mf) == IF Better(best, mf) THEN mf ELSE best

SelectMediaFile(media) ==
  LET best[k \in 0 .. Len(media)] ==
        IF k = 0 THEN NoMediaFile ELSE BetterOf(best[k - 1], media[k])
  IN  best[Len(media)]

----------------------------------------------------------------------------
(* The number of requests never exceeds MaxWrapperDepth, whatever wrappers  *)
(* refer to what (vast.go:25-27, "a safety bound against a misconfigured or *)
(* malicious loop"): every answer but the last is a wrapper, and the depth  *)
(* counts them.                                                             *)
RequestsAreBounded ==
  /\ Len(answers) <= MaxWrapperDepth
  /\ \A i \in 1 .. Len(answers) - 1 : Redirects(answers[i])

(* The client gives up, whatever it was told before, only when every request *)
(* that it may make led to a wrapper; otherwise the last answer ends the      *)
(* chain.                                                                    *)
LastAnswer == answers[Len(answers)]
GaveUp == answers = <<>> \/ Redirects(LastAnswer)

GivesUpAtBound ==
  vast = "done" /\ GaveUp => Len(answers) = MaxWrapperDepth /\ fetched.error = "too many wrappers"

(* No-fill (vast.go:20-23) is only ever what a well-formed document without  *)
(* an Ad says: never an error, nor a chain that is too long; and it is what   *)
(* such a document always comes to.                                          *)
NoFillIsSaid ==
  vast = "done" => (fetched.error = "no fill" <=> answers # <<>> /\ LastAnswer = Document(<<>>))

(* The whole chain: besides, an InLine ad with media files is used whenever  *)
(* one was reached, and nothing else is.                                     *)
UsableAdIsUsed ==
  vast = "done" =>
    (fetched.error = "none" <=>
       /\ ~GaveUp /\ LastAnswer.status = "ok" /\ LastAnswer.ads # <<>>
       /\ LastAnswer.ads[1].wrapper = "none" /\ LastAnswer.ads[1].inline # NoInLine
       /\ \E i \in DOMAIN LastAnswer.ads[1].inline[2] : LastAnswer.ads[1].inline[2][i] # <<>>)

ChainIsFollowed == RequestsAreBounded /\ GivesUpAtBound /\ NoFillIsSaid /\ UsableAdIsUsed
=============================================================================
