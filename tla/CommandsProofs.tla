--------------------------- MODULE CommandsProofs ---------------------------
(***************************************************************************)
(* Proofs about Vast, for every bound on the wrappers and every set of      *)
(* answers an ad server can give, and then about Commands, for any command  *)
(* lines, any content and ads.                                              *)
(***************************************************************************)
EXTENDS Commands, Induction, SequenceTheorems, TLAPS

VastTypeOK ==
  /\ vast \in {"idle", "asking", "done"}
  /\ depth \in 0 .. MaxWrapperDepth
  /\ answers \in Seq(Answers)

(* While the client asks, every answer so far is a wrapper that it followed. *)
OnlyWrappers ==
  /\ vast = "idle" => depth = 0
  /\ vast # "done" => Len(answers) = depth
  /\ vast # "done" => \A i \in 1 .. Len(answers) : Redirects(answers[i])

MediaAreOffered == fetched.media \in Seq(MediaFiles)

ChainInv ==
  /\ VastTypeOK /\ OnlyWrappers /\ MediaAreOffered
  /\ RequestsAreBounded /\ GivesUpAtBound /\ NoFillIsSaid /\ UsableAdIsUsed

----------------------------------------------------------------------------
Offered == MediaFiles \cup {NoMediaFile}

(* SelectMediaFile goes over the media files from the first to the last.    *)
LEMMA SelectSteps ==
  ASSUME NEW media \in Seq(MediaFiles)
  PROVE  \E best \in [0 .. Len(media) -> Offered] :
           /\ best[0] = NoMediaFile /\ SelectMediaFile(media) = best[Len(media)]
           /\ \A k \in 1 .. Len(media) :
                best[k] = BetterOf(best[k - 1], media[k])
<1> DEFINE n == Len(media)
           One(x, k) == BetterOf(x, media[k])
           Steps(f) == [k \in 0 .. n |-> IF k = 0 THEN NoMediaFile ELSE One(f[k - 1], k)]
           best == CHOOSE f : f = Steps(f)
<1>1. n \in Nat /\ \A k \in 1 .. n : media[k] \in Offered
  BY DEF Offered
<1>2. SelectMediaFile(media) = best[n]
  BY DEF SelectMediaFile
<1>3. NoMediaFile \in Offered
  BY DEF Offered
<1>4. \A k \in 1 .. n, x \in Offered : One(x, k) \in Offered
  BY <1>1 DEF BetterOf
<1>5. PICK next \in [1 .. n -> [Offered -> Offered]] :
        \A k \in 1 .. n, x \in Offered : next[k][x] = One(x, k)
  <2> DEFINE all == [k \in 1 .. n |-> [x \in Offered |-> One(x, k)]]
  <2>1. \A k \in 1 .. n, x \in Offered : all[k][x] = One(x, k)
    OBVIOUS
  <2> HIDE DEF One
  <2>2. all \in [1 .. n -> [Offered -> Offered]]
    BY <1>4
  <2> QED BY <2>1, <2>2
<1> HIDE DEF One
<1>7. PICK f \in [0 .. n -> Offered] :
        f[0] = NoMediaFile /\ \A k \in 1 .. n : f[k] = next[k][f[k - 1]]
  <2>1. n \in Nat
    OBVIOUS
  <2> HIDE DEF n
  <2>2. \E f : Iterates(f, Offered, NoMediaFile, n, next)
    BY <1>3, <2>1, StepsExist
  <2> QED BY <2>2 DEF Iterates
<1>8. \A k \in 1 .. n : f[k - 1] \in Offered /\ f[k] = One(f[k - 1], k)
  <2>1. \A k \in 1 .. n : k - 1 \in 0 .. n
    BY <1>1
  <2> QED BY <1>5, <1>7, <2>1
<1>9. f = Steps(f)
  <2>1. \A k \in 0 .. n : f[k] = Steps(f)[k]
    BY <1>1, <1>7, <1>8
  <2> QED BY <1>7, <2>1
<1>10. best = Steps(best)
  BY <1>9
<1> HIDE DEF best
<1>11. best[0] = NoMediaFile /\ \A k \in 1 .. n : best[k] = One(best[k - 1], k)
  <2>1. \A k \in 0 .. n : best[k] = Steps(best)[k]
    BY <1>10
  <2> QED BY <1>1, <2>1
<1>12. best \in [0 .. n -> Offered]
  <2> DEFINE T == {k \in Nat : k <= n => best[k] \in Offered}
  <2>1. 0 \in T
    BY <1>3, <1>11
  <2>2. ASSUME NEW k \in T
        PROVE  k + 1 \in T
    <3> SUFFICES ASSUME k + 1 <= n
                 PROVE  best[k + 1] \in Offered
      OBVIOUS
    <3>1. best[k] \in Offered /\ k + 1 \in 1 .. n /\ k + 1 - 1 = k
      BY <1>1
    <3> QED BY <1>4, <1>11, <3>1
  <2>3. T = Nat
    <3>1. T \subseteq Nat
      OBVIOUS
    <3> HIDE DEF T
    <3> QED BY <2>1, <2>2, <3>1, SetInduction
  <2>4. \A k \in 0 .. n : best[k] \in Offered
    BY <1>1, <2>3
  <2> QED BY <1>10, <2>4
<1> QED BY <1>2, <1>11, <1>12 DEF One

(* It takes the first of the progressive MP4s of the highest bitrate.       *)
IsBest(mf, media, i, upTo) ==
  /\ media[i] = mf /\ mf.mp4
  /\ \A j \in 1 .. upTo : media[j].mp4 =>
       media[j].bitrate < mf.bitrate \/ (media[j].bitrate = mf.bitrate /\ j >= i)

LEMMA SelectsBest ==
  ASSUME NEW media \in Seq(MediaFiles), SelectMediaFile(media) # NoMediaFile
  PROVE  \E i \in 1 .. Len(media) : IsBest(SelectMediaFile(media), media, i, Len(media))
<1> DEFINE n == Len(media)
<1>1. PICK best \in [0 .. n -> Offered] :
        /\ best[0] = NoMediaFile /\ SelectMediaFile(media) = best[n]
        /\ \A k \in 1 .. n :
             best[k] = BetterOf(best[k - 1], media[k])
  BY SelectSteps
<1> DEFINE Found(k) == \E i \in 1 .. k : IsBest(best[k], media, i, k)
           Nothing(k) == best[k] = NoMediaFile /\ \A j \in 1 .. k : ~media[j].mp4
           T == {k \in Nat : k <= n => Found(k) \/ Nothing(k)}
<1>2. n \in Nat /\ \A k \in 1 .. n : media[k].mp4 \in BOOLEAN /\ media[k].bitrate \in Int
  <2>1. n \in Nat /\ \A k \in 1 .. n : media[k] \in MediaFiles
    OBVIOUS
  <2> HIDE DEF n
  <2> QED BY <2>1, VastAssumption DEF VastAssumption
<1>3. 0 \in T
  BY <1>1
<1>4. ASSUME NEW k \in T
      PROVE  k + 1 \in T
  <2> SUFFICES ASSUME k + 1 <= n
               PROVE  Found(k + 1) \/ Nothing(k + 1)
    OBVIOUS
  <2> DEFINE mf == media[k + 1]
  <2>1. /\ k \in Nat /\ k + 1 \in 1 .. n /\ k + 1 - 1 = k /\ (Found(k) \/ Nothing(k))
        /\ \A j \in 1 .. k + 1 : j \in 1 .. k \/ j = k + 1
        /\ \A j \in 1 .. k : j \in 1 .. k + 1 /\ j \in 1 .. n /\ k + 1 >= j
    BY <1>2
  <2>2. best[k + 1] = IF Better(best[k], mf) THEN mf ELSE best[k]
    BY <1>1, <2>1 DEF BetterOf
  <2>3. NoMediaFile.mp4 = FALSE
    BY DEF NoMediaFile
  <2>4. CASE Nothing(k) /\ mf.mp4
    <3>1. best[k + 1] = mf
      BY <2>2, <2>4 DEF Better
    <3>2. IsBest(mf, media, k + 1, k + 1)
      <4>1. k + 1 >= k + 1 /\ mf.bitrate = media[k + 1].bitrate
        BY <2>1
      <4> QED BY <2>1, <2>4, <4>1 DEF IsBest
    <3> QED BY <2>1, <3>1, <3>2
  <2>5. CASE Nothing(k) /\ ~mf.mp4
    <3>1. best[k + 1] = best[k]
      BY <2>2, <2>5 DEF Better
    <3> QED BY <2>1, <2>5, <3>1
  <2>6. CASE Found(k)
    <3>1. PICK i \in 1 .. k : IsBest(best[k], media, i, k)
      BY <2>6
    <3>2. i \in 1 .. k + 1 /\ i \in 1 .. n /\ k + 1 >= i
      BY <2>1
    <3>3. best[k] # NoMediaFile /\ best[k].bitrate \in Int /\ mf.bitrate \in Int
      BY <1>2, <2>1, <2>3, <3>1, <3>2 DEF IsBest
    <3>4. CASE mf.mp4 /\ mf.bitrate > best[k].bitrate
      <4>1. best[k + 1] = mf
        BY <2>2, <3>4 DEF Better
      <4>2. ASSUME NEW j \in 1 .. k, media[j].mp4
            PROVE  media[j].bitrate < mf.bitrate
        <5>1. media[j].bitrate <= best[k].bitrate
          BY <1>2, <2>1, <3>1, <3>3, <4>2 DEF IsBest
        <5> QED BY <1>2, <2>1, <3>3, <3>4, <5>1
      <4>3. IsBest(mf, media, k + 1, k + 1)
        <5>1. k + 1 >= k + 1 /\ mf.bitrate = media[k + 1].bitrate
          BY <2>1
        <5>2. \A j \in 1 .. k + 1 : media[j].mp4 =>
                media[j].bitrate < mf.bitrate \/ (media[j].bitrate = mf.bitrate /\ j >= k + 1)
          <6> HIDE DEF mf
          <6> QED BY <2>1, <4>2, <5>1
        <5> QED BY <3>4, <5>2 DEF IsBest
      <4> QED BY <2>1, <4>1, <4>3
    <3>5. CASE ~(mf.mp4 /\ mf.bitrate > best[k].bitrate)
      <4>1. best[k + 1] = best[k]
        BY <2>2, <3>3, <3>5 DEF Better
      <4>2. mf.mp4 =>
              mf.bitrate < best[k].bitrate \/ (mf.bitrate = best[k].bitrate /\ k + 1 >= i)
        BY <3>2, <3>3, <3>5
      <4>3. IsBest(best[k], media, i, k + 1)
        BY <2>1, <3>1, <4>2 DEF IsBest
      <4> QED BY <3>2, <4>1, <4>3
    <3> QED BY <3>4, <3>5
  <2>7. mf.mp4 \in BOOLEAN
    BY <1>2, <2>1
  <2> QED BY <2>1, <2>4, <2>5, <2>6, <2>7
<1>5. T = Nat
  <2>1. T \subseteq Nat
    OBVIOUS
  <2> HIDE DEF T
  <2> QED BY <1>3, <1>4, <2>1, SetInduction
<1>6. Found(n) \/ Nothing(n)
  BY <1>2, <1>5
<1> QED BY <1>1, <1>6

(* The media files of all creatives are there if any creative has one.      *)
LEMMA FlattenEmpty ==
  ASSUME NEW seqs \in Seq(Seq(MediaFiles))
  PROVE  /\ FlattenSeq(seqs) \in Seq(MediaFiles)
         /\ FlattenSeq(seqs) = <<>> <=> \A k \in DOMAIN seqs : seqs[k] = <<>>
<1> DEFINE n == Len(seqs)
<1>1. n \in Nat /\ DOMAIN seqs = 1 .. n /\ \A k \in 1 .. n : seqs[k] \in Seq(MediaFiles)
  OBVIOUS
<1>2. CASE n = 0
  <2>1. FlattenSeq(seqs) = seqs /\ seqs = <<>>
    BY <1>2, EmptySeq DEF FlattenSeq
  <2> QED BY <1>1, <1>2, <2>1
<1>3. CASE n # 0
  <2>1. PICK flat \in [1 .. n -> Seq(MediaFiles)] :
          /\ flat[1] = seqs[1] /\ FlattenSeq(seqs) = flat[n]
          /\ \A k \in 1 .. n : k # 1 => flat[k] = flat[k - 1] \o seqs[k]
    BY <1>3, FlattenSteps
  <2>2. n \in 1 .. n
    BY <1>1, <1>3
  <2> DEFINE NoneTo(k) == \A j \in 1 .. k : seqs[j] = <<>>
             T == {k \in Nat : \A i \in 1 .. n : i <= k => (flat[i] = <<>> <=> NoneTo(i))}
  <2>3. 0 \in T
    OBVIOUS
  <2>4. ASSUME NEW k \in T
        PROVE  k + 1 \in T
    <3> SUFFICES ASSUME NEW i \in 1 .. n, i <= k + 1
                 PROVE  flat[i] = <<>> <=> NoneTo(i)
      <4> HIDE DEF NoneTo
      <4> QED OBVIOUS
    <3>1. CASE i = 1
      BY <2>1, <3>1
    <3>2. CASE i # 1
      <4>1. i - 1 \in 1 .. n /\ i - 1 <= k
        BY <1>1, <3>2
      <4>2. flat[i] = flat[i - 1] \o seqs[i] /\ (flat[i - 1] = <<>> <=> NoneTo(i - 1))
        BY <2>1, <3>2, <4>1
      <4>3. flat[i - 1] \in Seq(MediaFiles) /\ seqs[i] \in Seq(MediaFiles)
        BY <1>1, <2>1, <4>1
      <4>4. flat[i] = <<>> <=> flat[i - 1] = <<>> /\ seqs[i] = <<>>
        BY <4>2, <4>3, ConcatEqualIffEmpty
      <4>5. NoneTo(i) <=> NoneTo(i - 1) /\ seqs[i] = <<>>
        <5>1. 1 .. i = (1 .. i - 1) \cup {i}
          BY <1>1
        <5> QED BY <5>1
      <4> QED BY <4>2, <4>4, <4>5
    <3> QED BY <3>1, <3>2
  <2>5. T = Nat
    <3>1. T \subseteq Nat
      OBVIOUS
    <3> HIDE DEF T
    <3> QED BY <2>3, <2>4, <3>1, SetInduction
  <2>6. flat[n] = <<>> <=> NoneTo(n)
    <3>1. n \in T
      <4> HIDE DEF T
      <4> QED BY <1>1, <2>5
    <3>2. n <= n
      BY <1>1
    <3> HIDE DEF NoneTo
    <3> QED BY <2>2, <3>1, <3>2
  <2> QED BY <1>1, <2>1, <2>2, <2>6
<1> QED BY <1>2, <1>3

----------------------------------------------------------------------------
LEMMA DepthIsNat == MaxWrapperDepth \in Nat
BY VastAssumption DEF VastAssumption

(* An answer that ends the chain says no-fill if it is a document without an *)
(* Ad and not otherwise.                                                     *)
LEMMA OutcomeNoFill ==
  ASSUME NEW a \in Answers, ~Redirects(a)
  PROVE  Outcome(a).error = "no fill" <=> a = Document(<<>>)
<1>0. Document(<<>>).status = "ok"
  BY DEF Document
<1>1. CASE a.status = "failed"
  <2>1. Outcome(a).error = "unavailable"
    BY <1>1 DEF Outcome, Refused
  <2> QED BY <1>0, <1>1, <2>1
<1>2. CASE a.status = "malformed"
  <2>1. Outcome(a).error = "malformed"
    BY <1>2 DEF Outcome, Refused
  <2> QED BY <1>0, <1>2, <2>1
<1>3. CASE a.status = "ok" /\ a.ads = <<>>
  <2>1. Outcome(a).error = "no fill"
    BY <1>3 DEF Outcome, ResolveDoc, Refused
  <2>2. a = Document(<<>>)
    BY <1>3, VastAssumption DEF VastAssumption, Document
  <2> QED BY <2>1, <2>2
<1>4. CASE a.status = "ok" /\ a.ads # <<>>
  <2>1. a.ads[1].wrapper \in {"none", "without URI"}
    BY <1>4, VastAssumption DEF VastAssumption, Redirects
  <2>2. Outcome(a).error # "no fill"
    BY <1>4, <2>1 DEF Outcome, ResolveDoc, ResolveInLine, Refused, Resolved
  <2>3. a # Document(<<>>)
    BY <1>4 DEF Document
  <2> QED BY <2>2, <2>3
<1> QED BY <1>1, <1>2, <1>3, <1>4, VastAssumption DEF VastAssumption

(* And an answer gives media files if it is an InLine ad that has some.      *)
HasMedia(a) ==
  /\ a.status = "ok" /\ a.ads # <<>>
  /\ a.ads[1].wrapper = "none" /\ a.ads[1].inline # NoInLine
  /\ \E i \in DOMAIN a.ads[1].inline[2] : a.ads[1].inline[2][i] # <<>>

LEMMA ResolveInLineFinds ==
  ASSUME NEW creatives \in Seq(Seq(MediaFiles))
  PROVE  /\ ResolveInLine(creatives).media \in Seq(MediaFiles)
         /\ ResolveInLine(creatives).error = "none" <=> \E i \in DOMAIN creatives : creatives[i] # <<>>
<1>1. CASE FlattenSeq(creatives) = <<>>
  BY <1>1, FlattenEmpty DEF ResolveInLine, Refused
<1>2. CASE FlattenSeq(creatives) # <<>>
  BY <1>2, FlattenEmpty DEF ResolveInLine, Resolved
<1> QED BY <1>1, <1>2

LEMMA RefusedOffersNothing ==
  ASSUME NEW error, error # "none"
  PROVE  Refused(error).media \in Seq(MediaFiles) /\ Refused(error).error # "none"
BY EmptySeq DEF Refused

LEMMA OutcomeHasMedia ==
  ASSUME NEW a \in Answers, ~Redirects(a)
  PROVE  Outcome(a).media \in Seq(MediaFiles) /\ (Outcome(a).error = "none" <=> HasMedia(a))
<1>1. CASE a.status # "ok"
  <2>1. Outcome(a) = Refused("unavailable") \/ Outcome(a) = Refused("malformed")
    BY <1>1, VastAssumption DEF VastAssumption, Outcome
  <2> QED BY <1>1, <2>1, RefusedOffersNothing DEF HasMedia
<1>2. CASE a.status = "ok" /\ a.ads = <<>>
  <2>1. Outcome(a) = Refused("no fill")
    BY <1>2 DEF Outcome, ResolveDoc
  <2> QED BY <1>2, <2>1, RefusedOffersNothing DEF HasMedia
<1>3. CASE a.status = "ok" /\ a.ads # <<>>
  <2>1. a.ads[1].wrapper \in {"none", "without URI"}
    BY <1>3, VastAssumption DEF VastAssumption, Redirects
  <2>2. CASE a.ads[1].wrapper = "without URI"
    <3>1. Outcome(a) = Refused("no tag URI")
      BY <1>3, <2>2 DEF Outcome, ResolveDoc
    <3> QED BY <2>2, <3>1, RefusedOffersNothing DEF HasMedia
  <2>3. CASE a.ads[1].wrapper = "none" /\ a.ads[1].inline = NoInLine
    <3>1. Outcome(a) = Refused("neither InLine nor Wrapper")
      BY <1>3, <2>3 DEF Outcome, ResolveDoc
    <3> QED BY <2>3, <3>1, RefusedOffersNothing DEF HasMedia
  <2>4. CASE a.ads[1].wrapper = "none" /\ a.ads[1].inline # NoInLine
    <3>1. Outcome(a) = ResolveInLine(a.ads[1].inline[2])
      BY <1>3, <2>4 DEF Outcome, ResolveDoc
    <3>2. a.ads[1].inline[2] \in Seq(Seq(MediaFiles))
      BY <1>3, <2>4, VastAssumption DEF VastAssumption
    <3> QED BY <1>3, <2>4, <3>1, <3>2, ResolveInLineFinds DEF HasMedia
  <2> QED BY <2>1, <2>2, <2>3, <2>4
<1> QED BY <1>1, <1>2, <1>3

LEMMA FollowKeeps ==
  ASSUME ChainInv, NEW a \in Answers, Follow(a)
  PROVE  ChainInv'
<1> USE DEF ChainInv
<1>1. VastTypeOK'
  BY DepthIsNat DEF Follow, VastTypeOK, DepthExceeded
<1>2. Len(answers') = Len(answers) + 1
  BY DEF Follow, VastTypeOK
<1>3. \A i \in 1 .. Len(answers') : Redirects(answers'[i])
  BY <1>2 DEF Follow, VastTypeOK, OnlyWrappers
<1>4. OnlyWrappers'
  BY <1>2, <1>3 DEF Follow, OnlyWrappers
<1>5. RequestsAreBounded'
  BY <1>1, <1>2, <1>3, <1>4, DepthIsNat
  DEF RequestsAreBounded, OnlyWrappers, VastTypeOK, Follow
<1>6. GivesUpAtBound' /\ NoFillIsSaid' /\ UsableAdIsUsed' /\ MediaAreOffered'
  BY DEF Follow, GivesUpAtBound, NoFillIsSaid, UsableAdIsUsed, MediaAreOffered
<1> QED BY <1>1, <1>4, <1>5, <1>6

LEMMA ResolveKeeps ==
  ASSUME ChainInv, NEW a \in Answers, Resolve(a)
  PROVE  ChainInv'
<1> USE DEF ChainInv
<1>1. VastTypeOK'
  BY DEF Resolve, VastTypeOK
<1>2. Len(answers') = Len(answers) + 1 /\ answers' # <<>> /\ answers'[Len(answers')] = a
  BY DEF Resolve, VastTypeOK
<1>3. OnlyWrappers'
  BY DEF Resolve, OnlyWrappers
<1>4. RequestsAreBounded'
  <2>1. Len(answers') <= MaxWrapperDepth
    <3>1. Len(answers) = depth
      BY DEF Resolve, OnlyWrappers
    <3>2. ~(depth >= MaxWrapperDepth)
      BY DEF Resolve, DepthExceeded
    <3> QED BY <1>2, <3>1, <3>2, DepthIsNat DEF VastTypeOK
  <2>2. \A i \in 1 .. Len(answers') - 1 : Redirects(answers'[i])
    BY <1>2 DEF Resolve, VastTypeOK, OnlyWrappers
  <2> QED BY <2>1, <2>2 DEF RequestsAreBounded
<1>5. GivesUpAtBound'
  BY <1>2 DEF Resolve, GivesUpAtBound, GaveUp, LastAnswer
<1>6. NoFillIsSaid'
  BY <1>2, OutcomeNoFill DEF Resolve, NoFillIsSaid, LastAnswer
<1>7. MediaAreOffered'
  BY OutcomeHasMedia DEF Resolve, MediaAreOffered
<1>8. UsableAdIsUsed'
  <2>1. fetched'.error = "none" <=> HasMedia(a)
    BY OutcomeHasMedia DEF Resolve
  <2>2. LastAnswer' = a /\ ~GaveUp'
    BY <1>2 DEF Resolve, GaveUp, LastAnswer
  <2> QED BY <2>1, <2>2 DEF UsableAdIsUsed, HasMedia
<1> QED BY <1>1, <1>3, <1>4, <1>5, <1>6, <1>7, <1>8

LEMMA GiveUpKeeps ==
  ASSUME ChainInv, GiveUp
  PROVE  ChainInv'
<1> USE DEF ChainInv
<1>1. VastTypeOK' /\ OnlyWrappers' /\ RequestsAreBounded'
  BY DEF GiveUp, VastTypeOK, OnlyWrappers, RequestsAreBounded
<1>2. fetched'.error = "too many wrappers" /\ answers' = answers /\ vast = "asking"
  BY DEF GiveUp, Refused
<1>3. Len(answers) = MaxWrapperDepth
  <2>1. depth >= MaxWrapperDepth
    BY DEF GiveUp, DepthExceeded
  <2>2. Len(answers) = depth
    BY DEF GiveUp, OnlyWrappers
  <2> QED BY <2>1, <2>2, DepthIsNat DEF VastTypeOK
<1>4. GivesUpAtBound'
  BY <1>2, <1>3 DEF GivesUpAtBound
<1>7. answers # <<>> => Redirects(LastAnswer)
  <2>1. \A i \in 1 .. Len(answers) : Redirects(answers[i])
    BY DEF GiveUp, OnlyWrappers
  <2>2. answers # <<>> => Len(answers) \in 1 .. Len(answers)
    BY DEF VastTypeOK
  <2> QED BY <2>1, <2>2 DEF LastAnswer
<1>5. answers # <<>> => LastAnswer # Document(<<>>)
  <2>2. ~Redirects(Document(<<>>))
    BY DEF Redirects, Document
  <2> QED BY <1>7, <2>2
<1>6. NoFillIsSaid'
  BY <1>2, <1>5 DEF NoFillIsSaid, LastAnswer
<1>8. MediaAreOffered'
  BY EmptySeq DEF GiveUp, MediaAreOffered, Refused
<1>9. UsableAdIsUsed'
  <2>1. GaveUp' /\ fetched'.error # "none"
    BY <1>2, <1>7 DEF GaveUp, LastAnswer
  <2> QED BY <2>1 DEF UsableAdIsUsed
<1> QED BY <1>1, <1>4, <1>6, <1>8, <1>9

LEMMA ChainStart == VastInit => ChainInv
BY DepthIsNat, EmptySeq
DEF VastInit, ChainInv, VastTypeOK, OnlyWrappers, RequestsAreBounded, GivesUpAtBound,
    NoFillIsSaid, UsableAdIsUsed, MediaAreOffered, Resolved

LEMMA ChainStep == ChainInv /\ [VastNext]_vastVars => ChainInv'
<1> SUFFICES ASSUME ChainInv, [VastNext]_vastVars
             PROVE  ChainInv'
  OBVIOUS
<1>1. CASE Fetch
  BY <1>1 DEF Fetch, ChainInv, VastTypeOK, OnlyWrappers, RequestsAreBounded, GivesUpAtBound,
              NoFillIsSaid, UsableAdIsUsed, MediaAreOffered
<1>2. CASE GiveUp
  BY <1>2, GiveUpKeeps
<1>3. CASE \E a \in Answers : Follow(a) \/ Resolve(a)
  BY <1>3, FollowKeeps, ResolveKeeps
<1>4. CASE UNCHANGED vastVars
  BY <1>4 DEF vastVars, ChainInv, VastTypeOK, OnlyWrappers, RequestsAreBounded, GivesUpAtBound,
              NoFillIsSaid, UsableAdIsUsed, MediaAreOffered, GaveUp, LastAnswer
<1> QED BY <1>1, <1>2, <1>3, <1>4 DEF VastNext

(* However the wrappers refer to each other, the client makes at most        *)
(* MaxWrapperDepth requests, gives up only at the bound, never takes an      *)
(* error or a long chain for no-fill, and uses the ad that the chain leads   *)
(* to exactly if it has a media file (vast.go:75-148).                       *)
THEOREM ChainEnds == VastSpec => []ChainIsFollowed
<1>1. ChainInv => ChainIsFollowed
  BY DEF ChainInv, ChainIsFollowed
<1> QED BY <1>1, ChainStart, ChainStep, PTL DEF VastSpec

(* The media files it returns are those of an ad, and nothing else is.       *)
LEMMA MediaComeFromAds == VastSpec => []MediaAreOffered
<1>1. ChainInv => MediaAreOffered
  BY DEF ChainInv
<1> QED BY <1>1, ChainStart, ChainStep, PTL DEF VastSpec

----------------------------------------------------------------------------
(* The commands.                                                             *)
Stages == {"start", "load", "decode", "resolve", "encode", "splice", "copy", "done", "failed"}

(* What the command set out to copy when it had spliced.                     *)
Planned == IF Dashing THEN DashCopies ELSE HlsCopies(Content, Uris(ad), Uris(spliced))

Stitches == input.cmd # "scte35"

StageFollowsCommand ==
  /\ stage \in Stages
  /\ stage = "decode" => ~Stitches
  /\ stage \in {"load", "resolve", "encode", "splice", "copy"} => Stitches

InputGiven == input \in Inputs \cup {NoInput}

(* Each copy is still to make, or has been made and not been overwritten     *)
(* since.                                                                    *)
CopiesAreMade ==
  stage \in {"copy", "done"} /\ Stitches =>
    /\ todo \subseteq Planned
    /\ \A c \in Planned : c \in todo \/ c.to \in DOMAIN files
    /\ \A c \in Planned : c \in todo \/ files[c.to] = CopyOf(c)

NothingLeft == stage = "done" /\ Stitches => todo = {}

ManifestIsLast ==
  /\ stage \notin {"done", "failed"} => manifest = NoManifest
  /\ todo # {} => manifest = NoManifest

IInv == InputGiven /\ StageFollowsCommand /\ CopiesAreMade /\ NothingLeft /\ ManifestIsLast

(* A playlist that stitch has written lists only segments that are in -out,  *)
(* each a copy of the file it was planned to be (cmd_stitch.go:186).         *)
ListedIsCopied ==
  HlsDone => \A u \in ToSet(Uris(spliced)) :
    /\ u \in DOMAIN files
    /\ \E c \in HlsCopies(Content, Uris(ad), Uris(spliced)) : c.to = u /\ files[u] = CopyOf(c)

(* An MPD that dash-stitch has written is next to a copy of every file that  *)
(* is directly in the directory of the content and of the ad.                *)
DirectoriesAreCopied ==
  DashDone => \A c \in DashCopies : c.to \in DOMAIN files /\ files[c.to] = CopyOf(c)

(* No manifest is there, not even a part of one, before its turn or after a  *)
(* copy that failed (OutputIsComplete's first part): what is left uncopied    *)
(* stays in todo.                                                            *)
NoManifestTooEarly ==
  /\ stage = "copy" => manifest = NoManifest
  /\ todo # {} => manifest = NoManifest

----------------------------------------------------------------------------
(* The commands ask ad servers just as Vast does.                            *)
LEMMA CommandStepIsVastStep == Next => [VastNext]_vastVars
BY DEF Next, Begin, Load, Ask, Select, Encode, SpliceDash, SpliceHls, CopyFile, CopyFails,
       WriteManifest, WriteFails, Fail, RunSCTE35Command, VastNext

(* Each command is a client of ad servers as in Vast: what is proved of Vast *)
(* holds of the commands.                                                    *)
THEOREM CommandsImplementVast == Spec => VastSpec
<1>1. Init => VastInit
  BY DEF Init
<1>2. [Next]_vars => [VastNext]_vastVars
  BY CommandStepIsVastStep DEF vars, vastVars
<1> QED BY <1>1, <1>2, PTL DEF Spec, VastSpec

(* Of a command, then: the number of its requests is bounded, an error or a  *)
(* long chain is never taken for no-fill, and an ad with media files is used. *)
THEOREM CommandChainEnds == Spec => []ChainIsFollowed
BY CommandsImplementVast, ChainEnds, PTL

(* What Fetch returned does not change once the creative is selected of it.  *)
Early == {"start", "load", "decode", "resolve"}

SelectedBest == creative # NoMediaFile => BestCreative /\ stage \notin Early

LEMMA SelectionIsKept ==
  ASSUME [Next]_vars
  PROVE  /\ stage \notin Early => stage' \notin Early /\ UNCHANGED <<creative, fetched>>
         /\ stage \in Early => Select \/ creative' = creative
<1> USE DEF Early
<1>1. CASE Begin \/ Load \/ Ask
  BY <1>1 DEF Begin, Load, Ask, cmdVars
<1>2. CASE Select
  BY <1>2 DEF Select
<1>3. CASE Encode \/ SpliceDash \/ SpliceHls
  BY <1>3 DEF Encode, SpliceDash, SpliceHls, vastVars
<1>4. CASE CopyFile \/ CopyFails \/ WriteManifest \/ WriteFails
  BY <1>4 DEF CopyFile, CopyFails, WriteManifest, WriteFails, vastVars
<1>5. CASE Fail \/ RunSCTE35Command
  BY <1>5 DEF Fail, RunSCTE35Command, vastVars
<1>6. CASE UNCHANGED vars
  BY <1>6 DEF vars, cmdVars, vastVars
<1> QED BY <1>1, <1>2, <1>3, <1>4, <1>5, <1>6 DEF Next

LEMMA SelectTakesBest ==
  ASSUME MediaAreOffered, Select
  PROVE  SelectedBest'
<1>1. /\ creative' = SelectMediaFile(fetched.media) /\ creative' # NoMediaFile
      /\ fetched' = fetched /\ stage' = "encode"
  BY DEF Select, vastVars
<1>2. PICK i \in 1 .. Len(fetched.media) :
        IsBest(creative', fetched.media, i, Len(fetched.media))
  BY <1>1, SelectsBest DEF MediaAreOffered
<1>3. DOMAIN fetched.media = 1 .. Len(fetched.media)
  BY DEF MediaAreOffered
<1>4. BestCreative'
  BY <1>1, <1>2, <1>3 DEF BestCreative, IsBest
<1> QED BY <1>1, <1>4 DEF SelectedBest, Early

LEMMA SelectedStep ==
  ASSUME SelectedBest, MediaAreOffered, [Next]_vars
  PROVE  SelectedBest'
<1>1. CASE stage \notin Early
  <2>1. UNCHANGED <<creative, fetched>> /\ stage' \notin Early
    BY <1>1, SelectionIsKept
  <2> QED BY <2>1 DEF SelectedBest, BestCreative
<1>2. CASE stage \in Early
  <2>1. creative = NoMediaFile
    BY <1>2 DEF SelectedBest
  <2>2. Select \/ creative' = creative
    BY <1>2, SelectionIsKept
  <2>3. CASE Select
    BY <2>3, SelectTakesBest
  <2>4. CASE creative' = creative
    BY <2>1, <2>4 DEF SelectedBest, NoMediaFile
  <2> QED BY <2>2, <2>3, <2>4
<1> QED BY <1>1, <1>2

(* The creative that a command downloads is the first of the progressive     *)
(* MP4s with the highest bitrate, of an ad that its chain of wrappers led to  *)
(* (vast.go:48-64, cmd_stitch.go:142).                                       *)
THEOREM AdIsDecidedWell == Spec => []AdIsDecided
<1>1. Init => SelectedBest
  BY DEF Init, SelectedBest
<1>2. SelectedBest /\ MediaAreOffered /\ [Next]_vars => SelectedBest'
  BY SelectedStep
<1>3. SelectedBest /\ ChainIsFollowed => AdIsDecided
  BY DEF SelectedBest, AdIsDecided, BestCreative
<1>4. Spec => []MediaAreOffered
  BY CommandsImplementVast, MediaComeFromAds, PTL
<1> QED BY <1>1, <1>2, <1>3, <1>4, CommandChainEnds, PTL DEF Spec

----------------------------------------------------------------------------
LEMMA NextCopyIsToDo == todo # {} => NextCopy \in todo
BY DEF NextCopy

LEMMA PutAdds ==
  ASSUME NEW f, NEW origin
  PROVE  /\ DOMAIN Put(f, origin) = DOMAIN files \cup {f}
         /\ Put(f, origin)[f] = origin
BY DEF Put

LEMMA HlsCopyTarget ==
  ASSUME NEW content, NEW adUris, NEW u
  PROVE  HlsCopy(content, adUris, u).to = u
BY DEF HlsCopy, Copy

(* No two copies of stitch have one target, nor two of dash-stitch: the files *)
(* of one directory have different names, and the ad's go to "ad/".          *)
LEMMA HlsTargetsDiffer ==
  ASSUME NEW content, NEW adUris, NEW uris,
         NEW c \in HlsCopies(content, adUris, uris), NEW d \in HlsCopies(content, adUris, uris),
         c.to = d.to
  PROVE  c = d
BY HlsCopyTarget DEF HlsCopies

(* What is in a directory, and on what a template names.                     *)
IsFile(f) == f = [under |-> f.under, stem |-> f.stem, rep |-> f.rep, n |-> f.n]

LEMMA FilesAreFiles ==
  ASSUME NEW mpd
  PROVE  \A f \in FilesOf(mpd) : IsFile(f)
BY DEF FilesOf, FilesOfPeriod, FilesOfRep, File, IsFile

LEMMA MovedFile ==
  ASSUME NEW f, IsFile(f), NEW g, IsFile(g), f.under = g.under, NEW under,
         [f EXCEPT !.under = under] = [g EXCEPT !.under = under]
  PROVE  f = g
<1> DEFINE h == [f EXCEPT !.under = under]
           k == [g EXCEPT !.under = under]
<1>1. h.stem = f.stem /\ h.rep = f.rep /\ h.n = f.n /\ k.stem = g.stem /\ k.rep = g.rep /\ k.n = g.n
  BY DEF IsFile
<1>2. h = k
  OBVIOUS
<1> HIDE DEF h, k
<1> QED BY <1>1, <1>2 DEF IsFile

LEMMA DirectoryIsOfFiles ==
  ASSUME InputGiven, Dashing
  PROVE  /\ \A f \in input.dir : IsFile(f)
         /\ \A f \in AdDir : IsFile(f)
<1>1. IsDashInput(input)
  BY CommandsAssumption DEF InputGiven, Dashing, NoInput
<1>2. \A f \in FileNames : IsFile(f)
  BY DEF FileNames, IsFile
<1>3. CASE FromVast
  BY <1>1, <1>2, <1>3, FilesAreFiles DEF IsDashInput, AdDir
<1>4. CASE ~FromVast
  BY <1>1, <1>2, <1>4 DEF IsDashInput, AdDir, FromVast
<1> QED BY <1>3, <1>4

LEMMA DashTargetsDiffer ==
  ASSUME InputGiven, Dashing, NEW c \in DashCopies, NEW d \in DashCopies, c.to = d.to
  PROVE  c = d
<1>1. PICK f : /\ f.under = 0 /\ IsFile(f)
               /\ \/ c = Copy("content", f, [f EXCEPT !.under = 0])
                  \/ c = Copy("ad", f, [f EXCEPT !.under = 1])
  BY DirectoryIsOfFiles DEF DashCopies, CopyDirFiles
<1>2. PICK g : /\ g.under = 0 /\ IsFile(g)
               /\ \/ d = Copy("content", g, [g EXCEPT !.under = 0])
                  \/ d = Copy("ad", g, [g EXCEPT !.under = 1])
  BY DirectoryIsOfFiles DEF DashCopies, CopyDirFiles
<1>3. \A x, y : IsFile(x) /\ IsFile(y) => [x EXCEPT !.under = 0] # [y EXCEPT !.under = 1]
  <2> SUFFICES ASSUME NEW x, NEW y, IsFile(x), IsFile(y)
               PROVE  [x EXCEPT !.under = 0] # [y EXCEPT !.under = 1]
    OBVIOUS
  <2> DEFINE beside == [x EXCEPT !.under = 0]
             below == [y EXCEPT !.under = 1]
  <2>1. beside.under = 0 /\ below.under = 1
    BY DEF IsFile
  <2>2. beside # below
    <3> HIDE DEF beside, below
    <3> QED BY <2>1
  <2> QED BY <2>2
<1>4. \A from, x, to : Copy(from, x, to).to = to
  BY DEF Copy
<1>5. CASE c = Copy("content", f, [f EXCEPT !.under = 0]) /\ d = Copy("content", g, [g EXCEPT !.under = 0])
  BY <1>1, <1>2, <1>4, <1>5, MovedFile
<1>6. CASE c = Copy("ad", f, [f EXCEPT !.under = 1]) /\ d = Copy("ad", g, [g EXCEPT !.under = 1])
  BY <1>1, <1>2, <1>4, <1>6, MovedFile
<1> QED BY <1>1, <1>2, <1>3, <1>4, <1>5, <1>6

LEMMA TargetsDiffer ==
  ASSUME InputGiven, NEW c \in Planned, NEW d \in Planned, c.to = d.to
  PROVE  c = d
BY HlsTargetsDiffer, DashTargetsDiffer DEF Planned

LEMMA EveryUriIsCopied ==
  ASSUME NEW content, NEW adUris, NEW uris, NEW u \in ToSet(uris)
  PROVE  \E c \in HlsCopies(content, adUris, uris) : c.to = u
BY HlsCopyTarget DEF HlsCopies

LEMMA CopyFileKeeps ==
  ASSUME IInv, CopyFile
  PROVE  CopiesAreMade'
<1> DEFINE c == NextCopy
<1>1. /\ stage = "copy" /\ stage' = stage /\ c \in todo /\ todo' = todo \ {c}
      /\ files' = Put(c.to, CopyOf(c))
  BY NextCopyIsToDo DEF CopyFile
<1>2. /\ Planned' = Planned /\ Dashing' = Dashing
      /\ \A d \in Planned : CopyOf(d)' = CopyOf(d)
  <2>1. UNCHANGED <<input, creative, ad, spliced>>
    BY DEF CopyFile
  <2> QED BY <2>1 DEF Planned, Dashing, DashCopies, AdDir, FromVast, Content, CopyOf
<1>3. /\ todo \subseteq Planned
      /\ \A d \in Planned : d \in todo \/ d.to \in DOMAIN files
      /\ \A d \in Planned : d \in todo \/ files[d.to] = CopyOf(d)
  BY <1>1 DEF IInv, CopiesAreMade, StageFollowsCommand
<1>4. c \in Planned
  BY <1>1, <1>3
<1> HIDE DEF c
<1>5. DOMAIN files' = DOMAIN files \cup {c.to}
  BY <1>1, PutAdds
<1>6. \A d \in Planned : d \in todo' \/ d.to \in DOMAIN files'
  BY <1>1, <1>3, <1>5
<1>7. ASSUME NEW d \in Planned
      PROVE  d \in todo' \/ files'[d.to] = CopyOf(d)
  <2>1. CASE d = c
    <3>1. files'[c.to] = CopyOf(c)
      BY <1>1, PutAdds
    <3> QED BY <2>1, <3>1
  <2>2. CASE d # c /\ d \notin todo
    <3>1. d.to # c.to
      BY <1>4, <2>2, TargetsDiffer DEF IInv
    <3>2. d.to \in DOMAIN files /\ files[d.to] = CopyOf(d)
      BY <1>3, <2>2
    <3>3. files'[d.to] = files[d.to]
      BY <1>1, <3>1, <3>2 DEF Put
    <3> QED BY <3>2, <3>3
  <2>3. CASE d # c /\ d \in todo
    BY <1>1, <2>3
  <2> QED BY <2>1, <2>2, <2>3
<1> QED BY <1>1, <1>2, <1>3, <1>6, <1>7 DEF CopiesAreMade

(* What a command that has spliced goes on with does not depend on anything  *)
(* that its other steps change.                                              *)
LEMMA SpliceStartsCopies ==
  ASSUME SpliceDash \/ SpliceHls
  PROVE  todo' = Planned'
<1>1. CASE SpliceDash
  BY <1>1 DEF SpliceDash, Planned, Dashing, DashCopies, AdDir, FromVast
<1>2. CASE SpliceHls
  BY <1>2 DEF SpliceHls, Planned, Dashing, Content
<1> QED BY <1>1, <1>2

LEMMA Start == Init => IInv
BY DEF Init, IInv, InputGiven, StageFollowsCommand, Stages, Stitches, CopiesAreMade, NothingLeft,
       ManifestIsLast

LEMMA InputStep ==
  ASSUME InputGiven, [Next]_vars
  PROVE  InputGiven'
<1>1. CASE Begin
  BY <1>1 DEF Begin, InputGiven
<1>2. CASE Load \/ Ask \/ Select \/ Encode \/ SpliceDash \/ SpliceHls \/ UNCHANGED vars
  BY <1>2 DEF Load, Ask, Select, Encode, SpliceDash, SpliceHls, vars, cmdVars, InputGiven
<1>3. CASE CopyFile \/ CopyFails \/ WriteManifest \/ WriteFails \/ Fail \/ RunSCTE35Command
  BY <1>3 DEF CopyFile, CopyFails, WriteManifest, WriteFails, Fail, RunSCTE35Command, InputGiven
<1> QED BY <1>1, <1>2, <1>3 DEF Next

LEMMA StagesStep ==
  ASSUME IInv, Next
  PROVE  StageFollowsCommand'
<1> USE DEF IInv, StageFollowsCommand, Stages, Stitches
<1>1. CASE Begin
  BY <1>1 DEF Begin
<1>2. CASE Load \/ Ask \/ Select \/ Encode
  BY <1>2 DEF Load, Ask, Select, Encode, cmdVars
<1>3. CASE SpliceDash \/ SpliceHls
  BY <1>3 DEF SpliceDash, SpliceHls
<1>4. CASE CopyFile \/ CopyFails \/ WriteManifest \/ WriteFails
  BY <1>4 DEF CopyFile, CopyFails, WriteManifest, WriteFails
<1>5. CASE Fail \/ RunSCTE35Command
  BY <1>5 DEF Fail, RunSCTE35Command
<1> QED BY <1>1, <1>2, <1>3, <1>4, <1>5 DEF Next

LEMMA ManifestStep ==
  ASSUME IInv, Next
  PROVE  ManifestIsLast'
<1> USE DEF IInv, ManifestIsLast
<1>1. CASE Begin
  BY <1>1 DEF Begin
<1>2. CASE Load \/ Ask \/ Select \/ Encode
  BY <1>2 DEF Load, Ask, Select, Encode, cmdVars
<1>3. CASE SpliceDash \/ SpliceHls
  BY <1>3 DEF SpliceDash, SpliceHls
<1>4. CASE CopyFile \/ CopyFails \/ WriteManifest \/ WriteFails
  BY <1>4 DEF CopyFile, CopyFails, WriteManifest, WriteFails
<1>5. CASE Fail \/ RunSCTE35Command
  BY <1>5 DEF Fail, RunSCTE35Command
<1> QED BY <1>1, <1>2, <1>3, <1>4, <1>5 DEF Next

LEMMA CopiesStep ==
  ASSUME IInv, Next
  PROVE  CopiesAreMade' /\ NothingLeft'
<1> USE DEF IInv
<1>1. CASE stage' \notin {"copy", "done"}
  BY <1>1 DEF CopiesAreMade, NothingLeft
<1>2. CASE SpliceDash \/ SpliceHls
  <2>1. todo' = Planned' /\ stage' = "copy"
    BY <1>2, SpliceStartsCopies DEF SpliceDash, SpliceHls
  <2> QED BY <2>1 DEF CopiesAreMade, NothingLeft
<1>3. CASE CopyFile
  BY <1>3, CopyFileKeeps DEF CopyFile, NothingLeft
<1>4. CASE WriteManifest
  <2>1. /\ stage = "copy" /\ todo = {} /\ UNCHANGED <<input, creative, ad, spliced, todo, files>>
    BY <1>4 DEF WriteManifest
  <2>2. /\ Planned' = Planned /\ Dashing' = Dashing
        /\ \A d \in Planned : CopyOf(d)' = CopyOf(d)
    BY <2>1 DEF Planned, Dashing, DashCopies, AdDir, FromVast, Content, CopyOf
  <2>3. stage = "copy" /\ Stitches
    BY <2>1 DEF StageFollowsCommand
  <2>4. todo' = {} /\ files' = files
    BY <2>1
  <2> QED BY <2>1, <2>2, <2>3, <2>4 DEF CopiesAreMade, NothingLeft
<1>5. CASE RunSCTE35Command
  BY <1>5 DEF RunSCTE35Command, StageFollowsCommand, Stitches, CopiesAreMade, NothingLeft
<1>6. CASE Begin \/ Load \/ Ask \/ Select \/ Encode \/ CopyFails \/ WriteFails \/ Fail
  <2>1. stage' \notin {"copy", "done"}
    BY <1>6 DEF Begin, Load, Ask, Select, Encode, CopyFails, WriteFails, Fail, cmdVars
  <2> QED BY <1>1, <2>1
<1> QED BY <1>2, <1>3, <1>4, <1>5, <1>6 DEF Next

LEMMA Stutter ==
  ASSUME IInv, UNCHANGED vars
  PROVE  IInv'
<1>1. UNCHANGED <<stage, input, creative, ad, spliced, todo, files, manifest>>
  BY DEF vars, cmdVars
<1>2. /\ Planned' = Planned /\ Dashing' = Dashing
      /\ \A d \in Planned : CopyOf(d)' = CopyOf(d)
  BY <1>1 DEF Planned, Dashing, DashCopies, AdDir, FromVast, Content, CopyOf
<1> QED BY <1>1, <1>2 DEF IInv, InputGiven, StageFollowsCommand, Stitches, CopiesAreMade, NothingLeft,
                          ManifestIsLast

LEMMA Invariant == Spec => []IInv
<1>1. IInv /\ [Next]_vars => IInv'
  BY InputStep, StagesStep, CopiesStep, ManifestStep, Stutter DEF IInv
<1> QED BY <1>1, Start, PTL DEF Spec

(* Of a playlist that was written, each segment is there: it was copied, and *)
(* no later copy took its name.  A segment that is its own source, because   *)
(* -out is where the content is, has been emptied by then.                   *)
THEOREM ListedSegmentsAreCopied == Spec => []ListedIsCopied
<1>1. IInv => ListedIsCopied
  <2> SUFFICES ASSUME IInv, HlsDone, NEW u \in ToSet(Uris(spliced))
               PROVE  /\ u \in DOMAIN files
                      /\ \E c \in HlsCopies(Content, Uris(ad), Uris(spliced)) :
                           c.to = u /\ files[u] = CopyOf(c)
    BY DEF ListedIsCopied
  <2>1. stage = "done" /\ Stitches /\ ~Dashing /\ todo = {}
    BY DEF HlsDone, Stitches, Dashing, IInv, NothingLeft
  <2>2. PICK c \in HlsCopies(Content, Uris(ad), Uris(spliced)) : c.to = u
    BY EveryUriIsCopied
  <2>3. c \in Planned
    BY <2>1, <2>2 DEF Planned
  <2> QED BY <2>1, <2>2, <2>3 DEF IInv, CopiesAreMade
<1> QED BY <1>1, Invariant, PTL

(* The same of dash-stitch, as to which files are there.                     *)
THEOREM DirectoriesCopied == Spec => []DirectoriesAreCopied
<1>1. IInv => DirectoriesAreCopied
  BY DEF IInv, CopiesAreMade, NothingLeft, DirectoriesAreCopied, DashDone, Dashing, Stitches,
         Planned
<1> QED BY <1>1, Invariant, PTL

(* No manifest is there before everything is copied, nor is one left by a    *)
(* command that failed to copy something.                                    *)
THEOREM ManifestIsWrittenLast == Spec => []NoManifestTooEarly
<1>1. IInv => NoManifestTooEarly
  BY DEF IInv, ManifestIsLast, NoManifestTooEarly
<1> QED BY <1>1, Invariant, PTL

----------------------------------------------------------------------------
(* The timelines of dash-stitch.  An S element stands for a run of segments, *)
(* and for at least one if it was put together by compactTimeline.           *)
Runs == [t : Int, d : Int, r : Int]
WholeRuns == [t : Int, d : Int, r : Nat]
Entries == [start : Int, dur : Int]
Expanded == [cur : Int, entries : Seq(Entries)]
Nothing == [cur |-> 0, entries |-> <<>>]
RunLength(s) == IF s.r < 0 THEN 0 ELSE s.r + 1

LEMMA ExpandOne ==
  ASSUME NEW done \in Expanded, NEW s \in Runs
  PROVE  LET longer == Expand(done, s).entries
             n == Len(done.entries)
         IN  /\ Expand(done, s) \in Expanded
             /\ done.entries \in Seq(Entries) /\ n \in Nat /\ RunLength(s) \in Nat
             /\ Len(longer) = n + RunLength(s)
             /\ \A k \in 1 .. n : longer[k] = done.entries[k]
             /\ \A k \in 1 .. RunLength(s) : longer[n + k].dur = s.d
<1> DEFINE start == IF s.t = Absent THEN done.cur ELSE s.t
           count == RunLength(s)
           run == [k \in 1 .. count |-> [start |-> start + (k - 1) * s.d, dur |-> s.d]]
           before == done.entries
<1>1. s.t \in Int /\ s.d \in Int /\ s.r \in Int /\ done.cur \in Int /\ before \in Seq(Entries)
  BY DEF Runs, Expanded
<1>2. start \in Int /\ count \in Nat
  BY <1>1 DEF RunLength
<1>3. start + count * s.d \in Int /\ \A k \in 1 .. count : start + (k - 1) * s.d \in Int
  BY <1>1, <1>2
<1>4. Expand(done, s) = [cur |-> start + count * s.d, entries |-> before \o run]
  BY DEF Expand, RunLength
<1> HIDE DEF start, count
<1>5. run \in Seq(Entries) /\ Len(run) = count /\ \A k \in 1 .. count : run[k].dur = s.d
  <2>1. \A k \in 1 .. count : run[k] \in Entries
    BY <1>1, <1>3 DEF Entries
  <2>2. run \in [1 .. count -> Entries]
    BY <2>1
  <2> QED BY <1>2, <2>2
<1> HIDE DEF run, before
<1>6. /\ before \o run \in Seq(Entries) /\ Len(before \o run) = Len(before) + Len(run)
      /\ Len(before) \in Nat
      /\ \A i \in 1 .. Len(before) : (before \o run)[i] = before[i]
      /\ \A i \in 1 .. Len(run) : (before \o run)[Len(before) + i] = run[i]
  BY <1>1, <1>5, ConcatElements
<1>7. Expand(done, s) \in Expanded /\ Expand(done, s).entries = before \o run
  BY <1>3, <1>4, <1>6 DEF Expanded
<1>8. \A k \in 1 .. count : (before \o run)[Len(before) + k].dur = s.d
  BY <1>5, <1>6
<1> QED BY <1>1, <1>2, <1>5, <1>6, <1>7, <1>8 DEF before, count

(* expandTimeline goes over the S elements from the first to the last.      *)
LEMMA ExpandSteps ==
  ASSUME NEW timeline \in Seq(Runs)
  PROVE  \E f \in [0 .. Len(timeline) -> Expanded] :
           /\ f[0] = Nothing /\ ExpandTimeline(timeline) = f[Len(timeline)].entries
           /\ \A k \in 1 .. Len(timeline) : f[k] = Expand(f[k - 1], timeline[k])
<1> DEFINE n == Len(timeline)
           V == Expanded
           One(x, k) == Expand(x, timeline[k])
           Steps(f) == [k \in 0 .. n |-> IF k = 0 THEN Nothing ELSE One(f[k - 1], k)]
           chosen == CHOOSE f : f = Steps(f)
<1>1. n \in Nat /\ \A k \in 1 .. n : timeline[k] \in Runs
  OBVIOUS
<1>2. ExpandTimeline(timeline) = chosen[n].entries
  BY DEF ExpandTimeline, Nothing
<1>3. Nothing \in V
  BY DEF Nothing, Expanded
<1>4. \A k \in 1 .. n, x \in V : One(x, k) \in V
  BY <1>1, ExpandOne
<1>5. PICK next \in [1 .. n -> [V -> V]] :
        \A k \in 1 .. n, x \in V : next[k][x] = One(x, k)
  <2> DEFINE all == [k \in 1 .. n |-> [x \in V |-> One(x, k)]]
  <2>1. \A k \in 1 .. n, x \in V : all[k][x] = One(x, k)
    OBVIOUS
  <2> HIDE DEF One, V
  <2>2. all \in [1 .. n -> [V -> V]]
    BY <1>4
  <2> QED BY <2>1, <2>2
<1> HIDE DEF One, V
<1>6. PICK f : Iterates(f, V, Nothing, n, next)
  BY <1>1, <1>3, StepsExist
<1>7. \A k \in 1 .. n : k # 0 /\ k \in 0 .. n /\ k - 1 \in 0 .. n
  BY <1>1
<1>8. \A k \in 1 .. n : f[k] = One(f[k - 1], k)
  BY <1>5, <1>6, <1>7 DEF Iterates
<1>9. f = Steps(f)
  <2>1. f \in [0 .. n -> V] /\ f[0] = Nothing
    BY <1>6 DEF Iterates
  <2>2. \A k \in 0 .. n : f[k] = Steps(f)[k]
    BY <1>1, <1>8, <2>1
  <2> QED BY <2>1, <2>2
<1>10. chosen = Steps(chosen)
  BY <1>9
<1> HIDE DEF chosen
<1>11. chosen[0] = Nothing /\ \A k \in 1 .. n : chosen[k] = One(chosen[k - 1], k)
  <2>1. \A k \in 0 .. n : chosen[k] = Steps(chosen)[k]
    BY <1>10
  <2> QED BY <1>1, <1>7, <2>1
<1>12. chosen \in [0 .. n -> V]
  <2>1. \A k \in 1 .. n : chosen[k - 1] \in V => chosen[k] = next[k][chosen[k - 1]]
    BY <1>5, <1>11
  <2>2. \A k \in 0 .. n : chosen[k] \in V
    BY <1>1, <1>3, <1>6, <1>11, <2>1, StepsAgree
  <2> QED BY <1>10, <2>2
<1> QED BY <1>2, <1>11, <1>12 DEF One, V

LEMMA ExpandTyped ==
  ASSUME NEW timeline \in Seq(Runs)
  PROVE  ExpandTimeline(timeline) \in Seq(Entries)
<1>1. PICK f \in [0 .. Len(timeline) -> Expanded] :
        ExpandTimeline(timeline) = f[Len(timeline)].entries
  BY ExpandSteps
<1>2. Len(timeline) \in 0 .. Len(timeline)
  BY LenProperties
<1> QED BY <1>1, <1>2 DEF Expanded

(* Two timelines that begin with the same S elements are the same so far.    *)
Expands(f, timeline) ==
  /\ f \in [0 .. Len(timeline) -> Expanded] /\ f[0] = Nothing
  /\ ExpandTimeline(timeline) = f[Len(timeline)].entries
  /\ \A k \in 1 .. Len(timeline) : f[k] = Expand(f[k - 1], timeline[k])

LEMMA ExpandAgrees ==
  ASSUME NEW a \in Seq(Runs), NEW b \in Seq(Runs), NEW f, NEW g, Expands(f, a), Expands(g, b),
         NEW m \in Nat, m <= Len(a), m <= Len(b), \A k \in 1 .. m : a[k] = b[k]
  PROVE  f[m] = g[m]
<1> DEFINE T == {k \in Nat : k <= m => f[k] = g[k]}
<1>1. Len(a) \in Nat /\ Len(b) \in Nat
  BY LenProperties
<1>2. 0 \in T
  BY DEF Expands
<1>3. ASSUME NEW k \in T
      PROVE  k + 1 \in T
  <2> SUFFICES ASSUME k + 1 <= m
               PROVE  f[k + 1] = g[k + 1]
    OBVIOUS
  <2>1. /\ k \in Nat /\ k <= m /\ k + 1 \in 1 .. m /\ k + 1 \in 1 .. Len(a) /\ k + 1 \in 1 .. Len(b)
        /\ (k + 1) - 1 = k
    BY <1>1
  <2>2. f[k] = g[k]
    BY <2>1
  <2>3. f[k + 1] = Expand(f[(k + 1) - 1], a[k + 1]) /\ g[k + 1] = Expand(g[(k + 1) - 1], b[k + 1])
    BY <2>1 DEF Expands
  <2> QED BY <2>1, <2>2, <2>3
<1>4. T = Nat
  <2>1. T \subseteq Nat
    OBVIOUS
  <2> HIDE DEF T
  <2> QED BY <1>2, <1>3, <2>1, SetInduction
<1> QED BY <1>4

LEMMA OneLonger ==
  ASSUME NEW s \in WholeRuns
  PROVE  LET more == [s EXCEPT !.r = @ + 1]
         IN  more \in WholeRuns /\ more.d = s.d /\ RunLength(more) = RunLength(s) + 1
<1>1. s.r \in Nat /\ s.r + 1 \in Nat /\ ~(s.r < 0) /\ ~(s.r + 1 < 0)
  BY DEF WholeRuns
<1>2. [s EXCEPT !.r = s.r + 1] \in WholeRuns
  BY <1>1 DEF WholeRuns
<1>3. [s EXCEPT !.r = s.r + 1].r = s.r + 1 /\ [s EXCEPT !.r = s.r + 1].d = s.d
  BY DEF WholeRuns
<1> QED BY <1>1, <1>2, <1>3 DEF RunLength

LEMMA CompactOne ==
  ASSUME NEW timeline \in Seq(WholeRuns), NEW entry \in Entries
  PROVE  Compact(timeline, entry) \in Seq(WholeRuns)
<1> DEFINE n == Len(timeline)
<1>1. n \in Nat /\ entry.start \in Int /\ entry.dur \in Int
  BY DEF Entries
<1>2. CASE n > 0 /\ timeline[n].d = entry.dur
  <2>1. timeline[n] \in WholeRuns
    BY <1>1, <1>2
  <2>2. [timeline[n] EXCEPT !.r = @ + 1] \in WholeRuns
    BY <2>1, OneLonger
  <2>3. Compact(timeline, entry) = [timeline EXCEPT ![n] = [timeline[n] EXCEPT !.r = @ + 1]]
    BY <1>2 DEF Compact
  <2>4. n \in 1 .. n
    BY <1>1, <1>2
  <2> QED BY <2>2, <2>3, <2>4, ExceptSeq
<1>3. CASE ~(n > 0 /\ timeline[n].d = entry.dur)
  <2>1. S(IF n = 0 THEN entry.start ELSE Absent, entry.dur, 0) \in WholeRuns
    BY <1>1 DEF S, Absent, WholeRuns
  <2>2. Compact(timeline, entry) = Append(timeline, S(IF n = 0 THEN entry.start ELSE Absent, entry.dur, 0))
    BY <1>3 DEF Compact
  <2> QED BY <2>1, <2>2, AppendProperties
<1> QED BY <1>2, <1>3

(* compactTimeline goes over the entries from the first to the last.        *)
LEMMA CompactSteps ==
  ASSUME NEW entries \in Seq(Entries)
  PROVE  \E f \in [0 .. Len(entries) -> Seq(WholeRuns)] :
           /\ f[0] = <<>> /\ CompactTimeline(entries) = f[Len(entries)]
           /\ \A k \in 1 .. Len(entries) : f[k] = Compact(f[k - 1], entries[k])
<1> DEFINE n == Len(entries)
           V == Seq(WholeRuns)
           One(x, k) == Compact(x, entries[k])
           Steps(f) == [k \in 0 .. n |-> IF k = 0 THEN <<>> ELSE One(f[k - 1], k)]
           chosen == CHOOSE f : f = Steps(f)
<1>1. n \in Nat /\ \A k \in 1 .. n : entries[k] \in Entries
  OBVIOUS
<1>2. CompactTimeline(entries) = chosen[n]
  BY DEF CompactTimeline
<1>3. <<>> \in V
  OBVIOUS
<1>4. \A k \in 1 .. n, x \in V : One(x, k) \in V
  BY <1>1, CompactOne
<1>5. PICK next \in [1 .. n -> [V -> V]] :
        \A k \in 1 .. n, x \in V : next[k][x] = One(x, k)
  <2> DEFINE all == [k \in 1 .. n |-> [x \in V |-> One(x, k)]]
  <2>1. \A k \in 1 .. n, x \in V : all[k][x] = One(x, k)
    OBVIOUS
  <2> HIDE DEF One, V
  <2>2. all \in [1 .. n -> [V -> V]]
    BY <1>4
  <2> QED BY <2>1, <2>2
<1> HIDE DEF One, V
<1>6. PICK f : Iterates(f, V, <<>>, n, next)
  BY <1>1, <1>3, StepsExist
<1>7. \A k \in 1 .. n : k # 0 /\ k \in 0 .. n /\ k - 1 \in 0 .. n
  BY <1>1
<1>8. \A k \in 1 .. n : f[k] = One(f[k - 1], k)
  BY <1>5, <1>6, <1>7 DEF Iterates
<1>9. f = Steps(f)
  <2>1. f \in [0 .. n -> V] /\ f[0] = <<>>
    BY <1>6 DEF Iterates
  <2>2. \A k \in 0 .. n : f[k] = Steps(f)[k]
    BY <1>1, <1>8, <2>1
  <2> QED BY <2>1, <2>2
<1>10. chosen = Steps(chosen)
  BY <1>9
<1> HIDE DEF chosen
<1>11. chosen[0] = <<>> /\ \A k \in 1 .. n : chosen[k] = One(chosen[k - 1], k)
  <2>1. \A k \in 0 .. n : chosen[k] = Steps(chosen)[k]
    BY <1>10
  <2> QED BY <1>1, <1>7, <2>1
<1>12. chosen \in [0 .. n -> V]
  <2>1. \A k \in 1 .. n : chosen[k - 1] \in V => chosen[k] = next[k][chosen[k - 1]]
    BY <1>5, <1>11
  <2>2. \A k \in 0 .. n : chosen[k] \in V
    BY <1>1, <1>3, <1>6, <1>11, <2>1, StepsAgree
  <2> QED BY <1>10, <2>2
<1> QED BY <1>2, <1>11, <1>12 DEF One, V

(* A segment that is added to a compact timeline is added to its segments.   *)
Adds(longer, entries, dur) ==
  /\ Len(longer) = Len(entries) + 1
  /\ \A k \in 1 .. Len(entries) : longer[k].dur = entries[k].dur
  /\ longer[Len(entries) + 1].dur = dur

LEMMA WholeRunsAreRuns == Seq(WholeRuns) \subseteq Seq(Runs)
<1>1. WholeRuns \subseteq Runs
  BY DEF WholeRuns, Runs
<1> QED BY <1>1

LEMMA LastExpand ==
  ASSUME NEW timeline \in Seq(Runs), NEW f, Expands(f, timeline), Len(timeline) > 0
  PROVE  LET n == Len(timeline)
             before == f[n - 1].entries
             all == ExpandTimeline(timeline)
         IN  /\ Len(before) \in Nat /\ RunLength(timeline[n]) \in Nat
             /\ Len(all) = Len(before) + RunLength(timeline[n])
             /\ \A k \in 1 .. Len(before) : all[k] = before[k]
             /\ \A k \in 1 .. RunLength(timeline[n]) : all[Len(before) + k].dur = timeline[n].d
<1> DEFINE n == Len(timeline)
<1>1. n \in 1 .. n /\ n - 1 \in 0 .. n /\ timeline[n] \in Runs
  OBVIOUS
<1>2. f[n - 1] \in Expanded /\ f[n] = Expand(f[n - 1], timeline[n])
      /\ ExpandTimeline(timeline) = f[n].entries
  BY <1>1 DEF Expands
<1> HIDE DEF n
<1>3. ExpandTimeline(timeline) = Expand(f[n - 1], timeline[n]).entries
  BY <1>2
<1> DEFINE all == ExpandTimeline(timeline)
           done == f[n - 1]
           s == timeline[n]
<1>4. done \in Expanded /\ s \in Runs /\ all = Expand(done, s).entries
  BY <1>1, <1>2, <1>3
<1> HIDE DEF all, done, s
<1>5. /\ Len(done.entries) \in Nat /\ RunLength(s) \in Nat
      /\ Len(all) = Len(done.entries) + RunLength(s)
      /\ \A k \in 1 .. Len(done.entries) : all[k] = done.entries[k]
      /\ \A k \in 1 .. RunLength(s) : all[Len(done.entries) + k].dur = s.d
  BY <1>4, ExpandOne
<1> QED BY <1>5 DEF n, s, all, done

LEMMA CompactAdds ==
  ASSUME NEW timeline \in Seq(WholeRuns), NEW entry \in Entries
  PROVE  Adds(ExpandTimeline(Compact(timeline, entry)), ExpandTimeline(timeline), entry.dur)
<1> DEFINE n == Len(timeline)
           more == Compact(timeline, entry)
           was == ExpandTimeline(timeline)
           is == ExpandTimeline(more)
<1> SUFFICES Adds(is, was, entry.dur)
  OBVIOUS
<1>1. n \in Nat /\ timeline \in Seq(Runs) /\ more \in Seq(Runs) /\ more \in Seq(WholeRuns)
  BY CompactOne, WholeRunsAreRuns
<1>2. PICK f : Expands(f, timeline)
  BY <1>1, ExpandSteps DEF Expands
<1>3. PICK g : Expands(g, more)
  <2> HIDE DEF more
  <2> QED BY <1>1, ExpandSteps DEF Expands
<1>4. CASE n > 0 /\ timeline[n].d = entry.dur
  <2> DEFINE before == f[n - 1].entries
             m == RunLength(timeline[n])
             more1 == [timeline[n] EXCEPT !.r = @ + 1]
  <2>1. /\ n \in 1 .. n /\ timeline[n] \in WholeRuns /\ n - 1 \in Nat /\ n - 1 <= n
        /\ \A k \in 1 .. n - 1 : k # n /\ k \in 1 .. n
    BY <1>1, <1>4
  <2>2. more = [timeline EXCEPT ![n] = more1]
    BY <1>4 DEF Compact
  <2>3. Len(more) = n /\ more[n] = more1 /\ \A k \in 1 .. n - 1 : more[k] = timeline[k]
    <3> HIDE DEF more, more1
    <3> QED BY <2>1, <2>2, ExceptSeq
  <2>4. more1.d = entry.dur /\ RunLength(more1) = m + 1
    BY <1>4, <2>1, OneLonger
  <2> HIDE DEF more1
  <2>5. f[n - 1] = g[n - 1]
    <3>1. n - 1 <= Len(timeline) /\ n - 1 <= Len(more) /\ \A k \in 1 .. n - 1 : timeline[k] = more[k]
      BY <2>1, <2>3
    <3> HIDE DEF more, n
    <3> QED BY <1>1, <1>2, <1>3, <2>1, <3>1, ExpandAgrees
  <2>6. /\ Len(before) \in Nat /\ m \in Nat /\ Len(was) = Len(before) + m
        /\ \A k \in 1 .. Len(before) : was[k] = before[k]
        /\ \A k \in 1 .. m : was[Len(before) + k].dur = timeline[n].d
    BY <1>1, <1>2, <1>4, LastExpand
  <2>7. /\ Len(is) = Len(before) + (m + 1)
        /\ \A k \in 1 .. Len(before) : is[k] = before[k]
        /\ \A k \in 1 .. m + 1 : is[Len(before) + k].dur = entry.dur
    <3> HIDE DEF more
    <3>1. LET N == Len(more)
              b == g[N - 1].entries
          IN  /\ Len(is) = Len(b) + RunLength(more[N])
              /\ \A k \in 1 .. Len(b) : is[k] = b[k]
              /\ \A k \in 1 .. RunLength(more[N]) : is[Len(b) + k].dur = more[N].d
      BY <1>1, <1>3, <1>4, <2>3, LastExpand
    <3> HIDE DEF is
    <3> QED BY <2>3, <2>4, <2>5, <3>1
  <2> HIDE DEF was, is, before, m
  <2>8. ASSUME NEW k \in 1 .. Len(was)
        PROVE  is[k].dur = was[k].dur
    <3>1. CASE k \in 1 .. Len(before)
      BY <2>6, <2>7, <3>1
    <3>2. CASE k \notin 1 .. Len(before)
      <4>1. k - Len(before) \in 1 .. m /\ k - Len(before) \in 1 .. m + 1
            /\ Len(before) + (k - Len(before)) = k
        BY <2>6, <3>2
      <4> QED BY <1>4, <2>6, <2>7, <4>1
    <3> QED BY <3>1, <3>2
  <2>9. m + 1 \in 1 .. m + 1 /\ Len(was) + 1 = Len(before) + (m + 1)
        /\ Len(is) = Len(was) + 1
    BY <2>6, <2>7
  <2> QED BY <2>7, <2>8, <2>9 DEF Adds
<1>5. CASE ~(n > 0 /\ timeline[n].d = entry.dur)
  <2> DEFINE new == S(IF n = 0 THEN entry.start ELSE Absent, entry.dur, 0)
  <2>1. new \in WholeRuns /\ new.d = entry.dur /\ RunLength(new) = 1
    BY DEF S, WholeRuns, Entries, Absent, RunLength
  <2>2. more = Append(timeline, new)
    BY <1>5 DEF Compact
  <2> HIDE DEF new
  <2>3. Len(more) = n + 1 /\ more[n + 1] = new /\ \A k \in 1 .. n : more[k] = timeline[k]
    BY <2>1, <2>2, AppendProperties
  <2> HIDE DEF more
  <2>4. f[n] = g[n]
    BY <1>1, <1>2, <1>3, <2>3, ExpandAgrees
  <2>5. was = g[n].entries
    BY <1>2, <2>4 DEF Expands
  <2>6. /\ Len(g[n].entries) \in Nat
        /\ Len(is) = Len(g[n].entries) + 1
        /\ \A k \in 1 .. Len(g[n].entries) : is[k] = g[n].entries[k]
        /\ \A k \in 1 .. 1 : is[Len(g[n].entries) + k].dur = entry.dur
    <3>1. LET N == Len(more)
              b == g[N - 1].entries
          IN  /\ Len(b) \in Nat
              /\ Len(is) = Len(b) + RunLength(more[N])
              /\ \A k \in 1 .. Len(b) : is[k] = b[k]
              /\ \A k \in 1 .. RunLength(more[N]) : is[Len(b) + k].dur = more[N].d
      <4>1. Len(more) > 0
        BY <1>1, <2>3
      <4> QED BY <1>1, <1>3, <4>1, LastExpand
    <3>2. Len(more) - 1 = n /\ Len(more) = n + 1
      BY <1>1, <2>3
    <3> HIDE DEF is
    <3> QED BY <2>1, <2>3, <3>1, <3>2
  <2>7. 1 \in 1 .. 1
    OBVIOUS
  <2> HIDE DEF was, is
  <2> QED BY <2>5, <2>6, <2>7 DEF Adds
<1> QED BY <1>4, <1>5

(* compactTimeline keeps the segments and their durations.                   *)
LEMMA CompactKeeps ==
  ASSUME NEW entries \in Seq(Entries)
  PROVE  LET again == ExpandTimeline(CompactTimeline(entries))
         IN  /\ CompactTimeline(entries) \in Seq(Runs) /\ Len(again) = Len(entries)
             /\ \A k \in 1 .. Len(entries) : again[k].dur = entries[k].dur
<1> DEFINE n == Len(entries)
<1>1. PICK f \in [0 .. n -> Seq(WholeRuns)] :
        /\ f[0] = <<>> /\ CompactTimeline(entries) = f[n]
        /\ \A k \in 1 .. n : f[k] = Compact(f[k - 1], entries[k])
  BY CompactSteps
<1>2. n \in Nat /\ \A k \in 1 .. n : entries[k] \in Entries
  OBVIOUS
<1> HIDE DEF n
<1> DEFINE Same(m) == /\ Len(ExpandTimeline(f[m])) = m
                      /\ \A k \in 1 .. m : ExpandTimeline(f[m])[k].dur = entries[k].dur
           T == {m \in Nat : m <= n => Same(m)}
<1>3. Same(0)
  <2>1. <<>> \in Seq(Runs) /\ Len(<<>>) = 0
    OBVIOUS
  <2>2. ExpandTimeline(<<>>) = <<>>
    <3>1. PICK g : g[0] = Nothing /\ ExpandTimeline(<<>>) = g[0].entries
      BY <2>1, ExpandSteps
    <3> QED BY <3>1 DEF Nothing
  <2> QED BY <1>1, <2>2
<1>4. ASSUME NEW m \in 1 .. n, Same(m - 1)
      PROVE  Same(m)
  <2>1. m \in Nat /\ m - 1 \in Nat /\ m - 1 \in 0 .. n /\ m - 1 + 1 = m
    BY <1>2
  <2>2. f[m - 1] \in Seq(WholeRuns) /\ entries[m] \in Entries /\ f[m] = Compact(f[m - 1], entries[m])
    BY <1>1, <1>2, <2>1
  <2>3. Adds(ExpandTimeline(f[m]), ExpandTimeline(f[m - 1]), entries[m].dur)
    BY <2>2, CompactAdds
  <2>4. \A k \in 1 .. m : k \in 1 .. m - 1 \/ k = m
    BY <2>1
  <2> QED BY <1>4, <2>1, <2>3, <2>4 DEF Adds
<1>5. 0 \in T
  BY <1>3
<1>6. ASSUME NEW m \in T
      PROVE  m + 1 \in T
  <2> HIDE DEF Same
  <2> SUFFICES ASSUME m + 1 <= n
               PROVE  Same(m + 1)
    OBVIOUS
  <2>1. m + 1 \in 1 .. n /\ m + 1 - 1 = m /\ Same(m)
    BY <1>2
  <2> QED BY <1>4, <2>1
<1>7. T = Nat
  <2>1. T \subseteq Nat
    OBVIOUS
  <2> HIDE DEF T
  <2> QED BY <1>5, <1>6, <2>1, SetInduction
<1>8. Same(n)
  <2>1. n \in T /\ n <= n
    <3> HIDE DEF T
    <3> QED BY <1>2, <1>7
  <2> HIDE DEF Same
  <2> QED BY <2>1
<1>9. f[n] \in Seq(Runs)
  BY <1>1, <1>2, WholeRunsAreRuns
<1> QED BY <1>1, <1>8, <1>9 DEF n

LEMMA IndexInRange ==
  ASSUME NEW entries \in Seq(Entries), NEW target
  PROVE  IndexOfStart(entries, target) \in 0 .. Len(entries)
<1> DEFINE I == {i \in 1 .. Len(entries) : entries[i].start = target}
           least == CHOOSE x \in I : \A y \in I : x <= y
<1>1. IndexOfStart(entries, target) = IF I # {} THEN least ELSE 0
  BY DEF IndexOfStart, SelectInSeq, Min
<1>2. Len(entries) \in Nat
  BY LenProperties
<1>3. CASE I # {}
  <2>1. I \in SUBSET Nat /\ I \subseteq 0 .. Len(entries)
    BY <1>2
  <2> HIDE DEF I
  <2>2. \E x \in I : \A y \in I : x <= y
    BY <1>3, <2>1, LeastElement
  <2>3. least \in I
    BY <2>2
  <2> HIDE DEF least
  <2> QED BY <1>1, <1>3, <2>1, <2>3
<1>4. CASE I = {}
  BY <1>1, <1>2, <1>4
<1> QED BY <1>3, <1>4

LEMMA SplitInRange ==
  ASSUME NEW entries \in Seq(Entries), NEW from, NEW to
  PROVE  /\ SplitPointsIn(entries, from, to).split \in 0 .. Len(entries)
         /\ SplitPointsIn(entries, from, to).resume \in 0 .. Len(entries) + 1
<1>1. /\ IndexOfStart(entries, from) \in 0 .. Len(entries)
      /\ IndexOfStart(entries, to) \in 0 .. Len(entries) /\ Len(entries) \in Nat
  BY IndexInRange, LenProperties
<1> QED BY <1>1 DEF SplitPointsIn

(* What a template lists.                                                    *)
ListedAs(tpl, k) ==
  [n |-> tpl.startNumber + k - 1, dur |-> ExpandTimeline(tpl.timeline)[k].dur]

LEMMA ListedIs ==
  ASSUME NEW tpl, tpl.timeline \in Seq(Runs)
  PROVE  /\ Len(ExpandTimeline(tpl.timeline)) \in Nat
         /\ Listed(tpl) = [k \in 1 .. Len(ExpandTimeline(tpl.timeline)) |-> ListedAs(tpl, k)]
<1> DEFINE entries == ExpandTimeline(tpl.timeline)
<1>1. DOMAIN entries = 1 .. Len(entries) /\ Len(entries) \in Nat
  BY ExpandTyped, LenProperties
<1>2. Numbers(tpl) = [k \in 1 .. Len(entries) |-> tpl.startNumber + k - 1]
  <2> HIDE DEF entries
  <2> QED BY <1>1 DEF Numbers, entries
<1> HIDE DEF entries
<1>3. DOMAIN Numbers(tpl) = 1 .. Len(entries)
  BY <1>2
<1>4. Listed(tpl) = [k \in 1 .. Len(entries) |-> [n |-> Numbers(tpl)[k], dur |-> entries[k].dur]]
  BY <1>3 DEF Listed, entries
<1>5. \A k \in 1 .. Len(entries) : Numbers(tpl)[k] = tpl.startNumber + k - 1
  BY <1>2
<1>6. Listed(tpl) = [k \in 1 .. Len(entries) |-> [n |-> tpl.startNumber + k - 1, dur |-> entries[k].dur]]
  BY <1>4, <1>5
<1> QED BY <1>1, <1>6 DEF ListedAs, entries

(* A part of a function from 1 .. n, as a sequence.                          *)
LEMMA PartOf ==
  ASSUME NEW n \in Nat, NEW s, DOMAIN s = 1 .. n,
         NEW first \in 1 .. n + 1, NEW last \in 0 .. n, first <= last + 1
  PROVE  SubSeq(s, first, last) = [k \in 1 .. last - first + 1 |-> s[first + k - 1]]
<1> DEFINE V == {s[k] : k \in 1 .. n}
           part == SubSeq(s, first, last)
<1>1. \A k \in first .. last : k \in 1 .. n
  OBVIOUS
<1>2. first \in Int /\ last \in Int /\ (IF first <= last THEN last - first + 1 ELSE 0) = last - first + 1
      /\ last - first + 1 \in Nat
  OBVIOUS
<1>3. \A k \in first .. last : s[k] \in V
  BY <1>1
<1> HIDE DEF V
<1>4. /\ part \in Seq(V) /\ Len(part) = last - first + 1
      /\ \A k \in 1 .. last - first + 1 : part[k] = s[first + k - 1]
  <2>1. /\ part \in Seq(V) /\ Len(part) = IF first <= last THEN last - first + 1 ELSE 0
        /\ \A k \in 1 .. last - first + 1 : part[k] = s[first + k - 1]
    BY <1>2, <1>3, SubSeqProperties
  <2> HIDE DEF part
  <2> QED BY <1>2, <2>1
<1> HIDE DEF part
<1>5. part = [k \in 1 .. Len(part) |-> part[k]]
  BY <1>4
<1> QED BY <1>4, <1>5 DEF part

LEMMA TemplateFields ==
  ASSUME NEW tpl \in Templates
  PROVE  /\ tpl.timeline \in Seq(Runs) /\ tpl.startNumber \in Int
         /\ \A timeline : /\ [tpl EXCEPT !.timeline = timeline].timeline = timeline
                          /\ [tpl EXCEPT !.timeline = timeline].startNumber = tpl.startNumber
         /\ \A number, pto, timeline :
              LET new == [tpl EXCEPT !.startNumber = number, !.pto = pto, !.timeline = timeline]
              IN  new.timeline = timeline /\ new.startNumber = number
BY DEF Templates, Runs

(* The halves of a template list its segments before and after the break.    *)
LEMMA HalvesKeep ==
  ASSUME NEW tpl \in Templates, NEW from, NEW to, Splittable(tpl, from, to)
  PROVE  SplitKeeps(Listed(tpl), Listed(BeforeTemplate(tpl, from, to)),
                    Listed(AfterTemplate(tpl, from, to)))
<1> DEFINE entries == ExpandTimeline(tpl.timeline)
           n == Len(entries)
           split == SplitPoints(tpl, from, to).split
           resume == SplitPoints(tpl, from, to).resume
           pre == SubSeq(entries, 1, split - 1)
           post == SubSeq(entries, resume, n)
           before == BeforeTemplate(tpl, from, to)
           after == AfterTemplate(tpl, from, to)
           all == Listed(tpl)
<1>1. tpl.timeline \in Seq(Runs) /\ tpl.startNumber \in Int
  BY TemplateFields
<1>2. entries \in Seq(Entries) /\ n \in Nat /\ \A k \in 1 .. n : entries[k] \in Entries
  BY <1>1, ExpandTyped, LenProperties, ElementOfSeq
<1>3. split \in 1 .. n /\ resume \in split .. n + 1
  <2>1. split \in 0 .. n /\ resume \in 0 .. n + 1
    <3> HIDE DEF entries
    <3> QED BY <1>2, SplitInRange DEF SplitPoints, entries
  <2>2. split # 0 /\ resume # 0 /\ split <= resume
    BY DEF Splittable, Ordered
  <2> HIDE DEF split, resume, n
  <2> QED BY <1>2, <2>1, <2>2
<1>4. before = [tpl EXCEPT !.timeline = CompactTimeline(pre)]
  BY DEF BeforeTemplate
<1>5. before.timeline = CompactTimeline(pre) /\ before.startNumber = tpl.startNumber
  BY <1>4, TemplateFields
<1>6. after.timeline = CompactTimeline(post) /\ after.startNumber = tpl.startNumber + resume - 1
  BY TemplateFields DEF AfterTemplate, ResumedAt
<1>7. all = [k \in 1 .. n |-> ListedAs(tpl, k)]
  BY <1>1, ListedIs
<1>8. \A k \in 1 .. n : all[k] = [n |-> tpl.startNumber + k - 1, dur |-> entries[k].dur]
  BY <1>7 DEF ListedAs
<1> HIDE DEF entries, n, split, resume, all
<1>9. /\ pre \in Seq(Entries) /\ Len(pre) = split - 1
      /\ \A k \in 1 .. split - 1 : pre[k] = entries[k]
  <2>1. 1 \in Int /\ split - 1 \in Int /\ \A k \in 1 .. split - 1 : entries[k] \in Entries /\ 1 + k - 1 = k
    BY <1>2, <1>3
  <2>2. /\ pre \in Seq(Entries) /\ Len(pre) = IF 1 <= split - 1 THEN split - 1 - 1 + 1 ELSE 0
        /\ \A k \in 1 .. split - 1 - 1 + 1 : pre[k] = entries[1 + k - 1]
    BY <2>1, SubSeqProperties
  <2> HIDE DEF pre
  <2> QED BY <1>2, <1>3, <2>1, <2>2
<1>10. /\ post \in Seq(Entries) /\ Len(post) = n - resume + 1
       /\ \A k \in 1 .. n - resume + 1 : post[k] = entries[resume + k - 1]
  <2>1. resume \in Int /\ n \in Int /\ \A k \in resume .. n : entries[k] \in Entries
    BY <1>2, <1>3
  <2>2. /\ post \in Seq(Entries) /\ Len(post) = IF resume <= n THEN n - resume + 1 ELSE 0
        /\ \A k \in 1 .. n - resume + 1 : post[k] = entries[resume + k - 1]
    BY <2>1, SubSeqProperties
  <2> HIDE DEF post
  <2> QED BY <1>2, <1>3, <2>2
<1> HIDE DEF pre, post, before, after
<1>11. Listed(before) = SubSeq(all, 1, split - 1)
  <2> DEFINE again == ExpandTimeline(before.timeline)
  <2>1. /\ before.timeline \in Seq(Runs) /\ Len(again) = split - 1
        /\ \A k \in 1 .. split - 1 : again[k].dur = entries[k].dur
    <3>1. /\ CompactTimeline(pre) \in Seq(Runs) /\ Len(ExpandTimeline(CompactTimeline(pre))) = Len(pre)
          /\ \A k \in 1 .. Len(pre) : ExpandTimeline(CompactTimeline(pre))[k].dur = pre[k].dur
      BY <1>9, CompactKeeps
    <3> QED BY <1>5, <1>9, <3>1
  <2>2. Listed(before) = [k \in 1 .. split - 1 |-> ListedAs(before, k)]
    BY <2>1, ListedIs
  <2>3. \A k \in 1 .. split - 1 : ListedAs(before, k) = all[k]
    <3>1. \A k \in 1 .. split - 1 : k \in 1 .. n
      BY <1>2, <1>3
    <3> QED BY <1>5, <1>8, <2>1, <3>1 DEF ListedAs
  <2>4. SubSeq(all, 1, split - 1) = [k \in 1 .. (split - 1) - 1 + 1 |-> all[1 + k - 1]]
    <3>1. DOMAIN all = 1 .. n
      BY <1>7
    <3>2. 1 \in 1 .. n + 1 /\ split - 1 \in 0 .. n /\ 1 <= (split - 1) + 1
      BY <1>2, <1>3
    <3> QED BY <1>2, <3>1, <3>2, PartOf
  <2>5. (split - 1) - 1 + 1 = split - 1 /\ \A k \in 1 .. split - 1 : 1 + k - 1 = k
    BY <1>2, <1>3
  <2> HIDE DEF again
  <2> QED BY <2>2, <2>3, <2>4, <2>5
<1>12. Listed(after) = SubSeq(all, resume, n)
  <2> DEFINE again == ExpandTimeline(after.timeline)
             m == n - resume + 1
  <2>1. /\ after.timeline \in Seq(Runs) /\ Len(again) = m
        /\ \A k \in 1 .. m : again[k].dur = entries[resume + k - 1].dur
    <3>1. /\ CompactTimeline(post) \in Seq(Runs) /\ Len(ExpandTimeline(CompactTimeline(post))) = Len(post)
          /\ \A k \in 1 .. Len(post) : ExpandTimeline(CompactTimeline(post))[k].dur = post[k].dur
      BY <1>10, CompactKeeps
    <3> QED BY <1>6, <1>10, <3>1
  <2>2. Listed(after) = [k \in 1 .. m |-> ListedAs(after, k)]
    BY <2>1, ListedIs
  <2>3. ASSUME NEW k \in 1 .. m
        PROVE  ListedAs(after, k) = all[resume + k - 1]
    <3>1. resume + k - 1 \in 1 .. n
          /\ (tpl.startNumber + resume - 1) + k - 1 = tpl.startNumber + (resume + k - 1) - 1
      BY <1>1, <1>2, <1>3
    <3>2. all[resume + k - 1]
            = [n |-> tpl.startNumber + (resume + k - 1) - 1, dur |-> entries[resume + k - 1].dur]
      BY <1>8, <3>1
    <3>3. ListedAs(after, k)
            = [n |-> (tpl.startNumber + resume - 1) + k - 1, dur |-> entries[resume + k - 1].dur]
      BY <1>6, <2>1 DEF ListedAs
    <3> QED BY <3>1, <3>2, <3>3
  <2>4. SubSeq(all, resume, n) = [k \in 1 .. m |-> all[resume + k - 1]]
    <3>1. DOMAIN all = 1 .. n
      BY <1>7
    <3>2. resume \in 1 .. n + 1 /\ n \in 0 .. n /\ resume <= n + 1
      BY <1>2, <1>3
    <3> QED BY <1>2, <3>1, <3>2, PartOf
  <2> HIDE DEF again, m
  <2> QED BY <2>2, <2>3, <2>4
<1>13. Len(all) = n /\ split - 1 \in 0 .. n /\ resume - 1 \in 0 .. n /\ split - 1 <= resume - 1
       /\ (resume - 1) + 1 = resume
  <2>1. DOMAIN all = 1 .. n /\ all \in [1 .. n -> {all[k] : k \in 1 .. n}]
    BY <1>7
  <2>2. all \in Seq({all[k] : k \in 1 .. n}) /\ Len(all) = n
    BY <1>2, <2>1
  <2> QED BY <1>2, <1>3, <2>2
<1>14. \E k, m \in 0 .. Len(all) :
         k <= m /\ Listed(before) = SubSeq(all, 1, k) /\ Listed(after) = SubSeq(all, m + 1, Len(all))
  BY <1>11, <1>12, <1>13
<1> QED BY <1>14 DEF SplitKeeps, before, after, all

----------------------------------------------------------------------------
(* The cues of an MPD are of its Periods.                                    *)
CuesOf(period) ==
  UNION {{CueOf(period, stream, event) : event \in ToSet(stream.events)} :
           stream \in ToSet(period.streams)}

LEMMA SequenceOf ==
  ASSUME NEW s, IsSequence(s)
  PROVE  /\ Len(s) \in Nat /\ DOMAIN s = 1 .. Len(s) /\ \A i \in 1 .. Len(s) : s[i] \in ToSet(s)
         /\ \A x \in ToSet(s) : \E i \in 1 .. Len(s) : x = s[i]
<1>1. s \in Seq(ToSet(s))
  BY DEF IsSequence
<1>2. Len(s) \in Nat /\ DOMAIN s = 1 .. Len(s)
  BY <1>1, LenProperties
<1> QED BY <1>2 DEF ToSet

LEMMA StreamCuesTyped ==
  ASSUME NEW period, NEW stream \in ToSet(period.streams), IsSequence(stream.events)
  PROVE  StreamCues(period, stream) \in Seq(CuesOf(period))
<1> DEFINE n == Len(stream.events)
           C == CuesOf(period)
           cues == [i \in DOMAIN stream.events |-> EventCues(period, stream, stream.events[i])]
<1>1. n \in Nat /\ DOMAIN stream.events = 1 .. n
      /\ \A i \in 1 .. n : stream.events[i] \in ToSet(stream.events)
  BY SequenceOf
<1>2. ASSUME NEW i \in 1 .. n
      PROVE  EventCues(period, stream, stream.events[i]) \in Seq(C)
  <2>1. CueOf(period, stream, stream.events[i]) \in C
    BY <1>1 DEF CuesOf
  <2> HIDE DEF C
  <2> QED BY <2>1 DEF EventCues
<1> HIDE DEF n, C
<1>3. cues \in Seq(Seq(C))
  <2>1. cues = [i \in 1 .. n |-> EventCues(period, stream, stream.events[i])]
    BY <1>1
  <2>2. cues \in [1 .. n -> Seq(C)]
    BY <1>2, <2>1
  <2> QED BY <1>1, <2>2
<1> QED BY <1>3, FlattenTyped DEF StreamCues, C

LEMMA PeriodCuesTyped ==
  ASSUME NEW period, IsSequence(period.streams),
         \A stream \in ToSet(period.streams) : IsSequence(stream.events)
  PROVE  PeriodCues(period) \in Seq(CuesOf(period))
<1> DEFINE n == Len(period.streams)
           C == CuesOf(period)
           cues == [i \in DOMAIN period.streams |-> StreamCues(period, period.streams[i])]
<1>1. n \in Nat /\ DOMAIN period.streams = 1 .. n
      /\ \A i \in 1 .. n : period.streams[i] \in ToSet(period.streams)
  BY SequenceOf
<1>2. \A i \in 1 .. n : StreamCues(period, period.streams[i]) \in Seq(C)
  BY <1>1, StreamCuesTyped
<1> HIDE DEF n, C
<1>3. cues \in Seq(Seq(C))
  <2>1. cues = [i \in 1 .. n |-> StreamCues(period, period.streams[i])]
    BY <1>1
  <2>2. cues \in [1 .. n -> Seq(C)]
    BY <1>2, <2>1
  <2> QED BY <1>1, <2>2
<1> QED BY <1>3, FlattenTyped DEF PeriodCues, C

LEMMA AllCuesTyped ==
  ASSUME NEW mpd, IsMpd(mpd)
  PROVE  AllCues(mpd) \in Seq(UNION {CuesOf(period) : period \in ToSet(mpd)})
<1> DEFINE n == Len(mpd)
           C == UNION {CuesOf(period) : period \in ToSet(mpd)}
           cues == [i \in DOMAIN mpd |-> PeriodCues(mpd[i])]
<1>1. n \in Nat /\ DOMAIN mpd = 1 .. n /\ \A i \in 1 .. n : mpd[i] \in ToSet(mpd)
  BY SequenceOf DEF IsMpd
<1>2. ASSUME NEW i \in 1 .. n
      PROVE  PeriodCues(mpd[i]) \in Seq(C)
  <2>1. PeriodCues(mpd[i]) \in Seq(CuesOf(mpd[i]))
    BY <1>1, PeriodCuesTyped DEF IsMpd
  <2>2. CuesOf(mpd[i]) \subseteq C
    BY <1>1
  <2> HIDE DEF C
  <2>3. Seq(CuesOf(mpd[i])) \subseteq Seq(C)
    BY <2>2
  <2> QED BY <2>1, <2>3
<1> HIDE DEF n, C
<1>3. cues \in Seq(Seq(C))
  <2>1. cues = [i \in 1 .. n |-> PeriodCues(mpd[i])]
    BY <1>1
  <2>2. cues \in [1 .. n -> Seq(C)]
    BY <1>2, <2>1
  <2> QED BY <1>1, <2>2
<1> QED BY <1>3, FlattenTyped DEF AllCues, C

LEMMA EventTimeTyped ==
  ASSUME NEW ticks \in Int, NEW timescale \in Nat
  PROVE  EventTime(ticks, timescale) \in Int
<1> DEFINE d == IF timescale = 0 THEN 1 ELSE timescale
<1>1. d \in Nat \ {0}
  OBVIOUS
<1> HIDE DEF d
<1>2. Second \in Nat
  BY TimelineAssumption
<1>3. ticks * Second \in Int
  BY <1>2
<1>4. (ticks * Second) \div d \in Int
  BY <1>1, <1>3
<1> QED BY <1>1, <1>4 DEF EventTime, TicksToDuration, d

(* So the Period of a cue is found.                                          *)
LEMMA PeriodFound ==
  ASSUME NEW mpd, IsMpd(mpd), AllCues(mpd) # <<>>
  PROVE  PeriodOfCue(mpd, AllCues(mpd)[1]) \in DOMAIN mpd /\ AllCues(mpd)[1].duration \in Int
<1> DEFINE C == UNION {CuesOf(period) : period \in ToSet(mpd)}
           cues == AllCues(mpd)
           cue == cues[1]
           I == {i \in 1 .. Len(mpd) : mpd[i].id = cue.period}
           least == CHOOSE x \in I : \A y \in I : x <= y
<1>1. cue \in C
  <2>1. cues \in Seq(C)
    BY AllCuesTyped
  <2> HIDE DEF cues, C
  <2>2. Len(cues) \in Nat /\ Len(cues) # 0
    BY <2>1, LenProperties, EmptySeq DEF cues
  <2>3. 1 \in 1 .. Len(cues)
    BY <2>2
  <2> QED BY <2>1, <2>3, ElementOfSeq
<1>2. PICK period \in ToSet(mpd) : cue \in CuesOf(period)
  BY <1>1
<1>3. cue.period = period.id
  BY <1>2 DEF CuesOf, CueOf
<1>4. Len(mpd) \in Nat /\ DOMAIN mpd = 1 .. Len(mpd) /\ \E i \in 1 .. Len(mpd) : period = mpd[i]
  BY SequenceOf DEF IsMpd
<1>9. cue.duration \in Int
  <2>1. PICK stream \in ToSet(period.streams) :
          cue \in {CueOf(period, stream, event) : event \in ToSet(stream.events)}
    BY <1>2 DEF CuesOf
  <2>2. PICK event \in ToSet(stream.events) : cue = CueOf(period, stream, event)
    BY <2>1
  <2>3. cue.duration = EventTime(event.duration, stream.timescale)
    BY <2>2 DEF CueOf
  <2>4. stream.timescale \in Nat /\ event.duration \in Int
    BY <2>1, <2>2 DEF IsMpd, Absent
  <2> QED BY <2>3, <2>4, EventTimeTyped
<1> HIDE DEF cue
<1>5. I \in SUBSET Nat /\ I # {} /\ I \subseteq DOMAIN mpd
  BY <1>3, <1>4
<1>6. PeriodOfCue(mpd, cue) = IF I # {} THEN least ELSE 0
  BY DEF PeriodOfCue, SelectInSeq, Min
<1> HIDE DEF I
<1>7. \E x \in I : \A y \in I : x <= y
  BY <1>5, LeastElement
<1>8. least \in I
  BY <1>7
<1> HIDE DEF least
<1> QED BY <1>5, <1>6, <1>8, <1>9 DEF cue

----------------------------------------------------------------------------
(* A splice that is not refused replaces one Period by three.                *)
Splits(content, mpd, at, adSets, start, from, to) ==
  /\ SplitAdaptationSets(content[at].sets, from, to).ok
  /\ mpd = SubSeq(content, 1, at - 1)
             \o SplitPeriod(content[at], adSets, SplitAdaptationSets(content[at].sets, from, to),
                            start, from, to)
             \o SubSeq(content, at + 1, Len(content))

LEMMA SpliceSplits ==
  ASSUME NEW content, IsMpd(content), NEW adMpd, NEW allow,
         DashSplice(content, adMpd, allow).error = "none"
  PROVE  LET at == PeriodOfCue(content, ExtractCues(content).cues[1])
         IN  /\ at \in DOMAIN content /\ adMpd # <<>>
             /\ \E start, from, to :
                  Splits(content, DashSplice(content, adMpd, allow).mpd, at, adMpd[1].sets,
                         start, from, to)
<1> DEFINE found == ExtractCues(content)
           cue == found.cues[1]
           at == PeriodOfCue(content, cue)
           start == PeriodStartOrZero(content[at].start)
           result == DashSplice(content, adMpd, allow)
           halves == SplitAdaptationSets(content[at].sets, cue.time, cue.time + cue.duration)
<1>1. found.error = "none" /\ found.cues # <<>> /\ result = SpliceCue(content, adMpd, cue, at, allow)
  <2>1. result = SpliceFound(content, adMpd, found, allow)
    BY DEF DashSplice
  <2> HIDE DEF found, result
  <2>2. result.error = "none"
    BY DEF result
  <2> QED BY <2>1, <2>2 DEF SpliceFound, Unspliced
<1>2. found.cues = AllCues(content)
  <2> HIDE DEF result
  <2> QED BY <1>1 DEF ExtractCues, Extracted
<1>3. at \in DOMAIN content /\ cue.duration \in Int
  <2>1. AllCues(content) # <<>>
    BY <1>1, <1>2
  <2> QED BY <1>2, <2>1, PeriodFound
<1> HIDE DEF found
<1> HIDE DEF cue
<1> HIDE DEF at
<1>4. result.error = "none"
  OBVIOUS
<1> HIDE DEF result
<1>5. adMpd # <<>> /\ result = SplicePeriod(content, at, adMpd[1], start, cue, allow)
  <2> DEFINE short == cue.duration <= 0
             long == cue.duration > 0
             whole == SplicePeriod(content, at, adMpd[1], start, cue, allow)
  <2>1. result = CASE short -> Unspliced("cue without duration")
                   [] long /\ adMpd = <<>> -> Unspliced("no ad period")
                   [] OTHER -> whole
    BY <1>1 DEF SpliceCue
  <2> HIDE DEF short, long, whole
  <2>2. Unspliced("cue without duration").error # "none" /\ Unspliced("no ad period").error # "none"
    BY DEF Unspliced
  <2>3. ~short \/ ~long
    BY <1>3 DEF short, long
  <2> DEFINE u == Unspliced("cue without duration")
             v == Unspliced("no ad period")
  <2>4. result = CASE short -> u [] long /\ adMpd = <<>> -> v [] OTHER -> whole
    BY <2>1
  <2> HIDE DEF u, v
  <2>5. short => result = u
    BY <2>3, <2>4
  <2>6. long /\ adMpd = <<>> => result = v
    BY <2>3, <2>4
  <2>7. ~short /\ ~(long /\ adMpd = <<>>)
    BY <1>4, <2>2, <2>5, <2>6 DEF u, v
  <2>8. result = whole
    BY <2>4, <2>7
  <2>9. long
    BY <1>3, <2>7 DEF short, long
  <2> QED BY <2>7, <2>8, <2>9 DEF whole
<1> HIDE DEF start
<1>6. result = SpliceHalves(content, at, adMpd[1].sets, halves, start, cue.time, cue.time + cue.duration)
  BY <1>4, <1>5 DEF SplicePeriod, Unspliced
<1> HIDE DEF halves
<1>7. halves.ok
      /\ result = Replaced(content, at, SplitPeriod(content[at], adMpd[1].sets, halves, start,
                                                     cue.time, cue.time + cue.duration))
  BY <1>4, <1>6 DEF SpliceHalves, Unspliced
<1>8. Splits(content, result.mpd, at, adMpd[1].sets, start, cue.time, cue.time + cue.duration)
  BY <1>7 DEF Replaced, Splits, halves
<1> QED BY <1>3, <1>5, <1>8, Zenon DEF result, at, cue, found

(* Three sequences, one after the other.                                     *)
LEMMA ThreeParts ==
  ASSUME NEW V, NEW u \in Seq(V), NEW v \in Seq(V), NEW w \in Seq(V)
  PROVE  LET all == u \o v \o w
         IN  /\ all \in Seq(V) /\ Len(all) = Len(u) + Len(v) + Len(w)
             /\ \A i \in 1 .. Len(u) : all[i] = u[i]
             /\ \A i \in 1 .. Len(v) : all[Len(u) + i] = v[i]
             /\ \A i \in 1 .. Len(w) : all[Len(u) + Len(v) + i] = w[i]
<1> DEFINE first == u \o v
           all == first \o w
<1>1. /\ first \in Seq(V) /\ Len(first) = Len(u) + Len(v) /\ Len(u) \in Nat /\ Len(v) \in Nat
      /\ \A i \in 1 .. Len(u) : first[i] = u[i]
      /\ \A i \in 1 .. Len(v) : first[Len(u) + i] = v[i]
  <2>1. u \o v \in Seq(V) /\ Len(u \o v) = Len(u) + Len(v) /\ Len(u) \in Nat /\ Len(v) \in Nat
    BY ConcatElements
  <2>2. \A i \in 1 .. Len(u) : (u \o v)[i] = u[i]
    BY ConcatElements
  <2>3. \A i \in 1 .. Len(v) : (u \o v)[Len(u) + i] = v[i]
    BY ConcatElements
  <2> QED BY <2>1, <2>2, <2>3, Zenon
<1> HIDE DEF first
<1>2. /\ all \in Seq(V) /\ Len(all) = Len(first) + Len(w)
      /\ \A i \in 1 .. Len(first) : all[i] = first[i]
      /\ \A i \in 1 .. Len(w) : all[Len(first) + i] = w[i]
  <2>1. first \in Seq(V)
    BY <1>1
  <2>2. first \o w \in Seq(V) /\ Len(first \o w) = Len(first) + Len(w)
    BY <2>1, ConcatElements
  <2>3. \A i \in 1 .. Len(first) : (first \o w)[i] = first[i]
    BY <2>1, ConcatElements
  <2>4. \A i \in 1 .. Len(w) : (first \o w)[Len(first) + i] = w[i]
    BY <2>1, ConcatElements
  <2> QED BY <2>2, <2>3, <2>4, Zenon
<1> HIDE DEF all
<1>3. /\ \A i \in 1 .. Len(u) : i \in 1 .. Len(first)
      /\ \A i \in 1 .. Len(v) : Len(u) + i \in 1 .. Len(first)
  BY <1>1
<1>4. /\ all \in Seq(V) /\ Len(all) = Len(u) + Len(v) + Len(w)
      /\ \A i \in 1 .. Len(u) : all[i] = u[i]
      /\ \A i \in 1 .. Len(v) : all[Len(u) + i] = v[i]
      /\ \A i \in 1 .. Len(w) : all[Len(u) + Len(v) + i] = w[i]
  BY <1>1, <1>2, <1>3
<1> QED BY <1>4 DEF all, first

(* The Periods around the one that was replaced, and what replaced it.       *)
Around(mpd, content, at, a, b, c) ==
  /\ SubSeq(mpd, 1, at - 1) = SubSeq(content, 1, at - 1)
  /\ SubSeq(mpd, at + 3, Len(mpd)) = SubSeq(content, at + 1, Len(content))
  /\ mpd[at] = a /\ mpd[at + 1] = b /\ mpd[at + 2] = c
  /\ \A p \in DOMAIN mpd : p = at + 1 \/ mpd[p] \in {a, c} \cup ToSet(content)

LEMMA AroundReplaced ==
  ASSUME NEW content, IsSequence(content), NEW at \in DOMAIN content, NEW a, NEW b, NEW c
  PROVE  Around(SubSeq(content, 1, at - 1) \o <<a, b, c>> \o SubSeq(content, at + 1, Len(content)),
                content, at, a, b, c)
<1> DEFINE V == ToSet(content) \cup {a, b, c}
           n == Len(content)
           u == SubSeq(content, 1, at - 1)
           v == <<a, b, c>>
           w == SubSeq(content, at + 1, n)
           mpd == u \o v \o w
<1>0. \A x, y \in Int : x - (y + 1) + 1 = x - y /\ y + 1 + x - 1 = y + x
  OBVIOUS
<1>1. n \in Nat /\ at \in 1 .. n /\ \A i \in 1 .. n : content[i] \in V
  BY SequenceOf
<1>2. /\ u \in Seq(V) /\ Len(u) = at - 1 /\ \A i \in 1 .. at - 1 : u[i] = content[i]
  <2>1. 1 \in Int /\ at - 1 \in Int /\ \A i \in 1 .. at - 1 : content[i] \in V
    BY <1>1
  <2> HIDE DEF V, n
  <2>2. /\ u \in Seq(V) /\ Len(u) = IF 1 <= at - 1 THEN at - 1 - 1 + 1 ELSE 0
        /\ \A i \in 1 .. at - 1 - 1 + 1 : u[i] = content[1 + i - 1]
    BY <2>1, SubSeqProperties
  <2>3. at - 1 - 1 + 1 = at - 1 /\ \A i \in 1 .. at - 1 : 1 + i - 1 = i
    BY <1>1
  <2> HIDE DEF u
  <2> QED BY <1>1, <2>2, <2>3
<1>3. /\ w \in Seq(V) /\ Len(w) = n - at /\ \A i \in 1 .. n - at : w[i] = content[at + i]
  <2>1. n \in Int /\ at \in Int /\ at + 1 \in Int /\ \A i \in at + 1 .. n : content[i] \in V
    BY <1>1
  <2> HIDE DEF V, n
  <2>2. /\ w \in Seq(V) /\ Len(w) = IF at + 1 <= n THEN n - (at + 1) + 1 ELSE 0
        /\ \A i \in 1 .. n - (at + 1) + 1 : w[i] = content[at + 1 + i - 1]
    BY <2>1, SubSeqProperties
  <2>3. n - (at + 1) + 1 = n - at /\ \A i \in Int : at + 1 + i - 1 = at + i
    BY <2>1, <1>0
  <2> HIDE DEF w
  <2>4. Len(w) = n - at
    <3>1. (IF at + 1 <= n THEN n - at ELSE 0) = n - at
      BY <1>1
    <3> QED BY <2>2, <2>3, <3>1
  <2>5. ASSUME NEW i \in 1 .. n - at
        PROVE  w[i] = content[at + i]
    <3>1. i \in Int
      BY <2>1
    <3> QED BY <2>2, <2>3, <3>1
  <2> QED BY <2>2, <2>4, <2>5
<1>4. v \in Seq(V) /\ Len(v) = 3 /\ v[1] = a /\ v[2] = b /\ v[3] = c
  OBVIOUS
<1>5. mpd = u \o v \o w
  OBVIOUS
<1> HIDE DEF mpd
<1> HIDE DEF V, u, v, w, n
<1>6. /\ mpd \in Seq(V) /\ Len(mpd) = (at - 1) + 3 + (n - at)
      /\ \A i \in 1 .. at - 1 : mpd[i] = u[i]
      /\ \A i \in 1 .. 3 : mpd[(at - 1) + i] = v[i]
      /\ \A i \in 1 .. n - at : mpd[(at - 1) + 3 + i] = w[i]
  <2>1. /\ mpd \in Seq(V) /\ Len(mpd) = Len(u) + Len(v) + Len(w)
        /\ \A i \in 1 .. Len(u) : mpd[i] = u[i]
        /\ \A i \in 1 .. Len(v) : mpd[Len(u) + i] = v[i]
        /\ \A i \in 1 .. Len(w) : mpd[Len(u) + Len(v) + i] = w[i]
    <3>1. u \in Seq(V) /\ v \in Seq(V) /\ w \in Seq(V)
      BY <1>2, <1>3, <1>4
    <3> QED BY <1>5, <3>1, ThreeParts
  <2>2. Len(u) = at - 1 /\ Len(v) = 3 /\ Len(w) = n - at
    BY <1>2, <1>3, <1>4
  <2> QED BY <2>1, <2>2
<1>7. /\ Len(mpd) = n + 2 /\ DOMAIN mpd = 1 .. n + 2
      /\ (at - 1) + 1 = at /\ (at - 1) + 2 = at + 1 /\ (at - 1) + 3 = at + 2
      /\ 1 \in 1 .. 3 /\ 2 \in 1 .. 3 /\ 3 \in 1 .. 3
  <2>1. Len(mpd) = n + 2
    BY <1>1, <1>6
  <2>2. DOMAIN mpd = 1 .. Len(mpd)
    BY <1>6, LenProperties
  <2> QED BY <1>1, <2>1, <2>2
<1>8. mpd[at] = a /\ mpd[at + 1] = b /\ mpd[at + 2] = c
  BY <1>4, <1>6, <1>7
<1>9. SubSeq(mpd, 1, at - 1) = u
  <2>1. SubSeq(mpd, 1, at - 1) = [k \in 1 .. (at - 1) - 1 + 1 |-> mpd[1 + k - 1]]
    <3>1. n + 2 \in Nat /\ 1 \in 1 .. (n + 2) + 1 /\ at - 1 \in 0 .. n + 2 /\ 1 <= (at - 1) + 1
      BY <1>1
    <3> QED BY <1>7, <3>1, PartOf
  <2>2. (at - 1) - 1 + 1 = at - 1 /\ \A k \in 1 .. at - 1 : 1 + k - 1 = k
    BY <1>1
  <2>3. u = [k \in 1 .. at - 1 |-> u[k]]
    BY <1>2
  <2>4. [k \in 1 .. at - 1 |-> mpd[1 + k - 1]] = [k \in 1 .. at - 1 |-> u[k]]
    BY <1>6, <2>2
  <2> QED BY <2>1, <2>2, <2>3, <2>4
<1>10. SubSeq(mpd, at + 3, Len(mpd)) = w
  <2>1. SubSeq(mpd, at + 3, n + 2) = [k \in 1 .. (n + 2) - (at + 3) + 1 |-> mpd[at + 3 + k - 1]]
    <3> DEFINE first == at + 3
               last == n + 2
    <3>1. last \in Nat /\ first \in 1 .. last + 1 /\ last \in 0 .. last /\ first <= last + 1
      BY <1>1
    <3>2. DOMAIN mpd = 1 .. last
      BY <1>7
    <3> HIDE DEF first, last
    <3>3. SubSeq(mpd, first, last) = [k \in 1 .. last - first + 1 |-> mpd[first + k - 1]]
      BY <3>1, <3>2, PartOf
    <3> QED BY <3>3 DEF first, last
  <2>2. (n + 2) - (at + 3) + 1 = n - at
        /\ \A k \in 1 .. n - at : at + 3 + k - 1 = (at - 1) + 3 + k
    BY <1>1
  <2>3. w = [k \in 1 .. n - at |-> w[k]]
    BY <1>3
  <2>4. [k \in 1 .. n - at |-> mpd[at + 3 + k - 1]] = [k \in 1 .. n - at |-> w[k]]
    BY <1>6, <2>2
  <2> QED BY <1>7, <2>1, <2>2, <2>3, <2>4
<1>11. ASSUME NEW p \in DOMAIN mpd, p # at + 1
       PROVE  mpd[p] \in {a, c} \cup ToSet(content)
  <2>1. p \in 1 .. n + 2 /\ \A i \in 1 .. n : content[i] \in ToSet(content)
    BY <1>7, SequenceOf DEF n
  <2>2. CASE p \in 1 .. at - 1
    <3>1. p \in 1 .. n /\ mpd[p] = content[p]
      BY <1>1, <1>2, <1>6, <2>2
    <3> QED BY <2>1, <3>1
  <2>3. CASE p = at \/ p = at + 2
    BY <1>8, <2>3
  <2>4. CASE p \notin 1 .. at - 1 /\ p # at /\ p # at + 2
    <3> DEFINE i == p - at - 2
    <3>1. i \in 1 .. n - at /\ (at - 1) + 3 + i = p /\ at + i \in 1 .. n
      BY <1>1, <1>11, <2>1, <2>4
    <3> HIDE DEF i
    <3>2. mpd[p] = content[at + i]
      BY <1>3, <1>6, <3>1
    <3> QED BY <2>1, <3>1, <3>2
  <2> QED BY <2>2, <2>3, <2>4
<1> QED BY <1>8, <1>9, <1>10, <1>11 DEF u, v, w, n, mpd, Around

(* Each Representation of a split Period has its own half of its template.   *)
LEMMA OwnTemplate ==
  ASSUME NEW set \in AdaptationSets, NEW j \in 1 .. Len(set.reps), NEW half
  PROVE  /\ Len(set.reps) \in Nat /\ DOMAIN set.reps = 1 .. Len(set.reps)
         /\ [set.reps[j] EXCEPT !.tpl = half].tpl = half
         /\ EffectiveSegmentTemplate(set.reps[j], set) \in Templates \cup {NoTemplate}
<1>1. set.reps \in Seq(Representations) /\ set.tpl \in Templates \cup {NoTemplate}
  BY DEF AdaptationSets
<1>2. Len(set.reps) \in Nat /\ DOMAIN set.reps = 1 .. Len(set.reps) /\ set.reps[j] \in Representations
  BY <1>1, LenProperties, ElementOfSeq
<1>3. ASSUME NEW rep \in Representations
      PROVE  [rep EXCEPT !.tpl = half].tpl = half /\ rep.tpl \in Templates \cup {NoTemplate}
  BY DEF Representations
<1> QED BY <1>1, <1>2, <1>3 DEF EffectiveSegmentTemplate

LEMMA SplitKeepsSegments ==
  ASSUME NEW period, period.sets \in Seq(AdaptationSets), NEW from, NEW to,
         SplitAdaptationSets(period.sets, from, to).ok, NEW ij \in Reps(period),
         NEW pre, pre.sets = SplitAdaptationSets(period.sets, from, to).before,
         NEW post, post.sets = SplitAdaptationSets(period.sets, from, to).after
  PROVE  SplitKeeps(Listed(TemplateOf(period, ij)), Listed(TemplateOf(pre, ij)),
                    Listed(TemplateOf(post, ij)))
<1> DEFINE sets == period.sets
           halves == SplitAdaptationSets(sets, from, to)
<1>1. PICK i \in DOMAIN sets : \E j \in DOMAIN sets[i].reps : ij = <<i, j>>
  BY DEF Reps
<1>2. PICK j \in DOMAIN sets[i].reps : ij = <<i, j>>
  BY <1>1
<1> DEFINE set == sets[i]
           rep == set.reps[j]
           tpl == EffectiveSegmentTemplate(rep, set)
<1>3. \A k \in DOMAIN sets : \A l \in DOMAIN sets[k].reps :
        Splittable(EffectiveSegmentTemplate(sets[k].reps[l], sets[k]), from, to)
  BY DEF SplitAdaptationSets
<1>4. Splittable(tpl, from, to)
  BY <1>3
<1>5. /\ halves.before[i] = WithTemplates(set, LAMBDA t : BeforeTemplate(t, from, to))
      /\ halves.after[i] = WithTemplates(set, LAMBDA t : AfterTemplate(t, from, to))
  BY <1>3 DEF SplitAdaptationSets
<1>6. /\ halves.before[i].reps[j] = [rep EXCEPT !.tpl = BeforeTemplate(tpl, from, to)]
      /\ halves.after[i].reps[j] = [rep EXCEPT !.tpl = AfterTemplate(tpl, from, to)]
      /\ halves.before[i].tpl = NoTemplate /\ halves.after[i].tpl = NoTemplate
  BY <1>5 DEF WithTemplates, AdaptationSet
<1>7. set \in AdaptationSets /\ j \in 1 .. Len(set.reps)
  <2>1. set \in AdaptationSets
    BY LenProperties, ElementOfSeq
  <2>2. set.reps \in Seq(Representations)
    BY <2>1 DEF AdaptationSets
  <2> QED BY <2>1, <2>2, LenProperties
<1> HIDE DEF set
<1>8. tpl \in Templates \cup {NoTemplate}
      /\ \A half : [rep EXCEPT !.tpl = half].tpl = half
  BY <1>7, OwnTemplate
<1> HIDE DEF tpl, rep, halves
<1>9. tpl # NoTemplate
  BY <1>4 DEF Splittable, Timed
<1>10. TemplateOf(period, ij) = tpl
  BY <1>2 DEF TemplateOf, tpl, rep, set
<1>11. /\ TemplateOf(pre, ij) = BeforeTemplate(tpl, from, to)
       /\ TemplateOf(post, ij) = AfterTemplate(tpl, from, to)
  <2>1. /\ halves.before[i].reps[j].tpl = BeforeTemplate(tpl, from, to)
        /\ halves.after[i].reps[j].tpl = AfterTemplate(tpl, from, to)
    BY <1>6, <1>8
  <2>2. pre.sets = halves.before /\ post.sets = halves.after
    BY DEF halves
  <2>3. ij[1] = i /\ ij[2] = j
    BY <1>2
  <2>4. pre.sets[ij[1]] = halves.before[i] /\ post.sets[ij[1]] = halves.after[i]
    BY <2>2, <2>3
  <2>5. /\ TemplateOf(pre, ij) = EffectiveSegmentTemplate(halves.before[i].reps[j], halves.before[i])
        /\ TemplateOf(post, ij) = EffectiveSegmentTemplate(halves.after[i].reps[j], halves.after[i])
    BY <2>3, <2>4 DEF TemplateOf
  <2>6. halves.before[i].tpl = NoTemplate /\ halves.after[i].tpl = NoTemplate
    BY <1>6
  <2> QED BY <2>1, <2>5, <2>6 DEF EffectiveSegmentTemplate
<1>12. tpl \in Templates
  BY <1>8, <1>9
<1> QED BY <1>4, <1>10, <1>11, <1>12, HalvesKeep

LEMMA SpliceKeepsSegments ==
  ASSUME NEW content, IsMpd(content), NEW adMpd, NEW allow,
         DashSplice(content, adMpd, allow).error = "none"
  PROVE  LET mpd == DashSplice(content, adMpd, allow).mpd
         IN  \E at \in DOMAIN content :
               /\ SubSeq(mpd, 1, at - 1) = SubSeq(content, 1, at - 1)
               /\ SubSeq(mpd, at + 3, Len(mpd)) = SubSeq(content, at + 1, Len(content))
               /\ \A ij \in Reps(content[at]) :
                    SplitKeeps(Listed(TemplateOf(content[at], ij)),
                               Listed(TemplateOf(mpd[at], ij)), Listed(TemplateOf(mpd[at + 2], ij)))
<1> DEFINE mpd == DashSplice(content, adMpd, allow).mpd
<1> DEFINE at == PeriodOfCue(content, ExtractCues(content).cues[1])
           adSets == adMpd[1].sets
<1>1. at \in DOMAIN content /\ \E start, from, to : Splits(content, mpd, at, adSets, start, from, to)
  BY SpliceSplits
<1> HIDE DEF at, adSets
<1>2. PICK start, from, to : Splits(content, mpd, at, adSets, start, from, to)
  BY <1>1
<1> HIDE DEF mpd
<1> DEFINE halves == SplitAdaptationSets(content[at].sets, from, to)
           pre == Period(Append(content[at].id, "pre"), content[at].start, <<>>, halves.before)
           between == Period(Append(content[at].id, "ad"), FormatDuration(start + from), <<>>, adSets)
           post == Period(Append(content[at].id, "post"), FormatDuration(start + to), <<>>, halves.after)
<1>3. halves.ok /\ mpd = SubSeq(content, 1, at - 1) \o <<pre, between, post>>
                           \o SubSeq(content, at + 1, Len(content))
  BY <1>2 DEF Splits, SplitPeriod
<1>4. pre.sets = halves.before /\ post.sets = halves.after
  BY DEF Period
<1>5. content[at].sets \in Seq(AdaptationSets) /\ IsSequence(content)
  <2>1. IsSequence(content)
    BY DEF IsMpd
  <2>2. content[at] \in ToSet(content)
    BY <1>1 DEF ToSet
  <2> QED BY <2>1, <2>2 DEF IsMpd
<1> HIDE DEF pre, between, post
<1>6. /\ SubSeq(mpd, 1, at - 1) = SubSeq(content, 1, at - 1)
      /\ SubSeq(mpd, at + 3, Len(mpd)) = SubSeq(content, at + 1, Len(content))
      /\ mpd[at] = pre /\ mpd[at + 2] = post
  <2>1. Around(SubSeq(content, 1, at - 1) \o <<pre, between, post>>
                   \o SubSeq(content, at + 1, Len(content)), content, at, pre, between, post)
    BY <1>1, <1>5, AroundReplaced
  <2>2. Around(mpd, content, at, pre, between, post)
    BY <1>3, <2>1
  <2> QED BY <2>2 DEF Around
<1>7. ASSUME NEW ij \in Reps(content[at])
      PROVE  SplitKeeps(Listed(TemplateOf(content[at], ij)),
                        Listed(TemplateOf(mpd[at], ij)), Listed(TemplateOf(mpd[at + 2], ij)))
  BY <1>3, <1>4, <1>5, <1>6, SplitKeepsSegments
<1> QED BY <1>1, <1>6, <1>7 DEF mpd

----------------------------------------------------------------------------
(* Where the ad, the spliced manifest and the written one come from.         *)
Prepared ==
  IF FromVast THEN IF Dashing THEN EncodeDASH(creative) ELSE EncodedPlaylist(creative)
              ELSE IF Dashing THEN input.ad.list ELSE ParsePlaylist(input.ad.list).playlist

AdIsPrepared ==
  /\ stage \in {"resolve", "encode"} => FromVast
  /\ stage = "encode" => creative \in MediaFiles
  /\ stage \in {"splice", "copy", "done"} /\ Stitches =>
       ad = Prepared /\ (FromVast => creative \in MediaFiles)

DashResult == DashSplice(Content, PrefixMediaPaths(ad), FromVast)
HlsResult == HlsSplice(Content, ad)

IsSpliced ==
  stage \in {"copy", "done"} /\ Stitches =>
    IF Dashing THEN DashResult.error = "none" /\ spliced = DashResult.mpd
               ELSE HlsResult.error = "none" /\ spliced = HlsResult.playlist

IsWritten ==
  stage = "done" /\ Stitches => manifest = Output

Origins == AdIsPrepared /\ IsSpliced /\ IsWritten

LEMMA OriginsKept ==
  ASSUME UNCHANGED <<input, creative, ad, spliced>>
  PROVE  /\ Prepared' = Prepared /\ DashResult' = DashResult /\ HlsResult' = HlsResult
         /\ Dashing' = Dashing /\ FromVast' = FromVast /\ Stitches' = Stitches
BY DEF Prepared, DashResult, HlsResult, Dashing, FromVast, Stitches, Content, HlsSplice, Options

LEMMA SelectOffered ==
  ASSUME MediaAreOffered, Select
  PROVE  creative' \in MediaFiles
<1>1. SelectMediaFile(fetched.media) \in Offered
  <2>1. PICK best \in [0 .. Len(fetched.media) -> Offered] :
          SelectMediaFile(fetched.media) = best[Len(fetched.media)]
    BY SelectSteps DEF MediaAreOffered
  <2>2. Len(fetched.media) \in 0 .. Len(fetched.media)
    BY LenProperties DEF MediaAreOffered
  <2> QED BY <2>1, <2>2
<1> QED BY <1>1 DEF Select, Offered

LEMMA PrepareKeeps ==
  ASSUME IInv, Origins, MediaAreOffered, Begin \/ Load \/ Ask \/ Select \/ Encode \/ Fail
  PROVE  Origins'
<1> USE DEF Origins, AdIsPrepared, IsSpliced, IsWritten, IInv, StageFollowsCommand
<1>1. CASE Begin
  BY <1>1 DEF Begin
<1>2. CASE Load
  <2>1. UNCHANGED <<input, creative>> /\ stage' \in {"resolve", "splice"}
        /\ (stage' = "resolve" => FromVast)
        /\ (stage' = "splice" => ~FromVast /\ ad' = IF Dashing THEN input.ad.list
                                                    ELSE ParsePlaylist(input.ad.list).playlist)
    BY <1>2 DEF Load
  <2>2. Dashing' = Dashing /\ FromVast' = FromVast
    BY <2>1 DEF Dashing, FromVast
  <2>3. stage' = "splice" => ad' = Prepared'
    BY <2>1, <2>2 DEF Prepared
  <2> QED BY <2>1, <2>2, <2>3
<1>3. CASE Ask
  BY <1>3 DEF Ask, cmdVars, FromVast
<1>4. CASE Select
  <2>1. stage = "resolve" /\ stage' = "encode" /\ input' = input
    BY <1>4 DEF Select
  <2>2. creative' \in MediaFiles /\ FromVast'
    BY <1>4, <2>1, SelectOffered DEF FromVast
  <2> QED BY <2>1, <2>2
<1>5. CASE Encode
  <2>1. /\ stage = "encode" /\ stage' = "splice" /\ UNCHANGED <<input, creative>>
        /\ ad' = IF Dashing THEN EncodeDASH(creative) ELSE EncodedPlaylist(creative)
    BY <1>5 DEF Encode
  <2>2. FromVast /\ Dashing' = Dashing /\ FromVast' = FromVast
    BY <2>1 DEF Dashing, FromVast
  <2>3. ad' = Prepared'
    BY <2>1, <2>2 DEF Prepared
  <2> QED BY <2>1, <2>2, <2>3
<1>6. CASE Fail
  BY <1>6 DEF Fail
<1> QED BY <1>1, <1>2, <1>3, <1>4, <1>5, <1>6

LEMMA SpliceKeeps ==
  ASSUME IInv, Origins, SpliceDash \/ SpliceHls
  PROVE  Origins'
<1>1. stage = "splice" /\ stage' = "copy" /\ UNCHANGED <<input, creative, ad>> /\ Stitches
  BY DEF SpliceDash, SpliceHls, IInv, StageFollowsCommand
<1>2. Prepared' = Prepared /\ Dashing' = Dashing /\ FromVast' = FromVast /\ Stitches' = Stitches
  BY <1>1 DEF Prepared, Dashing, FromVast, Stitches
<1>3. DashResult' = DashResult /\ HlsResult' = HlsResult
  BY <1>1 DEF DashResult, HlsResult, Content, Dashing, FromVast, HlsSplice, Options
<1>4. IF Dashing THEN DashResult.error = "none" /\ spliced' = DashResult.mpd
                 ELSE HlsResult.error = "none" /\ spliced' = HlsResult.playlist
  BY DEF SpliceDash, SpliceHls, DashResult, HlsResult
<1> QED BY <1>1, <1>2, <1>3, <1>4 DEF Origins, AdIsPrepared, IsSpliced, IsWritten

LEMMA OriginsStep ==
  ASSUME IInv, Origins, MediaAreOffered, [Next]_vars
  PROVE  Origins'
<1>1. CASE Begin \/ Load \/ Ask \/ Select \/ Encode \/ Fail
  BY <1>1, PrepareKeeps
<1>2. CASE SpliceDash \/ SpliceHls
  BY <1>2, SpliceKeeps
<1>3. CASE CopyFile \/ WriteManifest
  <2>1. /\ UNCHANGED <<input, creative, ad, spliced>> /\ stage = "copy" /\ stage' \in {"copy", "done"}
        /\ stage' = "done" => manifest' = Output
    BY <1>3 DEF CopyFile, WriteManifest
  <2> QED BY <2>1, OriginsKept DEF Origins, AdIsPrepared, IsSpliced, IsWritten, Output
<1>4. CASE CopyFails \/ WriteFails
  BY <1>4 DEF CopyFails, WriteFails, Origins, AdIsPrepared, IsSpliced, IsWritten
<1>5. CASE RunSCTE35Command
  BY <1>5 DEF RunSCTE35Command, IInv, StageFollowsCommand, Stitches, Origins, AdIsPrepared,
              IsSpliced, IsWritten
<1>6. CASE UNCHANGED vars
  <2>1. UNCHANGED <<stage, input, creative, ad, spliced, manifest>>
    BY <1>6 DEF vars, cmdVars
  <2> QED BY <2>1, OriginsKept DEF Origins, AdIsPrepared, IsSpliced, IsWritten, Output
<1> QED BY <1>1, <1>2, <1>3, <1>4, <1>5, <1>6 DEF Next

LEMMA OriginsInvariant == Spec => []Origins
<1>1. Init => Origins
  BY DEF Init, Origins, AdIsPrepared, IsSpliced, IsWritten
<1>2. IInv /\ Origins /\ MediaAreOffered /\ [Next]_vars => Origins'
  BY OriginsStep
<1>3. Spec => []MediaAreOffered
  BY CommandsImplementVast, MediaComeFromAds, PTL
<1> QED BY <1>1, <1>2, <1>3, Invariant, PTL DEF Spec

LEMMA DashContent ==
  ASSUME InputGiven, Dashing
  PROVE  IsDashInput(input) /\ Content = input.content /\ IsMpd(Content)
BY CommandsAssumption DEF Content, Dashing, InputGiven, NoInput, IsDashInput

(* dash-stitch takes nothing out of the content but one run of segments of   *)
(* each Representation of one Period: of every other segment, the number of  *)
(* its file and its duration are as they were, whatever runs its timeline    *)
(* was written in before and after, and every other Period is as it was      *)
(* (timeline.go:79-121, dashsplice.go:126-169).                              *)
THEOREM BreakIsAllThatGoes == Spec => []ContentOutsideBreakKept
<1>1. IInv /\ Origins => ContentOutsideBreakKept
  <2> SUFFICES ASSUME IInv, Origins, DashDone
               PROVE  SegmentsKept
    BY DEF ContentOutsideBreakKept
  <2>1. Dashing /\ DashResult.error = "none" /\ spliced = DashResult.mpd
    BY DEF Origins, IsSpliced, DashDone, Stitches, Dashing
  <2> DEFINE c == Content
             a == PrefixMediaPaths(ad)
  <2>2. IsMpd(c) /\ DashSplice(c, a, FromVast).error = "none" /\ spliced = DashSplice(c, a, FromVast).mpd
    BY <2>1, DashContent DEF IInv, DashResult
  <2> HIDE DEF c, a
  <2>3. \E at \in DOMAIN c :
          /\ SubSeq(spliced, 1, at - 1) = SubSeq(c, 1, at - 1)
          /\ SubSeq(spliced, at + 3, Len(spliced)) = SubSeq(c, at + 1, Len(c))
          /\ \A ij \in Reps(c[at]) :
               SplitKeeps(Listed(TemplateOf(c[at], ij)),
                          Listed(TemplateOf(spliced[at], ij)), Listed(TemplateOf(spliced[at + 2], ij)))
    BY <2>2, SpliceKeepsSegments
  <2> QED BY <2>3 DEF c, SegmentsKept
<1> QED BY <1>1, Invariant, OriginsInvariant, PTL

----------------------------------------------------------------------------
(* What manifest.Parse makes of what manifest.Write wrote.                   *)
(* A playlist as it is while it is parsed, its texts and URIs of a set W; a  *)
(* number that was garbled never gets into it.                               *)
Number == Int \ {Garbage}
Pendings == [dur : Int, disc : BOOLEAN, out : BOOLEAN, cue : Int, in : BOOLEAN]
MediaSegments(W) ==
  [uri : W, dur : Number, disc : BOOLEAN, out : BOOLEAN, cue : Int, in : BOOLEAN]
Playlists(W) ==
  [version : Number, target : Number, sequence : Number, type : W \cup {""}, endList : BOOLEAN,
   segments : Seq(MediaSegments(W))]
Scans(W) == [error : BOOLEAN, pending : Pendings, playlist : Playlists(W)]
LinesOf(W) == {l \in [tag : W, value : W] : l.tag \in NumberTags => l.value \in Int}

Vocabulary ==
  Int \cup {"EXTM3U", "VERSION", "TARGETDURATION", "MEDIASEQUENCE", "PLAYLIST-TYPE", "ENDLIST",
            "DISCONTINUITY", "CUE-IN", "CUE-OUT", "EXTINF", "URI"}

LEMMA NumericIs ==
  /\ DOMAIN Numeric = {"VERSION", "TARGETDURATION", "MEDIASEQUENCE"}
  /\ Numeric["VERSION"] = "version" /\ Numeric["TARGETDURATION"] = "target"
  /\ Numeric["MEDIASEQUENCE"] = "sequence"
BY DEF Numeric

LEMMA NumberRead ==
  ASSUME NEW W, NEW p \in Playlists(W), NEW tag \in DOMAIN Numeric, NEW v \in Number
  PROVE  [p EXCEPT ![Numeric[tag]] = v] \in Playlists(W)
<1>1. CASE tag = "VERSION"
  <2>1. [p EXCEPT !["version"] = v] \in Playlists(W)
    BY DEF Playlists
  <2> QED BY <1>1, <2>1, NumericIs
<1>2. CASE tag = "TARGETDURATION"
  <2>1. [p EXCEPT !["target"] = v] \in Playlists(W)
    BY DEF Playlists
  <2> QED BY <1>2, <2>1, NumericIs
<1>3. CASE tag = "MEDIASEQUENCE"
  <2>1. [p EXCEPT !["sequence"] = v] \in Playlists(W)
    BY DEF Playlists
  <2> QED BY <1>3, <2>1, NumericIs
<1> QED BY <1>1, <1>2, <1>3, NumericIs

LEMMA ScanFields ==
  ASSUME NEW W, NEW s \in Scans(W)
  PROVE  /\ s.error \in BOOLEAN /\ s.pending \in Pendings /\ s.playlist \in Playlists(W)
         /\ [s EXCEPT !.error = TRUE] \in Scans(W)
         /\ \A p \in Pendings : [s EXCEPT !.pending = p] \in Scans(W)
         /\ \A p \in Playlists(W) : [s EXCEPT !.playlist = p] \in Scans(W)
         /\ \A p \in Pendings, q \in Playlists(W) :
              [s EXCEPT !.pending = p, !.playlist = q] \in Scans(W)
BY DEF Scans

LEMMA PendingFields ==
  ASSUME NEW p \in Pendings
  PROVE  /\ p.dur \in Int /\ p.disc \in BOOLEAN /\ p.out \in BOOLEAN /\ p.cue \in Int
         /\ p.in \in BOOLEAN
         /\ [p EXCEPT !.disc = TRUE] \in Pendings /\ [p EXCEPT !.in = TRUE] \in Pendings
         /\ \A v \in Int : /\ [p EXCEPT !.dur = v] \in Pendings
                           /\ CuedOut(p, v) \in Pendings
BY DEF Pendings, CuedOut

LEMMA PlaylistFields ==
  ASSUME NEW W, NEW p \in Playlists(W)
  PROVE  /\ p.segments \in Seq(MediaSegments(W))
         /\ [p EXCEPT !.endList = TRUE] \in Playlists(W)
         /\ \A v \in W : [p EXCEPT !.type = v] \in Playlists(W)
         /\ \A s \in Seq(MediaSegments(W)) : [p EXCEPT !.segments = s] \in Playlists(W)
BY DEF Playlists

LEMMA ParseTagTyped ==
  ASSUME NEW W, NEW s \in Scans(W), NEW l \in LinesOf(W)
  PROVE  ParseTag(s, l) \in Scans(W)
<1>1. /\ l.value \in W
      /\ l.tag \in DOMAIN Numeric \cup {"EXTINF", "CUE-OUT"} => l.value \in Int
  BY DEF LinesOf, NumberTags
<1>2. s.pending \in Pendings /\ s.playlist \in Playlists(W)
  BY ScanFields
<1>3. CASE l.tag \in DOMAIN Numeric
  <2>1. [s.playlist EXCEPT ![Numeric[l.tag]] = l.value] \in Playlists(W) \/ l.value = Garbage
    BY <1>1, <1>2, <1>3, NumberRead DEF Number
  <2> DEFINE q == [s.playlist EXCEPT ![Numeric[l.tag]] = l.value]
  <2>2. ParseTag(s, l) = IF l.value = Garbage THEN [s EXCEPT !.error = TRUE] ELSE [s EXCEPT !.playlist = q]
    BY <1>3, NumericIs DEF ParseTag
  <2> HIDE DEF q
  <2> QED BY <2>1, <2>2, ScanFields DEF q
<1>4. CASE l.tag = "PLAYLIST-TYPE"
  <2> DEFINE q == [s.playlist EXCEPT !.type = l.value]
  <2>1. ParseTag(s, l) = [s EXCEPT !.playlist = q]
    BY <1>4, NumericIs DEF ParseTag
  <2>2. q \in Playlists(W)
    BY <1>1, <1>2, PlaylistFields
  <2> HIDE DEF q
  <2> QED BY <2>1, <2>2, ScanFields
<1>5. CASE l.tag = "ENDLIST"
  <2> DEFINE q == [s.playlist EXCEPT !.endList = TRUE]
  <2>1. ParseTag(s, l) = [s EXCEPT !.playlist = q]
    BY <1>5, NumericIs DEF ParseTag
  <2>2. q \in Playlists(W)
    BY <1>1, <1>2, PlaylistFields
  <2> HIDE DEF q
  <2> QED BY <2>1, <2>2, ScanFields
<1>6. CASE l.tag = "DISCONTINUITY"
  <2> DEFINE q == [s.pending EXCEPT !.disc = TRUE]
  <2>1. ParseTag(s, l) = [s EXCEPT !.pending = q]
    BY <1>6, NumericIs DEF ParseTag
  <2>2. q \in Pendings
    BY <1>1, <1>2, PendingFields
  <2> HIDE DEF q
  <2> QED BY <2>1, <2>2, ScanFields
<1>7. CASE l.tag = "CUE-IN"
  <2> DEFINE q == [s.pending EXCEPT !.in = TRUE]
  <2>1. ParseTag(s, l) = [s EXCEPT !.pending = q]
    BY <1>7, NumericIs DEF ParseTag
  <2>2. q \in Pendings
    BY <1>1, <1>2, PendingFields
  <2> HIDE DEF q
  <2> QED BY <2>1, <2>2, ScanFields
<1>8. CASE l.tag = "CUE-OUT"
  <2> DEFINE q == CuedOut(s.pending, l.value)
  <2>1. ParseTag(s, l) = [s EXCEPT !.pending = q]
    BY <1>8, NumericIs DEF ParseTag
  <2>2. q \in Pendings
    BY <1>1, <1>2, <1>8, PendingFields
  <2> HIDE DEF q
  <2> QED BY <2>1, <2>2, ScanFields
<1>9. CASE l.tag = "EXTINF"
  <2> DEFINE q == [s.pending EXCEPT !.dur = l.value]
  <2>1. ParseTag(s, l) = IF l.value = Garbage THEN [s EXCEPT !.error = TRUE] ELSE [s EXCEPT !.pending = q]
    BY <1>9, NumericIs DEF ParseTag
  <2>2. q \in Pendings
    BY <1>1, <1>2, <1>9, PendingFields
  <2> HIDE DEF q
  <2> QED BY <2>1, <2>2, ScanFields
<1>10. CASE l.tag = "STREAM-INF"
  <2>1. ParseTag(s, l) = [s EXCEPT !.error = TRUE]
    BY <1>10, NumericIs DEF ParseTag
  <2> QED BY <2>1, ScanFields
<1>11. CASE l.tag \notin DOMAIN Numeric \cup {"PLAYLIST-TYPE", "ENDLIST", "DISCONTINUITY",
                                            "CUE-IN", "CUE-OUT", "EXTINF", "STREAM-INF"}
  BY <1>11 DEF ParseTag
<1> QED BY <1>3, <1>4, <1>5, <1>6, <1>7, <1>8, <1>9, <1>10, <1>11

LEMMA ParseLineTyped ==
  ASSUME NEW W, NEW s \in Scans(W), NEW l \in LinesOf(W)
  PROVE  ParseLine(s, l) \in Scans(W)
<1>1. s.error \in BOOLEAN /\ s.pending \in Pendings /\ s.playlist \in Playlists(W) /\ l.value \in W
  BY ScanFields DEF LinesOf
<1>2. CASE s.error
  BY <1>2 DEF ParseLine
<1>3. CASE ~s.error /\ l.tag # "URI"
  BY <1>3, ParseTagTyped DEF ParseLine
<1>4. CASE ~s.error /\ l.tag = "URI"
  <2> DEFINE p == s.pending
             seg == Segment(l.value, p.dur, p.disc, p.out, p.cue, p.in)
  <2>1. ParseLine(s, l) = ParseUri(s, l.value)
    BY <1>4 DEF ParseLine
  <2>2. CASE p.dur = Garbage
    BY <2>1, <2>2, ScanFields DEF ParseUri
  <2>3. CASE p.dur # Garbage
    <3>1. seg \in MediaSegments(W)
      BY <1>1, <2>3, PendingFields DEF Segment, MediaSegments, Number
    <3>2. Append(s.playlist.segments, seg) \in Seq(MediaSegments(W))
      <4>1. s.playlist.segments \in Seq(MediaSegments(W))
        BY <1>1, PlaylistFields
      <4> HIDE DEF seg
      <4> QED BY <3>1, <4>1, AppendProperties
    <3>3. NothingPending \in Pendings
      BY DEF NothingPending, Pendings, Garbage
    <3>4. ParseUri(s, l.value)
            = [error |-> FALSE, pending |-> NothingPending,
               playlist |-> [s.playlist EXCEPT !.segments = Append(@, seg)]]
      BY <2>3 DEF ParseUri
    <3> HIDE DEF seg
    <3> DEFINE q == [s.playlist EXCEPT !.segments = Append(@, seg)]
    <3>5. q \in Playlists(W)
      BY <1>1, <3>2, PlaylistFields
    <3>6. ParseUri(s, l.value) = [error |-> FALSE, pending |-> NothingPending, playlist |-> q]
      BY <3>4
    <3> HIDE DEF q
    <3> QED BY <2>1, <3>3, <3>5, <3>6 DEF Scans
  <2> QED BY <2>2, <2>3
<1> QED BY <1>1, <1>2, <1>3, <1>4

(* Parse goes over the lines from the first to the last.                      *)
LEMMA ParseSteps ==
  ASSUME NEW W, NEW start \in Scans(W), NEW lines \in Seq(LinesOf(W))
  PROVE  \E f \in [0 .. Len(lines) -> Scans(W)] :
           /\ f[0] = start /\ ParseLines(start, lines) = f[Len(lines)]
           /\ \A k \in 1 .. Len(lines) : f[k] = ParseLine(f[k - 1], lines[k])
<1> DEFINE n == Len(lines)
           V == Scans(W)
           One(x, k) == ParseLine(x, lines[k])
           Steps(f) == [k \in 0 .. n |-> IF k = 0 THEN start ELSE One(f[k - 1], k)]
           chosen == CHOOSE f : f = Steps(f)
<1>1. n \in Nat /\ \A k \in 1 .. n : lines[k] \in LinesOf(W)
  BY LenProperties, ElementOfSeq
<1>2. ParseLines(start, lines) = chosen[n]
  BY DEF ParseLines
<1>3. start \in V
  OBVIOUS
<1>4. \A k \in 1 .. n, x \in V : One(x, k) \in V
  BY <1>1, ParseLineTyped
<1>5. PICK next \in [1 .. n -> [V -> V]] :
        \A k \in 1 .. n, x \in V : next[k][x] = One(x, k)
  <2> DEFINE all == [k \in 1 .. n |-> [x \in V |-> One(x, k)]]
  <2>1. \A k \in 1 .. n, x \in V : all[k][x] = One(x, k)
    OBVIOUS
  <2> HIDE DEF One, V
  <2>2. all \in [1 .. n -> [V -> V]]
    BY <1>4
  <2> QED BY <2>1, <2>2
<1> HIDE DEF One, V
<1>6. PICK f : Iterates(f, V, start, n, next)
  BY <1>1, <1>3, StepsExist
<1>7. \A k \in 1 .. n : k # 0 /\ k \in 0 .. n /\ k - 1 \in 0 .. n
  BY <1>1
<1>8. \A k \in 1 .. n : f[k] = One(f[k - 1], k)
  BY <1>5, <1>6, <1>7 DEF Iterates
<1>9. f = Steps(f)
  <2>1. f \in [0 .. n -> V] /\ f[0] = start
    BY <1>6 DEF Iterates
  <2>2. \A k \in 0 .. n : f[k] = Steps(f)[k]
    BY <1>1, <1>8, <2>1
  <2> QED BY <2>1, <2>2
<1>10. chosen = Steps(chosen)
  BY <1>9
<1> HIDE DEF chosen
<1>11. chosen[0] = start /\ \A k \in 1 .. n : chosen[k] = One(chosen[k - 1], k)
  <2>1. \A k \in 0 .. n : chosen[k] = Steps(chosen)[k]
    BY <1>10
  <2> QED BY <1>1, <1>7, <2>1
<1>12. chosen \in [0 .. n -> V]
  <2>1. \A k \in 1 .. n : chosen[k - 1] \in V => chosen[k] = next[k][chosen[k - 1]]
    BY <1>5, <1>11
  <2>2. \A k \in 0 .. n : chosen[k] \in V
    BY <1>1, <1>3, <1>6, <1>11, <2>1, StepsAgree
  <2> QED BY <1>10, <2>2
<1> QED BY <1>2, <1>11, <1>12 DEF One, V

(* A run of the scan over lines, as ParseSteps has it.                       *)
Parses(f, W, start, lines) ==
  /\ f \in [0 .. Len(lines) -> Scans(W)] /\ f[0] = start
  /\ ParseLines(start, lines) = f[Len(lines)]
  /\ \A k \in 1 .. Len(lines) : f[k] = ParseLine(f[k - 1], lines[k])

LEMMA ParseRuns ==
  ASSUME NEW W, NEW start \in Scans(W), NEW lines \in Seq(LinesOf(W))
  PROVE  /\ \E f : Parses(f, W, start, lines)
         /\ ParseLines(start, lines) \in Scans(W)
<1>1. PICK f \in [0 .. Len(lines) -> Scans(W)] :
        /\ f[0] = start /\ ParseLines(start, lines) = f[Len(lines)]
        /\ \A k \in 1 .. Len(lines) : f[k] = ParseLine(f[k - 1], lines[k])
  BY ParseSteps
<1>2. Len(lines) \in 0 .. Len(lines)
  BY LenProperties
<1> QED BY <1>1, <1>2 DEF Parses

(* Lines are parsed one after the other, whatever they are written with.     *)
LEMMA ParseConcat ==
  ASSUME NEW W, NEW start \in Scans(W), NEW a \in Seq(LinesOf(W)), NEW b \in Seq(LinesOf(W))
  PROVE  ParseLines(start, a \o b) = ParseLines(ParseLines(start, a), b)
<1> DEFINE m == Len(a)
           n == Len(b)
           ab == a \o b
           mid == ParseLines(start, a)
<1>1. /\ ab \in Seq(LinesOf(W)) /\ Len(ab) = m + n /\ m \in Nat /\ n \in Nat
      /\ \A i \in 1 .. m : ab[i] = a[i]
      /\ \A i \in 1 .. n : ab[m + i] = b[i]
  <2> HIDE DEF ab
  <2> QED BY ConcatElements DEF ab
<1>2. PICK f : Parses(f, W, start, a)
  BY ParseRuns
<1>3. mid \in Scans(W)
  BY ParseRuns
<1> HIDE DEF ab, mid
<1>4. PICK g : Parses(g, W, mid, b)
  BY <1>3, ParseRuns
<1>5. PICK h : Parses(h, W, start, ab)
  BY <1>1, ParseRuns
<1> HIDE DEF m, n
<1>6. \A k \in 1 .. m : k \in 1 .. m + n /\ h[k] = ParseLine(h[k - 1], a[k])
                         /\ f[k] = ParseLine(f[k - 1], a[k])
  BY <1>1, <1>2, <1>5 DEF Parses, m
<1>7. \A k \in 1 .. n : m + k \in 1 .. m + n /\ h[m + k] = ParseLine(h[m + k - 1], b[k])
                         /\ g[k] = ParseLine(g[k - 1], b[k])
  BY <1>1, <1>4, <1>5 DEF Parses, n
<1> DEFINE T == {k \in Nat : k <= m => h[k] = f[k]}
<1>8. T = Nat
  <2>1. 0 \in T
    BY <1>2, <1>5 DEF Parses
  <2>2. ASSUME NEW k \in T
        PROVE  k + 1 \in T
    <3> SUFFICES ASSUME k + 1 <= m
                 PROVE  h[k + 1] = f[k + 1]
      OBVIOUS
    <3>1. k + 1 \in 1 .. m /\ (k + 1) - 1 = k /\ k <= m
      BY <1>1
    <3>2. h[k] = f[k]
      BY <3>1
    <3> QED BY <1>6, <3>1, <3>2
  <2>3. T \subseteq Nat
    OBVIOUS
  <2> HIDE DEF T
  <2> QED BY <2>1, <2>2, <2>3, SetInduction
<1>9. h[m] = mid
  BY <1>1, <1>2, <1>8 DEF Parses, m, mid
<1> HIDE DEF T
<1> DEFINE U == {k \in Nat : k <= n => h[m + k] = g[k]}
<1>10. U = Nat
  <2>1. 0 \in U
    BY <1>1, <1>4, <1>9 DEF Parses
  <2>2. ASSUME NEW k \in U
        PROVE  k + 1 \in U
    <3> SUFFICES ASSUME k + 1 <= n
                 PROVE  h[m + (k + 1)] = g[k + 1]
      OBVIOUS
    <3>1. k + 1 \in 1 .. n /\ (k + 1) - 1 = k /\ k <= n /\ m + (k + 1) - 1 = m + k
      BY <1>1
    <3>2. h[m + k] = g[k]
      BY <3>1
    <3> QED BY <1>7, <3>1, <3>2
  <2>3. U \subseteq Nat
    OBVIOUS
  <2> HIDE DEF U
  <2> QED BY <2>1, <2>2, <2>3, SetInduction
<1>11. h[m + n] = g[n]
  BY <1>1, <1>10
<1> QED BY <1>1, <1>4, <1>5, <1>11 DEF Parses, n, ab, mid

LEMMA ParseOne ==
  ASSUME NEW W, NEW start \in Scans(W), NEW l \in LinesOf(W)
  PROVE  /\ ParseLines(start, <<l>>) = ParseLine(start, l) /\ ParseLines(start, <<>>) = start
         /\ <<l>> \in Seq(LinesOf(W)) /\ <<>> \in Seq(LinesOf(W))
<1>1. <<l>> \in Seq(LinesOf(W)) /\ Len(<<l>>) = 1 /\ <<l>>[1] = l
  OBVIOUS
<1>2. <<>> \in Seq(LinesOf(W)) /\ Len(<<>>) = 0
  OBVIOUS
<1>3. PICK f : Parses(f, W, start, <<l>>)
  BY <1>1, ParseRuns
<1>4. PICK g : Parses(g, W, start, <<>>)
  BY <1>2, ParseRuns
<1>5. f[1] = ParseLine(f[0], l) /\ f[0] = start /\ ParseLines(start, <<l>>) = f[1]
  <2>1. 1 \in 1 .. 1 /\ 1 - 1 = 0
    OBVIOUS
  <2> QED BY <1>1, <1>3, <2>1 DEF Parses
<1>6. ParseLines(start, <<>>) = start
  BY <1>2, <1>4 DEF Parses
<1> QED BY <1>1, <1>2, <1>5, <1>6
(* Where the parser is between lines that it accepted.                       *)
At(pending, playlist) == [error |-> FALSE, pending |-> pending, playlist |-> playlist]

LEMMA AtFields ==
  ASSUME NEW W, NEW q \in Pendings, NEW p \in Playlists(W)
  PROVE  At(q, p) \in Scans(W) /\ ~At(q, p).error /\ At(q, p).pending = q /\ At(q, p).playlist = p
BY DEF At, Scans

LEMMA InTag ==
  ASSUME NEW q, NEW p
  PROVE  ParseTag(At(q, p), Tag("CUE-IN")) = At([q EXCEPT !.in = TRUE], p)
BY NumericIs DEF At, ParseTag, Line, Tag

LEMMA DiscontinuityTag ==
  ASSUME NEW q, NEW p
  PROVE  ParseTag(At(q, p), Tag("DISCONTINUITY")) = At([q EXCEPT !.disc = TRUE], p)
BY NumericIs DEF At, ParseTag, Line, Tag

LEMMA NothingIsPending == NothingPending \in Pendings
BY DEF NothingPending, Pendings, Garbage

LEMMA AtReplaced ==
  ASSUME NEW W, NEW q \in Pendings, NEW p \in Playlists(W), NEW r \in Playlists(W)
  PROVE  [At(q, p) EXCEPT !.playlist = r] = At(q, r)
<1>1. ASSUME NEW x \in Scans(W)
      PROVE  [x EXCEPT !.playlist = r] = [error |-> x.error, pending |-> x.pending, playlist |-> r]
  BY DEF Scans
<1>2. At(q, p) \in Scans(W) /\ At(q, p).error = FALSE /\ At(q, p).pending = q
  BY AtFields DEF At
<1>3. [At(q, p) EXCEPT !.playlist = r]
        = [error |-> At(q, p).error, pending |-> At(q, p).pending, playlist |-> r]
  BY <1>1, <1>2
<1> QED BY <1>2, <1>3 DEF At

LEMMA NumericTag ==
  ASSUME NEW W, NEW q \in Pendings, NEW p \in Playlists(W), NEW v \in Number,
         NEW tag \in DOMAIN Numeric
  PROVE  ParseTag(At(q, p), Line(tag, v)) = At(q, [p EXCEPT ![Numeric[tag]] = v])
<1> DEFINE l == Line(tag, v)
           s == At(q, p)
           r == [p EXCEPT ![Numeric[tag]] = v]
<1>1. v # Garbage
  BY DEF Number
<1>2. l.tag = tag /\ l.value = v
  BY DEF Line
<1>3. s.playlist = p /\ ~s.error
  BY DEF At
<1>4. [s EXCEPT !.playlist = r] = At(q, r)
  BY AtReplaced, NumberRead
<1> HIDE DEF l, s
<1>5. ParseTag(s, l) = [s EXCEPT !.playlist = [s.playlist EXCEPT ![Numeric[tag]] = v]]
  BY <1>1, <1>2, NumericIs DEF ParseTag
<1>6. ParseTag(s, l) = [s EXCEPT !.playlist = r]
  BY <1>3, <1>5
<1> HIDE DEF r
<1>7. ParseTag(s, l) = At(q, r)
  BY <1>4, <1>6
<1> QED BY <1>7 DEF l, s, r

LEMMA LineIs ==
  ASSUME NEW W, NEW tag \in W, NEW v \in W, tag \in NumberTags => v \in Int
  PROVE  Line(tag, v) \in LinesOf(W)
<1>1. Line(tag, v) \in [tag : W, value : W]
  BY DEF Line
<1>2. Line(tag, v).tag = tag /\ Line(tag, v).value = v
  BY DEF Line
<1> QED BY <1>1, <1>2 DEF LinesOf

LEMMA TagsAreLines ==
  ASSUME NEW W, Vocabulary \subseteq W
  PROVE  /\ \A v \in Int : /\ Line("CUE-OUT", v) \in LinesOf(W) /\ Line("EXTINF", v) \in LinesOf(W)
                           /\ Line("VERSION", v) \in LinesOf(W)
                           /\ Line("TARGETDURATION", v) \in LinesOf(W)
                           /\ Line("MEDIASEQUENCE", v) \in LinesOf(W)
         /\ \A v \in W : Line("PLAYLIST-TYPE", v) \in LinesOf(W) /\ Line("URI", v) \in LinesOf(W)
         /\ Tag("CUE-IN") \in LinesOf(W) /\ Tag("DISCONTINUITY") \in LinesOf(W)
         /\ Tag("EXTM3U") \in LinesOf(W) /\ Tag("ENDLIST") \in LinesOf(W)
<1>1. NumberTags = {"VERSION", "TARGETDURATION", "MEDIASEQUENCE", "EXTINF", "CUE-OUT"}
  BY NumericIs DEF NumberTags
<1>9. /\ "CUE-OUT" \in W /\ "EXTINF" \in W /\ "VERSION" \in W
      /\ "TARGETDURATION" \in W /\ "MEDIASEQUENCE" \in W
      /\ "PLAYLIST-TYPE" \in W /\ "URI" \in W /\ "CUE-IN" \in W
      /\ "DISCONTINUITY" \in W /\ "EXTM3U" \in W /\ "ENDLIST" \in W
      /\ \A v \in Int : v \in W
  BY DEF Vocabulary
<1>2. Bare \in W
  BY <1>9 DEF Bare
<1>3. \A tag \in W, v \in Int : Line(tag, v) \in LinesOf(W)
  BY <1>9, LineIs
<1>4. \A tag \in W, v \in W : tag \notin NumberTags => Line(tag, v) \in LinesOf(W)
  BY LineIs
<1>5. ASSUME NEW v \in Int
      PROVE  /\ Line("CUE-OUT", v) \in LinesOf(W) /\ Line("EXTINF", v) \in LinesOf(W)
             /\ Line("VERSION", v) \in LinesOf(W)
             /\ Line("TARGETDURATION", v) \in LinesOf(W)
             /\ Line("MEDIASEQUENCE", v) \in LinesOf(W)
  BY <1>3, <1>9, Zenon
<1>6. /\ "PLAYLIST-TYPE" \notin NumberTags /\ "URI" \notin NumberTags /\ "CUE-IN" \notin NumberTags
      /\ "DISCONTINUITY" \notin NumberTags /\ "EXTM3U" \notin NumberTags /\ "ENDLIST" \notin NumberTags
  BY <1>1
<1>7. ASSUME NEW v \in W
      PROVE  Line("PLAYLIST-TYPE", v) \in LinesOf(W) /\ Line("URI", v) \in LinesOf(W)
  BY <1>4, <1>6, <1>9, Zenon
<1>8. /\ Tag("CUE-IN") \in LinesOf(W) /\ Tag("DISCONTINUITY") \in LinesOf(W)
      /\ Tag("EXTM3U") \in LinesOf(W) /\ Tag("ENDLIST") \in LinesOf(W)
  BY <1>2, <1>4, <1>6, <1>9, Zenon DEF Tag
<1> QED BY <1>5, <1>7, <1>8

(* A line of a tag goes to ParseTag, one of a URI to ParseUri.               *)
LEMMA LineIsTag ==
  ASSUME NEW q, NEW p, NEW tag, tag # "URI", NEW v
  PROVE  ParseLine(At(q, p), Line(tag, v)) = ParseTag(At(q, p), Line(tag, v))
BY DEF ParseLine, At, Line

Announces(q, u) == Segment(u, q.dur, q.disc, q.out, q.cue, q.in)

LEMMA LineIsUri ==
  ASSUME NEW q, NEW p, NEW u, q.dur # Garbage
  PROVE  ParseLine(At(q, p), Line("URI", u))
           = At(NothingPending, [p EXCEPT !.segments = Append(@, Announces(q, u))])
BY DEF ParseLine, ParseUri, At, Line, Announces

LEMMA WhenParsed ==
  ASSUME NEW W, NEW q \in Pendings, NEW r \in Pendings, NEW p \in Playlists(W),
         NEW b \in BOOLEAN, NEW l \in LinesOf(W), ParseLine(At(q, p), l) = At(r, p)
  PROVE  /\ When(b, l) \in Seq(LinesOf(W))
         /\ ParseLines(At(q, p), When(b, l)) = At(IF b THEN r ELSE q, p)
<1>1. At(q, p) \in Scans(W)
  BY AtFields
<1>2. CASE b
  BY <1>1, <1>2, ParseOne DEF When
<1>3. CASE ~b
  BY <1>1, <1>3, ParseOne DEF When
<1> QED BY <1>2, <1>3

(* A segment that has been written and read back: a CUE-OUT has kept its     *)
(* duration if it is positive, and only a CUE-OUT has one.                   *)
RereadCue(s) == IF s.out /\ s.cue > 0 THEN s.cue ELSE 0
Reread(s) == Segment(s.uri, s.dur, s.disc, s.out, RereadCue(s), s.in)

LEMMA SegmentFields ==
  ASSUME NEW W, NEW s \in MediaSegments(W)
  PROVE  /\ s.uri \in W /\ s.dur \in Number /\ s.disc \in BOOLEAN /\ s.out \in BOOLEAN
         /\ s.cue \in Int /\ s.in \in BOOLEAN /\ RereadCue(s) \in Int
         /\ Reread(s) \in MediaSegments(W)
<1>1. /\ s.uri \in W /\ s.dur \in Number /\ s.disc \in BOOLEAN /\ s.out \in BOOLEAN
      /\ s.cue \in Int /\ s.in \in BOOLEAN
  BY DEF MediaSegments
<1>2. RereadCue(s) \in Int
  BY <1>1 DEF RereadCue
<1> QED BY <1>1, <1>2 DEF Reread, Segment, MediaSegments

LEMMA CueOutRead ==
  ASSUME NEW x \in Pendings, NEW p, NEW v \in Int
  PROVE  LET y == CuedOut(x, v)
         IN  /\ y \in Pendings /\ y.cue = IF v < 0 THEN x.cue ELSE v
             /\ y.disc = x.disc /\ y.out = TRUE /\ y.in = x.in
             /\ ParseTag(At(x, p), Line("CUE-OUT", v)) = At(y, p)
<1>1. ParseTag(At(x, p), Line("CUE-OUT", v)) = At(CuedOut(x, v), p)
  BY NumericIs DEF ParseTag, Line, At
<1>2. LET y == CuedOut(x, v)
      IN  /\ y \in Pendings /\ y.cue = IF v < 0 THEN x.cue ELSE v
          /\ y.disc = x.disc /\ y.out = TRUE /\ y.in = x.in
  BY DEF Pendings, CuedOut
<1> QED BY <1>1, <1>2

LEMMA DurationRead ==
  ASSUME NEW x \in Pendings, NEW p, NEW d \in Int, d # Garbage
  PROVE  LET y == [x EXCEPT !.dur = d]
         IN  /\ y \in Pendings /\ y.dur = d /\ y.cue = x.cue
             /\ y.disc = x.disc /\ y.out = x.out /\ y.in = x.in
             /\ ParseTag(At(x, p), Line("EXTINF", d)) = At(y, p)
<1>1. ParseTag(At(x, p), Line("EXTINF", d)) = At([x EXCEPT !.dur = d], p)
  BY NumericIs DEF ParseTag, Line, At
<1>2. LET y == [x EXCEPT !.dur = d]
      IN  /\ y \in Pendings /\ y.dur = d /\ y.cue = x.cue
          /\ y.disc = x.disc /\ y.out = x.out /\ y.in = x.in
  BY DEF Pendings
<1> QED BY <1>1, <1>2

LEMMA PendingChanges ==
  ASSUME NEW x \in Pendings
  PROVE  /\ LET y == [x EXCEPT !.in = TRUE]
            IN  y.dur = x.dur /\ y.disc = x.disc /\ y.out = x.out /\ y.cue = x.cue /\ y.in = TRUE
         /\ LET y == [x EXCEPT !.disc = TRUE]
            IN  y.dur = x.dur /\ y.disc = TRUE /\ y.out = x.out /\ y.cue = x.cue /\ y.in = x.in
<1>1. LET y == [x EXCEPT !.in = TRUE]
      IN  y.dur = x.dur /\ y.disc = x.disc /\ y.out = x.out /\ y.cue = x.cue /\ y.in = TRUE
  BY DEF Pendings
<1>2. LET y == [x EXCEPT !.disc = TRUE]
      IN  y.dur = x.dur /\ y.disc = TRUE /\ y.out = x.out /\ y.cue = x.cue /\ y.in = x.in
  BY DEF Pendings
<1> QED BY <1>1, <1>2

LEMMA PairConcat ==
  ASSUME NEW T, NEW a \in T, NEW b \in T
  PROVE  <<a, b>> = <<a>> \o <<b>>
<1> DEFINE u == <<a>>
           v == <<b>>
           w == <<a, b>>
<1>1. u \in Seq(T) /\ v \in Seq(T) /\ Len(u) = 1 /\ Len(v) = 1 /\ u[1] = a /\ v[1] = b
  OBVIOUS
<1>2. w \in Seq(T) /\ Len(w) = 2 /\ w[1] = a /\ w[2] = b
  OBVIOUS
<1> HIDE DEF u, v, w
<1>3. /\ u \o v \in Seq(T) /\ Len(u \o v) = 2
      /\ (u \o v)[1] = a /\ (u \o v)[2] = b
  BY <1>1, ConcatElements
<1>4. \A i \in 1 .. 2 : w[i] = (u \o v)[i]
  <2>1. \A i \in 1 .. 2 : i = 1 \/ i = 2
    OBVIOUS
  <2> QED BY <1>2, <1>3, <2>1
<1>5. w = u \o v
  BY <1>2, <1>3, <1>4, SeqEqual
<1> QED BY <1>5 DEF u, v, w

(* The lines of a segment are read as it, with its cue as kept.              *)
LEMMA SegmentReread ==
  ASSUME NEW W, Vocabulary \subseteq W, NEW s \in MediaSegments(W), NEW p \in Playlists(W)
  PROVE  /\ WriteSegment(s) \in Seq(LinesOf(W))
         /\ ParseLines(At(NothingPending, p), WriteSegment(s))
              = At(NothingPending, [p EXCEPT !.segments = Append(@, Reread(s))])
<1> DEFINE v == IF s.cue > 0 THEN s.cue ELSE Bare
           q0 == NothingPending
           q1 == IF s.out THEN CuedOut(q0, v) ELSE q0
           q2 == IF s.in THEN [q1 EXCEPT !.in = TRUE] ELSE q1
           q3 == IF s.disc THEN [q2 EXCEPT !.disc = TRUE] ELSE q2
           q4 == [q3 EXCEPT !.dur = s.dur]
           l1 == When(s.out, Line("CUE-OUT", v))
           l2 == When(s.in, Tag("CUE-IN"))
           l3 == When(s.disc, Tag("DISCONTINUITY"))
           l4 == Line("EXTINF", s.dur)
           l5 == Line("URI", s.uri)
           read == [p EXCEPT !.segments = Append(@, Reread(s))]
<1>1. /\ s.uri \in W /\ s.dur \in Number /\ s.disc \in BOOLEAN /\ s.out \in BOOLEAN
      /\ s.cue \in Int /\ s.in \in BOOLEAN
  BY SegmentFields
<1>2. v \in Int /\ s.dur \in Int /\ s.dur # Garbage
  BY <1>1 DEF Bare, Number
<1>3. q0 \in Pendings /\ q0.disc = FALSE /\ q0.out = FALSE /\ q0.cue = 0 /\ q0.in = FALSE
  BY DEF NothingPending, Pendings, Garbage
<1>4. /\ Line("CUE-OUT", v) \in LinesOf(W) /\ Tag("CUE-IN") \in LinesOf(W)
      /\ Tag("DISCONTINUITY") \in LinesOf(W) /\ l4 \in LinesOf(W) /\ l5 \in LinesOf(W)
  BY <1>1, <1>2, TagsAreLines
<1> HIDE DEF q0, v
<1>5. /\ q1 \in Pendings /\ q1.cue = RereadCue(s)
      /\ q1.disc = FALSE /\ q1.out = s.out /\ q1.in = FALSE
  <2> DEFINE c == CuedOut(q0, v)
  <2>1. c \in Pendings /\ c.cue = IF v < 0 THEN 0 ELSE v
    BY <1>2, <1>3, CueOutRead
  <2>2. c.disc = FALSE /\ c.out = TRUE /\ c.in = FALSE
    BY <1>2, <1>3, CueOutRead, Zenon
  <2>3. RereadCue(s) = IF s.out THEN IF v < 0 THEN 0 ELSE v ELSE 0
    BY <1>1 DEF RereadCue, v, Bare
  <2> HIDE DEF c
  <2>4. q1 \in Pendings /\ q1.cue = RereadCue(s)
    BY <1>3, <2>1, <2>3 DEF c
  <2>5. q1.disc = FALSE /\ q1.out = s.out /\ q1.in = FALSE
    BY <1>1, <1>3, <2>2, Zenon DEF c
  <2> QED BY <2>4, <2>5
<1>6. /\ l1 \in Seq(LinesOf(W)) /\ ParseLines(At(q0, p), l1) = At(q1, p)
  <2>1. ParseTag(At(q0, p), Line("CUE-OUT", v)) = At(CuedOut(q0, v), p)
    BY <1>2, <1>3, CueOutRead, Zenon
  <2>2. ParseLine(At(q0, p), Line("CUE-OUT", v)) = ParseTag(At(q0, p), Line("CUE-OUT", v))
    BY LineIsTag
  <2>3. ParseLine(At(q0, p), Line("CUE-OUT", v)) = At(CuedOut(q0, v), p)
    BY <2>1, <2>2
  <2>4. CuedOut(q0, v) \in Pendings
    BY <1>2, <1>3, PendingFields
  <2> QED BY <1>1, <1>3, <1>4, <2>3, <2>4, WhenParsed
<1> HIDE DEF q1, l1
<1>7. /\ q2 \in Pendings /\ q2.cue = RereadCue(s)
      /\ q2.disc = FALSE /\ q2.out = s.out /\ q2.in = s.in
  <2> DEFINE c == [q1 EXCEPT !.in = TRUE]
  <2>1. c \in Pendings /\ c.cue = q1.cue
    BY <1>5, PendingFields, PendingChanges
  <2>2. c.disc = q1.disc /\ c.out = q1.out /\ c.in = TRUE
    BY <1>5, PendingChanges, Zenon
  <2> HIDE DEF c
  <2>3. q2 = IF s.in THEN c ELSE q1
    BY DEF c
  <2> HIDE DEF q2
  <2>4. q2 \in Pendings /\ q2.cue = RereadCue(s)
    BY <1>5, <2>1, <2>3
  <2>5. q2.disc = FALSE /\ q2.out = s.out /\ q2.in = s.in
    BY <1>1, <1>5, <2>2, <2>3, Zenon
  <2> QED BY <2>4, <2>5
<1>8. /\ l2 \in Seq(LinesOf(W)) /\ ParseLines(At(q1, p), l2) = At(q2, p)
  <2> DEFINE r == [q1 EXCEPT !.in = TRUE]
  <2>1. ParseTag(At(q1, p), Tag("CUE-IN")) = At(r, p)
    BY InTag, Zenon
  <2>2. ParseLine(At(q1, p), Tag("CUE-IN")) = ParseTag(At(q1, p), Tag("CUE-IN"))
    BY LineIsTag DEF Tag
  <2>3. r \in Pendings
    BY <1>5, PendingFields
  <2> HIDE DEF r
  <2>4. q2 = IF s.in THEN r ELSE q1
    BY DEF r
  <2> QED BY <1>1, <1>4, <1>5, <2>1, <2>2, <2>3, <2>4, WhenParsed
<1> HIDE DEF q2, l2
<1>9. /\ q3 \in Pendings /\ q3.cue = RereadCue(s)
      /\ q3.disc = s.disc /\ q3.out = s.out /\ q3.in = s.in
  <2> DEFINE c == [q2 EXCEPT !.disc = TRUE]
  <2>1. c \in Pendings /\ c.cue = q2.cue
    BY <1>7, PendingFields, PendingChanges
  <2>2. c.disc = TRUE /\ c.out = q2.out /\ c.in = q2.in
    BY <1>7, PendingChanges, Zenon
  <2> HIDE DEF c
  <2>3. q3 = IF s.disc THEN c ELSE q2
    BY DEF c
  <2> HIDE DEF q3
  <2>4. q3 \in Pendings /\ q3.cue = RereadCue(s)
    BY <1>7, <2>1, <2>3
  <2>5. q3.disc = s.disc /\ q3.out = s.out /\ q3.in = s.in
    BY <1>1, <1>7, <2>2, <2>3, Zenon
  <2> QED BY <2>4, <2>5
<1>10. /\ l3 \in Seq(LinesOf(W)) /\ ParseLines(At(q2, p), l3) = At(q3, p)
  <2> DEFINE r == [q2 EXCEPT !.disc = TRUE]
  <2>1. ParseTag(At(q2, p), Tag("DISCONTINUITY")) = At(r, p)
    BY DiscontinuityTag, Zenon
  <2>2. ParseLine(At(q2, p), Tag("DISCONTINUITY")) = ParseTag(At(q2, p), Tag("DISCONTINUITY"))
    BY LineIsTag DEF Tag
  <2>3. r \in Pendings
    BY <1>7, PendingFields
  <2> HIDE DEF r
  <2>4. q3 = IF s.disc THEN r ELSE q2
    BY DEF r
  <2> QED BY <1>1, <1>4, <1>7, <2>1, <2>2, <2>3, <2>4, WhenParsed
<1> HIDE DEF q3, l3
<1>11. q4 \in Pendings /\ Announces(q4, s.uri) = Reread(s) /\ q4.dur # Garbage
  <2>1. q4 \in Pendings /\ q4.dur = s.dur /\ q4.cue = RereadCue(s)
    BY <1>2, <1>9, DurationRead
  <2>2. q4.disc = s.disc /\ q4.out = s.out /\ q4.in = s.in
    BY <1>2, <1>9, DurationRead, Zenon
  <2> HIDE DEF q4
  <2>3. Announces(q4, s.uri) = Reread(s)
    BY <2>1, <2>2, Zenon DEF Announces, Reread
  <2> QED BY <1>2, <2>1, <2>3
<1>12. ParseLine(At(q3, p), l4) = At(q4, p)
  <2>2. ParseTag(At(q3, p), l4) = At(q4, p)
    BY <1>2, <1>9, DurationRead, Zenon
  <2>3. ParseLine(At(q3, p), l4) = ParseTag(At(q3, p), l4)
    BY LineIsTag
  <2> QED BY <2>2, <2>3
<1> HIDE DEF q4
<1>13. ParseLine(At(q4, p), l5) = At(q0, read)
  BY <1>11, LineIsUri DEF q0
<1>14. WriteSegment(s) = l1 \o l2 \o l3 \o <<l4, l5>>
  BY DEF WriteSegment, l1, l2, l3, v
<1> HIDE DEF l4, l5, read
<1>15. /\ At(q0, p) \in Scans(W) /\ At(q1, p) \in Scans(W) /\ At(q2, p) \in Scans(W)
       /\ At(q3, p) \in Scans(W) /\ At(q4, p) \in Scans(W)
  BY <1>3, <1>5, <1>7, <1>9, <1>11, AtFields
<1>16. /\ <<l4, l5>> \in Seq(LinesOf(W)) /\ ParseLines(At(q3, p), <<l4, l5>>) = At(q0, read)
  <2>1. /\ ParseLines(At(q3, p), <<l4>>) = At(q4, p)
        /\ <<l4>> \in Seq(LinesOf(W)) /\ <<l5>> \in Seq(LinesOf(W))
    BY <1>4, <1>12, <1>15, ParseOne
  <2>2. ParseLines(At(q4, p), <<l5>>) = At(q0, read)
    BY <1>4, <1>13, <1>15, ParseOne
  <2>3. ParseLines(At(q3, p), <<l4>> \o <<l5>>) = ParseLines(ParseLines(At(q3, p), <<l4>>), <<l5>>)
    <3> DEFINE a == <<l4>>
               b == <<l5>>
    <3>1. a \in Seq(LinesOf(W)) /\ b \in Seq(LinesOf(W))
      BY <2>1
    <3> HIDE DEF a, b
    <3>2. ParseLines(At(q3, p), a \o b) = ParseLines(ParseLines(At(q3, p), a), b)
      BY <1>15, <3>1, ParseConcat
    <3> QED BY <3>2 DEF a, b
  <2>4. <<l4, l5>> = <<l4>> \o <<l5>>
    BY <1>4, PairConcat
  <2>5. <<l4>> \o <<l5>> \in Seq(LinesOf(W))
    BY <2>1, ConcatProperties
  <2> QED BY <2>1, <2>2, <2>3, <2>4, <2>5
<1> DEFINE last == <<l4, l5>>
<1> HIDE DEF last
<1>17. last \in Seq(LinesOf(W)) /\ ParseLines(At(q3, p), last) = At(q0, read)
  BY <1>16 DEF last
<1> DEFINE l12 == l1 \o l2
           l123 == l12 \o l3
           all == l123 \o last
<1>18. l12 \in Seq(LinesOf(W)) /\ ParseLines(At(q0, p), l12) = At(q2, p)
  BY <1>6, <1>8, <1>15, ParseConcat, ConcatProperties
<1> HIDE DEF l12
<1>19. l123 \in Seq(LinesOf(W)) /\ ParseLines(At(q0, p), l123) = At(q3, p)
  BY <1>10, <1>15, <1>18, ParseConcat, ConcatProperties
<1> HIDE DEF l123
<1>20. all \in Seq(LinesOf(W)) /\ ParseLines(At(q0, p), all) = At(q0, read)
  BY <1>15, <1>17, <1>19, ParseConcat, ConcatProperties
<1> QED BY <1>14, <1>20 DEF all, l123, l12, last, q0, read

WithSegments(p, segments) == [p EXCEPT !.segments = segments]

LEMMA WithSegmentsIs ==
  ASSUME NEW W, NEW p \in Playlists(W), NEW a \in Seq(MediaSegments(W)),
         NEW b \in Seq(MediaSegments(W))
  PROVE  /\ WithSegments(p, a) \in Playlists(W) /\ WithSegments(p, a).segments = a
         /\ WithSegments(WithSegments(p, a), b) = WithSegments(p, b)
         /\ p.segments = a => WithSegments(p, a) = p
         /\ p.segments \in Seq(MediaSegments(W))
<1> DEFINE K == Seq(MediaSegments(W))
<1>1. ASSUME NEW q \in Playlists(W), NEW c \in K
      PROVE  /\ WithSegments(q, c) \in Playlists(W) /\ WithSegments(q, c).segments = c
             /\ q.segments \in K
  BY DEF Playlists, WithSegments
<1>2. WithSegments(WithSegments(p, a), b) = WithSegments(p, b)
  BY DEF Playlists, WithSegments
<1>3. ASSUME p.segments = a
      PROVE  WithSegments(p, a) = p
  BY <1>3 DEF Playlists, WithSegments
<1> QED BY <1>1, <1>2, <1>3

LEMMA AppendSubSeq ==
  ASSUME NEW T, NEW s \in Seq(T), NEW k \in 1 .. Len(s)
  PROVE  Append(SubSeq(s, 1, k - 1), s[k]) = SubSeq(s, 1, k)
<1> DEFINE a == SubSeq(s, 1, k - 1)
           b == SubSeq(s, 1, k)
           c == Append(a, s[k])
<1>1. Len(s) \in Nat /\ s[k] \in T /\ \A i \in 1 .. k : s[i] \in T
  BY LenProperties, ElementOfSeq
<1>2. a \in Seq(T) /\ Len(a) = k - 1 /\ \A i \in 1 .. k - 1 : a[i] = s[i]
  BY <1>1, SubSeqProperties
<1>3. b \in Seq(T) /\ Len(b) = k /\ \A i \in 1 .. k : b[i] = s[i]
  BY <1>1, SubSeqProperties
<1> HIDE DEF a, b
<1>4. /\ c \in Seq(T) /\ Len(c) = Len(a) + 1 /\ c[Len(a) + 1] = s[k]
      /\ \A i \in 1 .. Len(a) : c[i] = a[i]
  BY <1>1, <1>2, AppendProperties
<1> HIDE DEF c
<1>5. Len(c) = k /\ c[k] = s[k]
  BY <1>1, <1>2, <1>4
<1>6. \A i \in 1 .. k : c[i] = b[i]
  <2>1. \A i \in 1 .. k : i = k \/ i \in 1 .. k - 1
    BY <1>1
  <2> QED BY <1>2, <1>3, <1>4, <1>5, <2>1
<1>7. c = b
  BY <1>3, <1>4, <1>5, <1>6, SeqEqual
<1> QED BY <1>7 DEF a, b, c

RereadAll(segments) == [i \in DOMAIN segments |-> Reread(segments[i])]

LEMMA RereadAllTyped ==
  ASSUME NEW W, NEW segments \in Seq(MediaSegments(W))
  PROVE  /\ RereadAll(segments) \in Seq(MediaSegments(W))
         /\ Len(segments) \in Nat /\ DOMAIN segments = 1 .. Len(segments)
         /\ Len(RereadAll(segments)) = Len(segments)
         /\ \A i \in 1 .. Len(segments) : /\ segments[i] \in MediaSegments(W)
                                          /\ RereadAll(segments)[i] = Reread(segments[i])
<1>1. Len(segments) \in Nat /\ DOMAIN segments = 1 .. Len(segments)
  BY LenProperties
<1>2. \A i \in 1 .. Len(segments) : segments[i] \in MediaSegments(W)
  BY ElementOfSeq
<1>3. \A i \in 1 .. Len(segments) : Reread(segments[i]) \in MediaSegments(W)
  BY <1>2, SegmentFields
<1>4. RereadAll(segments) \in [1 .. Len(segments) -> MediaSegments(W)]
  BY <1>1, <1>3 DEF RereadAll
<1>5. \A i \in 1 .. Len(segments) : RereadAll(segments)[i] = Reread(segments[i])
  BY <1>1 DEF RereadAll
<1>6. RereadAll(segments) \in Seq(MediaSegments(W)) /\ Len(RereadAll(segments)) = Len(segments)
  <2> DEFINE f == RereadAll(segments)
  <2> HIDE DEF f
  <2>1. f \in [1 .. Len(segments) -> MediaSegments(W)]
    BY <1>4 DEF f
  <2>2. f \in Seq(MediaSegments(W)) /\ Len(f) = Len(segments)
    BY <1>1, <2>1
  <2> QED BY <2>2 DEF f
<1> QED BY <1>1, <1>2, <1>5, <1>6

LEMMA SegmentsReread ==
  ASSUME NEW W, Vocabulary \subseteq W, NEW segments \in Seq(MediaSegments(W)),
         NEW p \in Playlists(W), p.segments = <<>>
  PROVE  LET lines == FlattenSeq([i \in DOMAIN segments |-> WriteSegment(segments[i])])
         IN  /\ lines \in Seq(LinesOf(W))
             /\ ParseLines(At(NothingPending, p), lines)
                  = At(NothingPending, WithSegments(p, RereadAll(segments)))
<1> DEFINE n == Len(segments)
           L == LinesOf(W)
           chunks == [i \in DOMAIN segments |-> WriteSegment(segments[i])]
           all == RereadAll(segments)
           Read(k) == WithSegments(p, SubSeq(all, 1, k))
           Here(q) == At(NothingPending, q)
<1>1. /\ n \in Nat /\ DOMAIN segments = 1 .. n /\ all \in Seq(MediaSegments(W)) /\ Len(all) = n
      /\ \A i \in 1 .. n : segments[i] \in MediaSegments(W) /\ all[i] = Reread(segments[i])
  BY RereadAllTyped
<1>2. \A i \in 1 .. n : chunks[i] = WriteSegment(segments[i]) /\ chunks[i] \in Seq(L)
  BY <1>1, SegmentReread
<1>3. DOMAIN chunks = 1 .. n
  BY <1>1
<1> HIDE DEF chunks, L, all
<1>4. chunks \in Seq(Seq(L)) /\ Len(chunks) = n
  <2>1. chunks \in [1 .. n -> Seq(L)]
    <3>1. chunks = [i \in 1 .. n |-> chunks[i]]
      BY <1>3 DEF chunks
    <3> QED BY <1>2, <3>1
  <2> HIDE DEF n
  <2> QED BY <1>1, <2>1
<1>5. \A k \in 0 .. n : SubSeq(all, 1, k) \in Seq(MediaSegments(W))
  BY <1>1, SubSeqProperties
<1>6. \A k \in 0 .. n : Read(k) \in Playlists(W) /\ Read(k).segments = SubSeq(all, 1, k)
  BY <1>5, WithSegmentsIs
<1>7. Read(0) = p /\ Read(n) = WithSegments(p, all)
  <2>1. SubSeq(all, 1, 0) = <<>> /\ SubSeq(all, 1, n) = all
    <3>1. Len(SubSeq(all, 1, 0)) = 0
      BY <1>1, SubSeqProperties
    <3>2. SubSeq(all, 1, 0) = <<>>
      BY <1>1, <1>5, <3>1, EmptySeq
    <3>3. SubSeq(all, 1, n) = all
      BY <1>1, SubSeqFull
    <3> QED BY <3>2, <3>3
  <2>2. 0 \in 0 .. n
    BY <1>1
  <2>3. SubSeq(all, 1, 0) \in Seq(MediaSegments(W))
    BY <1>5, <2>2
  <2>4. WithSegments(p, SubSeq(all, 1, 0)) = p
    BY <2>1, <2>3, WithSegmentsIs
  <2> QED BY <2>1, <2>4
<1>8. ASSUME NEW k \in 1 .. n
      PROVE  ParseLines(Here(Read(k - 1)), chunks[k]) = Here(Read(k))
  <2> DEFINE a == SubSeq(all, 1, k - 1)
             b == SubSeq(all, 1, k)
             s == segments[k]
             q == Read(k - 1)
  <2>1. a \in Seq(MediaSegments(W)) /\ b \in Seq(MediaSegments(W)) /\ s \in MediaSegments(W)
    <3>1. k - 1 \in 0 .. n /\ k \in 0 .. n
      BY <1>1
    <3> QED BY <1>1, <1>5, <3>1
  <2>2. q \in Playlists(W) /\ q.segments = a
    BY <2>1, WithSegmentsIs
  <2>3. Append(a, Reread(s)) = b
    BY <1>1, AppendSubSeq
  <2>7. q = WithSegments(p, a)
    OBVIOUS
  <2> HIDE DEF a, b, s, q
  <2>4. WithSegments(q, b) = WithSegments(p, b)
    BY <2>1, <2>7, WithSegmentsIs
  <2>5. ParseLines(Here(q), WriteSegment(s))
          = Here([q EXCEPT !.segments = Append(@, Reread(s))])
    BY <2>1, <2>2, SegmentReread
  <2>6. [q EXCEPT !.segments = Append(@, Reread(s))] = WithSegments(q, Append(q.segments, Reread(s)))
    BY DEF WithSegments
  <2> QED BY <1>2, <2>2, <2>3, <2>4, <2>5, <2>6 DEF q, b, s
<1> HIDE DEF Here, Read
<1>9. \A k \in 0 .. n : Here(Read(k)) \in Scans(W)
  <2>1. NothingPending \in Pendings
    BY DEF NothingPending, Pendings, Garbage
  <2> QED BY <1>6, <2>1, AtFields DEF Here
<1>10. CASE n = 0
  <2>1. chunks = <<>> /\ chunks \in Seq(L)
    BY <1>4, <1>10, EmptySeq
  <2>2. FlattenSeq(chunks) = <<>>
    BY <2>1 DEF FlattenSeq
  <2>3. ParseLines(Here(p), <<>>) = Here(p)
    <3>1. Tag("EXTM3U") \in LinesOf(W)
      BY TagsAreLines
    <3>2. Here(p) \in Scans(W)
      BY <1>1, <1>7, <1>9, <1>10
    <3> QED BY <3>1, <3>2, ParseOne
  <2> QED BY <1>7, <1>10, <2>1, <2>2, <2>3 DEF Here, chunks, L, all
<1>11. CASE n # 0
  <2>1. PICK flat \in [1 .. n -> Seq(L)] :
          /\ flat[1] = chunks[1] /\ FlattenSeq(chunks) = flat[n]
          /\ \A k \in 1 .. n : k # 1 => flat[k] = flat[k - 1] \o chunks[k]
    <3>1. \E flat \in [1 .. Len(chunks) -> Seq(L)] :
            /\ flat[1] = chunks[1] /\ FlattenSeq(chunks) = flat[Len(chunks)]
            /\ \A k \in 1 .. Len(chunks) : k # 1 => flat[k] = flat[k - 1] \o chunks[k]
      BY <1>4, <1>11, FlattenSteps
    <3>2. Len(chunks) = n
      BY <1>4
    <3> HIDE DEF n
    <3> QED BY <3>1, <3>2
  <2> DEFINE T == {k \in Nat : k \in 1 .. n => ParseLines(Here(p), flat[k]) = Here(Read(k))}
  <2>2. T = Nat
    <3>1. 0 \in T
      OBVIOUS
    <3>2. ASSUME NEW k \in T
          PROVE  k + 1 \in T
      <4> SUFFICES ASSUME k + 1 \in 1 .. n
                   PROVE  ParseLines(Here(p), flat[k + 1]) = Here(Read(k + 1))
        OBVIOUS
      <4>1. CASE k = 0
        <5>1. k + 1 = 1 /\ (k + 1) - 1 = 0
          BY <4>1
        <5> QED BY <1>7, <1>8, <2>1, <5>1
      <4>2. CASE k # 0
        <5>1. k \in 1 .. n /\ k \in 0 .. n /\ (k + 1) - 1 = k /\ k + 1 # 1
          BY <1>1, <4>2
        <5>2. flat[k + 1] = flat[k] \o chunks[k + 1] /\ flat[k] \in Seq(L) /\ chunks[k + 1] \in Seq(L)
          BY <1>2, <2>1, <5>1
        <5>3. ParseLines(Here(p), flat[k]) = Here(Read(k))
          BY <5>1
        <5>4. Here(p) \in Scans(W)
          BY <1>1, <1>7, <1>9, 0 \in 0 .. n
        <5>5. ParseLines(Here(p), flat[k] \o chunks[k + 1])
                = ParseLines(ParseLines(Here(p), flat[k]), chunks[k + 1])
          BY <5>2, <5>4, ParseConcat DEF L
        <5>6. ParseLines(Here(Read(k)), chunks[k + 1]) = Here(Read(k + 1))
          BY <1>8, <5>1
        <5> QED BY <5>2, <5>3, <5>5, <5>6
      <4> QED BY <4>1, <4>2
    <3>3. T \subseteq Nat
      OBVIOUS
    <3> HIDE DEF T
    <3> QED BY <3>1, <3>2, <3>3, SetInduction
  <2>3. n \in 1 .. n
    BY <1>1, <1>11
  <2>4. ParseLines(Here(p), flat[n]) = Here(Read(n))
    <3> HIDE DEF T
    <3>1. n \in T
      BY <1>1, <2>2
    <3> QED BY <2>3, <3>1 DEF T
  <2> QED BY <1>7, <2>1, <2>3, <2>4 DEF Here, chunks, L, all
<1> QED BY <1>10, <1>11

Same(x, y) == x.version = y.version /\ x.target = y.target /\ x.sequence = y.sequence

LEMMA SamePlaylist ==
  ASSUME NEW W, NEW x \in Playlists(W), NEW y \in Playlists(W), Same(x, y), x.type = y.type,
         x.endList = y.endList, x.segments = y.segments
  PROVE  x = y
<1>1. ASSUME NEW z \in Playlists(W)
      PROVE  z = [version |-> z.version, target |-> z.target, sequence |-> z.sequence,
                  type |-> z.type, endList |-> z.endList, segments |-> z.segments]
  BY DEF Playlists
<1> QED BY <1>1, Zenon DEF Same

LEMMA EmptyIs ==
  ASSUME NEW W
  PROVE  /\ EmptyPlaylist \in Playlists(W) /\ EmptyPlaylist.type = ""
         /\ EmptyPlaylist.segments = <<>> /\ EmptyPlaylist.endList = FALSE
<1>1. 3 \in Number /\ 0 \in Number /\ "" \in W \cup {""} /\ <<>> \in Seq(MediaSegments(W))
  BY DEF Number, Garbage
<1>2. EmptyPlaylist \in Playlists(W)
  BY <1>1 DEF EmptyPlaylist, Playlists
<1>3. EmptyPlaylist.type = "" /\ EmptyPlaylist.segments = <<>> /\ EmptyPlaylist.endList = FALSE
  BY DEF EmptyPlaylist
<1> QED BY <1>2, <1>3

WithVersion(x, v) == [x EXCEPT !.version = v]
WithTarget(x, v) == [x EXCEPT !.target = v]
WithSequence(x, v) == [x EXCEPT !.sequence = v]
WithType(x, v) == [x EXCEPT !.type = v]
Ended(x) == [x EXCEPT !.endList = TRUE]

LEMMA VersionRead ==
  ASSUME NEW W, NEW x \in Playlists(W), NEW v \in Number
  PROVE  LET y == WithVersion(x, v)
         IN  /\ y \in Playlists(W)
             /\ y.version = v /\ y.target = x.target /\ y.sequence = x.sequence
             /\ y.type = x.type /\ y.endList = x.endList /\ y.segments = x.segments
             /\ ParseLine(At(NothingPending, x), Line("VERSION", v)) = At(NothingPending, y)
<1>1. LET y == WithVersion(x, v)
      IN  /\ y \in Playlists(W)
          /\ y.version = v /\ y.target = x.target /\ y.sequence = x.sequence
          /\ y.type = x.type /\ y.endList = x.endList /\ y.segments = x.segments
  BY DEF Playlists, WithVersion
<1>2. NothingPending \in Pendings
  BY NothingIsPending
<1>3. ParseTag(At(NothingPending, x), Line("VERSION", v)) = At(NothingPending, WithVersion(x, v))
  <2>1. "VERSION" \in DOMAIN Numeric /\ Numeric["VERSION"] = "version"
    BY NumericIs
  <2>2. ParseTag(At(NothingPending, x), Line("VERSION", v))
          = At(NothingPending, [x EXCEPT ![Numeric["VERSION"]] = v])
    BY <1>2, <2>1, NumericTag
  <2> QED BY <2>1, <2>2 DEF WithVersion
<1>4. ParseLine(At(NothingPending, x), Line("VERSION", v))
        = ParseTag(At(NothingPending, x), Line("VERSION", v))
  BY LineIsTag
<1> QED BY <1>1, <1>3, <1>4

LEMMA TargetRead ==
  ASSUME NEW W, NEW x \in Playlists(W), NEW v \in Number
  PROVE  LET y == WithTarget(x, v)
         IN  /\ y \in Playlists(W)
             /\ y.version = x.version /\ y.target = v /\ y.sequence = x.sequence
             /\ y.type = x.type /\ y.endList = x.endList /\ y.segments = x.segments
             /\ ParseLine(At(NothingPending, x), Line("TARGETDURATION", v)) = At(NothingPending, y)
<1>1. LET y == WithTarget(x, v)
      IN  /\ y \in Playlists(W)
          /\ y.version = x.version /\ y.target = v /\ y.sequence = x.sequence
          /\ y.type = x.type /\ y.endList = x.endList /\ y.segments = x.segments
  BY DEF Playlists, WithTarget
<1>2. NothingPending \in Pendings
  BY NothingIsPending
<1>3. ParseTag(At(NothingPending, x), Line("TARGETDURATION", v)) = At(NothingPending, WithTarget(x, v))
  <2>1. "TARGETDURATION" \in DOMAIN Numeric /\ Numeric["TARGETDURATION"] = "target"
    BY NumericIs
  <2>2. ParseTag(At(NothingPending, x), Line("TARGETDURATION", v))
          = At(NothingPending, [x EXCEPT ![Numeric["TARGETDURATION"]] = v])
    BY <1>2, <2>1, NumericTag
  <2> QED BY <2>1, <2>2 DEF WithTarget
<1>4. ParseLine(At(NothingPending, x), Line("TARGETDURATION", v))
        = ParseTag(At(NothingPending, x), Line("TARGETDURATION", v))
  BY LineIsTag
<1> QED BY <1>1, <1>3, <1>4

LEMMA SequenceRead ==
  ASSUME NEW W, NEW x \in Playlists(W), NEW v \in Number
  PROVE  LET y == WithSequence(x, v)
         IN  /\ y \in Playlists(W)
             /\ y.version = x.version /\ y.target = x.target /\ y.sequence = v
             /\ y.type = x.type /\ y.endList = x.endList /\ y.segments = x.segments
             /\ ParseLine(At(NothingPending, x), Line("MEDIASEQUENCE", v)) = At(NothingPending, y)
<1>1. LET y == WithSequence(x, v)
      IN  /\ y \in Playlists(W)
          /\ y.version = x.version /\ y.target = x.target /\ y.sequence = v
          /\ y.type = x.type /\ y.endList = x.endList /\ y.segments = x.segments
  BY DEF Playlists, WithSequence
<1>2. NothingPending \in Pendings
  BY NothingIsPending
<1>3. ParseTag(At(NothingPending, x), Line("MEDIASEQUENCE", v)) = At(NothingPending, WithSequence(x, v))
  <2>1. "MEDIASEQUENCE" \in DOMAIN Numeric /\ Numeric["MEDIASEQUENCE"] = "sequence"
    BY NumericIs
  <2>2. ParseTag(At(NothingPending, x), Line("MEDIASEQUENCE", v))
          = At(NothingPending, [x EXCEPT ![Numeric["MEDIASEQUENCE"]] = v])
    BY <1>2, <2>1, NumericTag
  <2> QED BY <2>1, <2>2 DEF WithSequence
<1>4. ParseLine(At(NothingPending, x), Line("MEDIASEQUENCE", v))
        = ParseTag(At(NothingPending, x), Line("MEDIASEQUENCE", v))
  BY LineIsTag
<1> QED BY <1>1, <1>3, <1>4

LEMMA TypeRead ==
  ASSUME NEW W, NEW x \in Playlists(W), NEW v \in W
  PROVE  LET y == WithType(x, v)
         IN  /\ y \in Playlists(W)
             /\ y.version = x.version /\ y.target = x.target /\ y.sequence = x.sequence
             /\ y.type = v /\ y.endList = x.endList /\ y.segments = x.segments
             /\ ParseLine(At(NothingPending, x), Line("PLAYLIST-TYPE", v)) = At(NothingPending, y)
<1>1. LET y == WithType(x, v)
      IN  /\ y \in Playlists(W)
          /\ y.version = x.version /\ y.target = x.target /\ y.sequence = x.sequence
          /\ y.type = v /\ y.endList = x.endList /\ y.segments = x.segments
  BY DEF Playlists, WithType
<1>3. ParseTag(At(NothingPending, x), Line("PLAYLIST-TYPE", v)) = At(NothingPending, WithType(x, v))
  BY NumericIs DEF WithType, ParseTag, Line, At
<1>4. ParseLine(At(NothingPending, x), Line("PLAYLIST-TYPE", v))
        = ParseTag(At(NothingPending, x), Line("PLAYLIST-TYPE", v))
  BY LineIsTag
<1> QED BY <1>1, <1>3, <1>4

LEMMA EndRead ==
  ASSUME NEW W, NEW x \in Playlists(W)
  PROVE  LET y == Ended(x)
         IN  /\ y \in Playlists(W)
             /\ y.version = x.version /\ y.target = x.target /\ y.sequence = x.sequence
             /\ y.type = x.type /\ y.endList = TRUE /\ y.segments = x.segments
             /\ ParseLine(At(NothingPending, x), Tag("ENDLIST")) = At(NothingPending, y)
<1>1. LET y == Ended(x)
      IN  /\ y \in Playlists(W)
          /\ y.version = x.version /\ y.target = x.target /\ y.sequence = x.sequence
          /\ y.type = x.type /\ y.endList = TRUE /\ y.segments = x.segments
  BY DEF Playlists, Ended
<1>3. ParseTag(At(NothingPending, x), Tag("ENDLIST")) = At(NothingPending, Ended(x))
  BY NumericIs DEF Ended, ParseTag, Line, At, Tag
<1>4. ParseLine(At(NothingPending, x), Tag("ENDLIST"))
        = ParseTag(At(NothingPending, x), Tag("ENDLIST"))
  BY LineIsTag DEF Tag
<1> QED BY <1>1, <1>3, <1>4

LEMMA FourConcat ==
  ASSUME NEW T, NEW a \in T, NEW b \in T, NEW c \in T, NEW d \in T
  PROVE  <<a>> \o <<b>> \o <<c>> \o <<d>> = <<a, b, c, d>>
<1> DEFINE x == <<a, b>>
           y == <<c>>
           z == <<d>>
           w == <<a, b, c, d>>
<1>1. <<a>> \o <<b>> = x
  BY PairConcat
<1>2. x \in Seq(T) /\ Len(x) = 2 /\ x[1] = a /\ x[2] = b
  OBVIOUS
<1>3. y \in Seq(T) /\ Len(y) = 1 /\ y[1] = c /\ z \in Seq(T) /\ Len(z) = 1 /\ z[1] = d
  OBVIOUS
<1>4. w \in Seq(T) /\ Len(w) = 4 /\ w[1] = a /\ w[2] = b /\ w[3] = c /\ w[4] = d
  OBVIOUS
<1> HIDE DEF x, y, z, w
<1>5. /\ x \o y \in Seq(T) /\ Len(x \o y) = 3
      /\ (x \o y)[1] = a /\ (x \o y)[2] = b /\ (x \o y)[3] = c
  <2>1. /\ x \o y \in Seq(T) /\ Len(x \o y) = Len(x) + Len(y)
        /\ \A i \in 1 .. Len(x) : (x \o y)[i] = x[i]
        /\ \A i \in 1 .. Len(y) : (x \o y)[Len(x) + i] = y[i]
    <3>1. x \in Seq(T) /\ y \in Seq(T)
      BY <1>2, <1>3
    <3> QED BY <3>1, ConcatElements
  <2>2. 1 \in 1 .. 1 /\ 1 \in 1 .. 2 /\ 2 \in 1 .. 2 /\ 2 + 1 = 3
    OBVIOUS
  <2> QED BY <1>2, <1>3, <2>1, <2>2
<1> DEFINE u == x \o y
<1>9. u \in Seq(T) /\ Len(u) = 3 /\ u[1] = a /\ u[2] = b /\ u[3] = c
  BY <1>5
<1> HIDE DEF u
<1>10. /\ u \o z \in Seq(T) /\ Len(u \o z) = 4
       /\ (u \o z)[1] = a /\ (u \o z)[2] = b /\ (u \o z)[3] = c /\ (u \o z)[4] = d
  <2>1. /\ u \o z \in Seq(T) /\ Len(u \o z) = Len(u) + Len(z)
        /\ \A i \in 1 .. Len(u) : (u \o z)[i] = u[i]
        /\ \A i \in 1 .. Len(z) : (u \o z)[Len(u) + i] = z[i]
    <3>1. u \in Seq(T) /\ z \in Seq(T)
      BY <1>3, <1>9
    <3> QED BY <3>1, ConcatElements
  <2>2. 1 \in 1 .. 1 /\ 1 \in 1 .. 3 /\ 2 \in 1 .. 3 /\ 3 \in 1 .. 3 /\ 3 + 1 = 4
    OBVIOUS
  <2> QED BY <1>3, <1>9, <2>1, <2>2
<1> DEFINE v == u \o z
<1>6. v \in Seq(T) /\ Len(v) = 4 /\ v[1] = a /\ v[2] = b /\ v[3] = c /\ v[4] = d
  BY <1>10
<1> HIDE DEF v
<1>7. \A i \in 1 .. 4 : v[i] = w[i]
  <2>1. \A i \in 1 .. 4 : i = 1 \/ i = 2 \/ i = 3 \/ i = 4
    OBVIOUS
  <2> QED BY <1>4, <1>6, <2>1
<1>8. v = w
  BY <1>4, <1>6, <1>7, SeqEqual
<1> QED BY <1>1, <1>8 DEF u, v, w, y, z

(* A line that is written only on a condition.                               *)

(* What is read of a playlist's lines after the ones before left x is y.     *)
Reads(W, x, lines, y) ==
  /\ x \in Playlists(W) /\ y \in Playlists(W) /\ lines \in Seq(LinesOf(W))
  /\ ParseLines(At(NothingPending, x), lines) = At(NothingPending, y)

LEMMA ReadsOne ==
  ASSUME NEW W, NEW x \in Playlists(W), NEW y \in Playlists(W), NEW l \in LinesOf(W),
         ParseLine(At(NothingPending, x), l) = At(NothingPending, y)
  PROVE  Reads(W, x, <<l>>, y)
<1>1. At(NothingPending, x) \in Scans(W)
  BY NothingIsPending, AtFields
<1>2. <<l>> \in Seq(LinesOf(W)) /\ ParseLines(At(NothingPending, x), <<l>>) = At(NothingPending, y)
  BY <1>1, ParseOne
<1> QED BY <1>2 DEF Reads

LEMMA ReadsMore ==
  ASSUME NEW W, NEW x, NEW a, NEW y, NEW b, NEW z, Reads(W, x, a, y), Reads(W, y, b, z)
  PROVE  Reads(W, x, a \o b, z)
<1>1. At(NothingPending, x) \in Scans(W)
  BY NothingIsPending, AtFields DEF Reads
<1>2. a \in Seq(LinesOf(W)) /\ b \in Seq(LinesOf(W))
  BY DEF Reads
<1>3. a \o b \in Seq(LinesOf(W))
  BY <1>2, ConcatProperties
<1>4. ParseLines(At(NothingPending, x), a \o b) = ParseLines(ParseLines(At(NothingPending, x), a), b)
  BY <1>1, <1>2, ParseConcat
<1> QED BY <1>3, <1>4 DEF Reads

(* What stitch writes of a playlist reads back without an error, as the      *)
(* playlist: header, type, every segment with its markers in order, and      *)
(* whether it ends.  All that is lost is the duration of a CUE-OUT that is   *)
(* not positive (manifest.go:73-173, 181-216).                               *)
THEOREM RoundTrip ==
  ASSUME NEW W, Vocabulary \subseteq W, NEW p \in Playlists(W)
  PROVE  ParsePlaylist(WritePlaylist(p))
           = [error |-> FALSE, playlist |-> [p EXCEPT !.segments = RereadAll(p.segments)]]
<1> DEFINE e0 == EmptyPlaylist
           e1 == WithVersion(e0, p.version)
           e2 == WithTarget(e1, p.target)
           e3 == WithSequence(e2, p.sequence)
           e4 == IF p.type # "" THEN WithType(e3, p.type) ELSE e3
           e5 == WithSegments(e4, RereadAll(p.segments))
           e6 == IF p.endList THEN Ended(e5) ELSE e5
           q == WithSegments(p, RereadAll(p.segments))
           l0 == Tag("EXTM3U")
           l1 == Line("VERSION", p.version)
           l2 == Line("TARGETDURATION", p.target)
           l3 == Line("MEDIASEQUENCE", p.sequence)
           l4 == When(p.type # "", Line("PLAYLIST-TYPE", p.type))
           l5 == FlattenSeq([i \in DOMAIN p.segments |-> WriteSegment(p.segments[i])])
           l6 == When(p.endList, Tag("ENDLIST"))
<1>1. /\ p.version \in Number /\ p.target \in Number /\ p.sequence \in Number
      /\ p.type \in W \cup {""} /\ p.endList \in BOOLEAN /\ p.segments \in Seq(MediaSegments(W))
      /\ Number \subseteq Int
  BY DEF Playlists, Number
<1>2. /\ e0 \in Playlists(W) /\ e0.type = "" /\ e0.segments = <<>> /\ e0.endList = FALSE
  BY EmptyIs
<1>3. /\ l0 \in LinesOf(W) /\ l1 \in LinesOf(W) /\ l2 \in LinesOf(W) /\ l3 \in LinesOf(W)
      /\ Tag("ENDLIST") \in LinesOf(W)
  BY <1>1, TagsAreLines
<1> HIDE DEF e0, l0, l1, l2, l3
<1>4. Reads(W, e0, <<l0>>, e0)
  <2>1. ParseTag(At(NothingPending, e0), Tag("EXTM3U")) = At(NothingPending, e0)
    BY NumericIs DEF ParseTag, Tag, Line, At
  <2>2. ParseLine(At(NothingPending, e0), l0) = At(NothingPending, e0)
    BY <2>1, LineIsTag DEF Tag, l0
  <2> QED BY <1>2, <1>3, <2>2, ReadsOne
<1>5. /\ Reads(W, e0, <<l1>>, e1)
      /\ e1.version = p.version /\ e1.type = "" /\ e1.segments = <<>>
  <2>1. e1 \in Playlists(W) /\ ParseLine(At(NothingPending, e0), l1) = At(NothingPending, e1)
    BY <1>1, <1>2, VersionRead DEF l1
  <2>2. e1.version = p.version /\ e1.type = "" /\ e1.segments = <<>>
    BY <1>1, <1>2, VersionRead
  <2> HIDE DEF e1
  <2> QED BY <1>2, <1>3, <2>1, <2>2, ReadsOne
<1>6. e1.endList = FALSE
  BY <1>1, <1>2, VersionRead, Zenon
<1> HIDE DEF e1
<1>7. /\ Reads(W, e1, <<l2>>, e2)
      /\ e2.version = p.version /\ e2.target = p.target /\ e2.type = "" /\ e2.segments = <<>>
  <2>1. e1 \in Playlists(W)
    BY <1>5 DEF Reads
  <2>2. e2 \in Playlists(W) /\ ParseLine(At(NothingPending, e1), l2) = At(NothingPending, e2)
    BY <1>1, <2>1, TargetRead DEF l2
  <2>3. e2.version = p.version /\ e2.target = p.target /\ e2.type = "" /\ e2.segments = <<>>
    <3>1. e2.version = e1.version
      BY <1>1, <2>1, TargetRead
    <3>3. e2.target = p.target
      <4>1. ASSUME NEW v \in Number
            PROVE  WithTarget(e1, v).target = v
        BY <2>1, TargetRead
      <4> QED BY <1>1, <4>1
    <3>4. e2.type = e1.type
      BY <1>1, <2>1, TargetRead
    <3>2. e2.segments = e1.segments
      BY <1>1, <2>1, TargetRead
    <3> HIDE DEF e2
    <3> QED BY <1>5, <3>1, <3>2, <3>3, <3>4
  <2> HIDE DEF e2
  <2> QED BY <1>3, <2>1, <2>2, <2>3, ReadsOne
<1>8. e2.endList = FALSE
  <2>1. e1 \in Playlists(W)
    BY <1>5 DEF Reads
  <2> QED BY <1>1, <1>6, <2>1, TargetRead, Zenon
<1> HIDE DEF e2
<1>9. /\ Reads(W, e2, <<l3>>, e3)
      /\ Same(e3, p) /\ e3.type = "" /\ e3.segments = <<>>
  <2>1. e2 \in Playlists(W)
    BY <1>7 DEF Reads
  <2>2. e3 \in Playlists(W) /\ ParseLine(At(NothingPending, e2), l3) = At(NothingPending, e3)
    BY <1>1, <2>1, SequenceRead DEF l3
  <2>3. Same(e3, p) /\ e3.type = "" /\ e3.segments = <<>>
    <3>1. e3.version = e2.version /\ e3.target = e2.target /\ e3.sequence = p.sequence
      BY <1>1, <2>1, SequenceRead
    <3>2. e3.type = e2.type /\ e3.segments = e2.segments
      BY <1>1, <2>1, SequenceRead
    <3> HIDE DEF e3
    <3> QED BY <1>7, <3>1, <3>2 DEF Same
  <2> HIDE DEF e3
  <2> QED BY <1>3, <2>1, <2>2, <2>3, ReadsOne
<1>10. e3.endList = FALSE
  <2>1. e2 \in Playlists(W)
    BY <1>7 DEF Reads
  <2>2. e3.endList = e2.endList
    BY <1>1, <2>1, SequenceRead
  <2> QED BY <1>8, <2>2, Zenon
<1> HIDE DEF e3
<1>11. Reads(W, e3, l4, e4) /\ Same(e4, p) /\ e4.type = p.type /\ e4.segments = <<>>
  <2> DEFINE y == WithType(e3, p.type)
  <2>1. e3 \in Playlists(W)
    BY <1>9 DEF Reads
  <2>2. CASE p.type = ""
    <3>1. l4 = <<>> /\ e4 = e3
      BY <2>2 DEF When
    <3>2. ParseLines(At(NothingPending, e3), <<>>) = At(NothingPending, e3) /\ <<>> \in Seq(LinesOf(W))
      <4>1. At(NothingPending, e3) \in Scans(W)
        BY <2>1, NothingIsPending, AtFields
      <4> QED BY <1>3, <4>1, ParseOne
    <3> HIDE DEF l4, e4
    <3> QED BY <1>9, <2>1, <2>2, <3>1, <3>2 DEF Reads
  <2>3. CASE p.type # ""
    <3>1. p.type \in W /\ Line("PLAYLIST-TYPE", p.type) \in LinesOf(W)
      BY <1>1, <2>3, TagsAreLines
    <3>2. l4 = <<Line("PLAYLIST-TYPE", p.type)>> /\ e4 = y
      BY <2>3 DEF When
    <3>3. y \in Playlists(W)
          /\ ParseLine(At(NothingPending, e3), Line("PLAYLIST-TYPE", p.type)) = At(NothingPending, y)
      BY <2>1, <3>1, TypeRead
    <3>4. y.version = e3.version /\ y.target = e3.target /\ y.sequence = e3.sequence
          /\ y.type = p.type /\ y.segments = e3.segments
      BY <2>1, <3>1, TypeRead
    <3> HIDE DEF y, l4, e4
    <3>5. Reads(W, e3, l4, e4)
      BY <2>1, <3>1, <3>2, <3>3, ReadsOne
    <3> QED BY <1>9, <3>2, <3>4, <3>5 DEF Same
  <2> QED BY <2>2, <2>3
<1>12. e4.endList = FALSE
  <2>1. e3 \in Playlists(W)
    BY <1>9 DEF Reads
  <2>2. CASE p.type = ""
    BY <1>10, <2>2, Zenon
  <2>3. CASE p.type # ""
    <3>1. p.type \in W
      BY <1>1, <2>3
    <3>2. WithType(e3, p.type).endList = e3.endList
      BY <2>1, <3>1, TypeRead
    <3>3. e4 = WithType(e3, p.type)
      BY <2>3
    <3> QED BY <1>10, <3>2, <3>3, Zenon
  <2> QED BY <2>2, <2>3
<1> HIDE DEF e4, l4
<1>13. /\ Reads(W, e4, l5, e5)
       /\ Same(e5, p) /\ e5.type = p.type /\ e5.segments = RereadAll(p.segments)
  <2>1. e4 \in Playlists(W) /\ RereadAll(p.segments) \in Seq(MediaSegments(W))
    BY <1>1, <1>11, RereadAllTyped DEF Reads
  <2>2. e5 \in Playlists(W) /\ e5.segments = RereadAll(p.segments)
    BY <2>1, WithSegmentsIs
  <2>3. Same(e5, p) /\ e5.type = p.type
    <3>1. \A z \in Playlists(W), c \in Seq(MediaSegments(W)) :
            Same(WithSegments(z, c), z) /\ WithSegments(z, c).type = z.type
      BY DEF Playlists, WithSegments, Same
    <3> QED BY <1>11, <2>1, <3>1 DEF Same
  <2>4. l5 \in Seq(LinesOf(W)) /\ ParseLines(At(NothingPending, e4), l5) = At(NothingPending, e5)
    BY <1>1, <1>11, <2>1, SegmentsReread
  <2> HIDE DEF e5, l5
  <2> QED BY <2>1, <2>2, <2>3, <2>4 DEF Reads
<1>14. e5.endList = FALSE
  <2>1. e4 \in Playlists(W) /\ RereadAll(p.segments) \in Seq(MediaSegments(W))
    BY <1>1, <1>11, RereadAllTyped DEF Reads
  <2>2. \A z \in Playlists(W), c \in Seq(MediaSegments(W)) : WithSegments(z, c).endList = z.endList
    BY DEF Playlists, WithSegments
  <2> QED BY <1>12, <2>1, <2>2, Zenon
<1> HIDE DEF e5, l5
<1>15. /\ Reads(W, e5, l6, e6)
       /\ Same(e6, p) /\ e6.type = p.type /\ e6.segments = RereadAll(p.segments)
  <2> DEFINE y == Ended(e5)
  <2>1. e5 \in Playlists(W)
    BY <1>13 DEF Reads
  <2>2. /\ y \in Playlists(W)
        /\ ParseLine(At(NothingPending, e5), Tag("ENDLIST")) = At(NothingPending, y)
    BY <2>1, EndRead
  <2>3. /\ y.version = e5.version /\ y.target = e5.target /\ y.sequence = e5.sequence
        /\ y.type = e5.type /\ y.segments = e5.segments
    BY <2>1, EndRead
  <2>4. e6 = IF p.endList THEN y ELSE e5
    OBVIOUS
  <2> HIDE DEF y, e6
  <2>5. l6 \in Seq(LinesOf(W)) /\ ParseLines(At(NothingPending, e5), l6) = At(NothingPending, e6)
    <3>1. At(NothingPending, e5) \in Scans(W)
      BY <2>1, NothingIsPending, AtFields
    <3>2. CASE p.endList
      <4>1. l6 = <<Tag("ENDLIST")>> /\ e6 = y
        BY <2>4, <3>2 DEF When
      <4> HIDE DEF l6
      <4> QED BY <1>3, <2>2, <3>1, <4>1, ParseOne
    <3>3. CASE ~p.endList
      <4>1. l6 = <<>> /\ e6 = e5
        BY <2>4, <3>3 DEF When
      <4> HIDE DEF l6
      <4> QED BY <1>3, <3>1, <4>1, ParseOne
    <3> QED BY <3>2, <3>3, Zenon
  <2> HIDE DEF l6
  <2> QED BY <1>1, <1>13, <2>1, <2>2, <2>3, <2>4, <2>5 DEF Reads, Same
<1>16. e6.endList = p.endList
  <2>1. e5 \in Playlists(W)
    BY <1>13 DEF Reads
  <2>2. Ended(e5).endList = TRUE
    BY <2>1, EndRead
  <2> QED BY <1>1, <1>14, <2>2, Zenon
<1> HIDE DEF e6, l6
<1>17. e6 = q
  <2>1. RereadAll(p.segments) \in Seq(MediaSegments(W))
    BY <1>1, RereadAllTyped
  <2>2. q \in Playlists(W) /\ q.segments = RereadAll(p.segments)
    BY <2>1, WithSegmentsIs
  <2>3. Same(q, p) /\ q.type = p.type
    BY <2>1 DEF Playlists, WithSegments, Same
  <2>4. q.endList = p.endList
    BY <2>1 DEF Playlists, WithSegments
  <2>5. e6 \in Playlists(W)
    BY <1>15 DEF Reads
  <2> HIDE DEF q
  <2>6. Same(e6, q) /\ e6.type = q.type /\ e6.segments = q.segments
    BY <1>15, <2>2, <2>3 DEF Same
  <2>7. e6.endList = q.endList
    BY <1>16, <2>4, Zenon
  <2> QED BY <2>2, <2>5, <2>6, <2>7, SamePlaylist
<1>18. Reads(W, e0, <<l0, l1, l2, l3>>, e3)
  <2>1. Reads(W, e0, <<l0>> \o <<l1>>, e1)
    BY <1>4, <1>5, ReadsMore
  <2>2. Reads(W, e0, <<l0>> \o <<l1>> \o <<l2>>, e2)
    BY <1>7, <2>1, ReadsMore
  <2>3. Reads(W, e0, <<l0>> \o <<l1>> \o <<l2>> \o <<l3>>, e3)
    BY <1>9, <2>2, ReadsMore
  <2>4. <<l0>> \o <<l1>> \o <<l2>> \o <<l3>> = <<l0, l1, l2, l3>>
    BY <1>3, FourConcat
  <2> QED BY <2>3, <2>4
<1> DEFINE h == <<l0, l1, l2, l3>>
<1> HIDE DEF h, q
<1>19. WritePlaylist(p) = h \o l4 \o l5 \o l6
  BY DEF WritePlaylist, h, l0, l1, l2, l3, l4, l5, l6
<1>20. Reads(W, e0, h \o l4 \o l5 \o l6, q)
  <2>1. Reads(W, e0, h, e3)
    BY <1>18 DEF h
  <2>2. Reads(W, e0, h \o l4, e4)
    BY <1>11, <2>1, ReadsMore
  <2>3. Reads(W, e0, h \o l4 \o l5, e5)
    BY <1>13, <2>2, ReadsMore
  <2> QED BY <1>15, <1>17, <2>3, ReadsMore
<1>21. NothingParsed = At(NothingPending, e0)
  BY DEF NothingParsed, At, e0
<1>22. ParseLines(NothingParsed, WritePlaylist(p)) = At(NothingPending, q)
  BY <1>19, <1>20, <1>21 DEF Reads
<1>23. ParsePlaylist(WritePlaylist(p)) = [error |-> FALSE, playlist |-> q]
  BY <1>22 DEF ParsePlaylist, At
<1> QED BY <1>23 DEF q, WithSegments
----------------------------------------------------------------------------
(* stitch's playlists.  What it splices is a plan: segments of the content,  *)
(* c of them, and of the ad, a of them, by their numbers.                    *)
Plans(c, a) ==
  {s \in HLS!Segments : s.dur \in Number /\ s.id \in 1 .. IF s.ad THEN a ELSE c}

LEMMA PlansKeep ==
  ASSUME NEW c, NEW a, NEW s \in Plans(c, a)
  PROVE  /\ [s EXCEPT !.disc = TRUE] \in Plans(c, a)
         /\ [s EXCEPT !.out = FALSE, !.in = FALSE, !.disc = TRUE] \in Plans(c, a)
<1>1. s \in HLS!Segments /\ s.dur \in Number /\ s.id \in 1 .. IF s.ad THEN a ELSE c
  BY DEF Plans
<1>2. /\ [s EXCEPT !.disc = TRUE] \in HLS!Segments
      /\ [s EXCEPT !.disc = TRUE].dur = s.dur /\ [s EXCEPT !.disc = TRUE].id = s.id
      /\ [s EXCEPT !.disc = TRUE].ad = s.ad
  BY <1>1 DEF HLS!Segments
<1> DEFINE t == [s EXCEPT !.out = FALSE, !.in = FALSE, !.disc = TRUE]
<1>3. t \in HLS!Segments /\ t.dur = s.dur /\ t.id = s.id /\ t.ad = s.ad
  BY <1>1 DEF HLS!Segments
<1> HIDE DEF t
<1>4. t \in Plans(c, a)
  BY <1>1, <1>3 DEF Plans
<1> QED BY <1>1, <1>2, <1>4 DEF Plans, t

LEMMA MarkFirstPlanned ==
  ASSUME NEW c, NEW a, NEW s \in Seq(Plans(c, a))
  PROVE  HLS!MarkFirst(s) \in Seq(Plans(c, a))
<1>1. CASE s = <<>>
  BY <1>1 DEF HLS!MarkFirst
<1>2. CASE s # <<>>
  <2> DEFINE e == [s[1] EXCEPT !.disc = TRUE]
  <2>1. 1 \in 1 .. Len(s) /\ s[1] \in Plans(c, a)
    BY <1>2, EmptySeq, ElementOfSeq, LenProperties
  <2>2. e \in Plans(c, a)
    BY <2>1, PlansKeep
  <2>3. HLS!MarkFirst(s) = [s EXCEPT ![1] = e]
    BY <1>2 DEF HLS!MarkFirst
  <2> HIDE DEF e
  <2> QED BY <2>1, <2>2, <2>3, ExceptSeq
<1> QED BY <1>1, <1>2

LEMMA ResumedPlanned ==
  ASSUME NEW c, NEW a, NEW s \in Seq(Plans(c, a))
  PROVE  HLS!Resumed(s) \in Seq(Plans(c, a))
<1>1. CASE s = <<>>
  BY <1>1 DEF HLS!Resumed
<1>2. CASE s # <<>>
  <2> DEFINE e == [s[1] EXCEPT !.out = FALSE, !.in = FALSE, !.disc = TRUE]
  <2>1. 1 \in 1 .. Len(s) /\ s[1] \in Plans(c, a) /\ DOMAIN s = 1 .. Len(s)
    BY <1>2, EmptySeq, ElementOfSeq, LenProperties
  <2>2. e \in Plans(c, a)
    BY <2>1, PlansKeep
  <2>3. HLS!Resumed(s) = [s EXCEPT ![1] = e]
    <3>1. HLS!Resumed(s) = [s EXCEPT ![1].out = FALSE, ![1].in = FALSE, ![1].disc = TRUE]
      BY <1>2 DEF HLS!Resumed
    <3> QED BY <2>1, <3>1
  <2> HIDE DEF e
  <2> QED BY <2>1, <2>2, <2>3, ExceptSeq
<1> QED BY <1>1, <1>2

(* The breaks that stitch finds begin and end at segments of the content.    *)
HlsBreaks(n) == [start : 1 .. n, end : 1 .. n]
HlsScans(n) == [start : 0 .. n, breaks : Seq(HlsBreaks(n))]
NoHlsScan == [start |-> 0, breaks |-> <<>>]

LEMMA HlsScanTyped ==
  ASSUME NEW n \in Nat, NEW s, NEW k \in 1 .. n, NEW x \in HlsScans(n)
  PROVE  HLS!ScanSegment(s, x, k) \in HlsScans(n)
<1>1. CASE x.start = 0 /\ s[k].out
  BY <1>1 DEF HLS!ScanSegment, HlsScans
<1>2. CASE x.start # 0 /\ s[k].in
  <2> DEFINE b == [start |-> x.start, end |-> k]
  <2>1. b \in HlsBreaks(n) /\ x.breaks \in Seq(HlsBreaks(n))
    BY <1>2 DEF HlsScans, HlsBreaks
  <2>2. HLS!ScanSegment(s, x, k) = [start |-> 0, breaks |-> Append(x.breaks, b)]
    BY <1>2 DEF HLS!ScanSegment
  <2> HIDE DEF b
  <2>3. Append(x.breaks, b) \in Seq(HlsBreaks(n))
    BY <2>1, AppendProperties
  <2> QED BY <2>2, <2>3 DEF HlsScans
<1>3. CASE ~(x.start = 0 /\ s[k].out) /\ ~(x.start # 0 /\ s[k].in)
  BY <1>3 DEF HLS!ScanSegment
<1> QED BY <1>1, <1>2, <1>3

(* The scan for breaks, segment by segment.                                  *)
LEMMA HlsScanSteps ==
  ASSUME NEW s, Len(s) \in Nat
  PROVE  \E f \in [0 .. Len(s) -> HlsScans(Len(s))] :
           /\ f[0] = NoHlsScan /\ HLS!Scan(s) = f[Len(s)]
           /\ \A k \in 1 .. Len(s) : f[k] = HLS!ScanSegment(s, f[k - 1], k)
<1> DEFINE n == Len(s)
           V == HlsScans(Len(s))
           One(x, k) == HLS!ScanSegment(s, x, k)
           Steps(f) == [k \in 0 .. n |-> IF k = 0 THEN NoHlsScan ELSE One(f[k - 1], k)]
           chosen == CHOOSE f : f = Steps(f)
<1>1. n \in Nat
  OBVIOUS
<1>2. HLS!Scan(s) = chosen[n]
  BY Zenon DEF HLS!Scan, NoHlsScan
<1>3. NoHlsScan \in V
  BY <1>1, EmptySeq DEF NoHlsScan, HlsScans
<1>4. \A k \in 1 .. n, x \in V : One(x, k) \in V
  BY <1>1, HlsScanTyped
<1>5. PICK next \in [1 .. n -> [V -> V]] :
        \A k \in 1 .. n, x \in V : next[k][x] = One(x, k)
  <2> DEFINE all == [k \in 1 .. n |-> [x \in V |-> One(x, k)]]
  <2>1. \A k \in 1 .. n, x \in V : all[k][x] = One(x, k)
    OBVIOUS
  <2> HIDE DEF One, V
  <2>2. all \in [1 .. n -> [V -> V]]
    BY <1>4
  <2> QED BY <2>1, <2>2
<1> HIDE DEF One, V
<1>6. PICK f : Iterates(f, V, NoHlsScan, n, next)
  BY <1>1, <1>3, StepsExist
<1>7. \A k \in 1 .. n : k # 0 /\ k \in 0 .. n /\ k - 1 \in 0 .. n
  BY <1>1
<1>8. \A k \in 1 .. n : f[k] = One(f[k - 1], k)
  BY <1>5, <1>6, <1>7 DEF Iterates
<1>9. f = Steps(f)
  <2>1. f \in [0 .. n -> V] /\ f[0] = NoHlsScan
    BY <1>6 DEF Iterates
  <2>2. \A k \in 0 .. n : f[k] = Steps(f)[k]
    BY <1>1, <1>8, <2>1
  <2> QED BY <2>1, <2>2
<1>10. chosen = Steps(chosen)
  BY <1>9
<1> HIDE DEF chosen
<1>11. chosen[0] = NoHlsScan /\ \A k \in 1 .. n : chosen[k] = One(chosen[k - 1], k)
  <2>1. \A k \in 0 .. n : chosen[k] = Steps(chosen)[k]
    BY <1>10
  <2> QED BY <1>1, <1>7, <2>1
<1>12. chosen \in [0 .. n -> V]
  <2>1. \A k \in 1 .. n : chosen[k - 1] \in V => chosen[k] = next[k][chosen[k - 1]]
    BY <1>5, <1>11
  <2>2. \A k \in 0 .. n : chosen[k] \in V
    BY <1>1, <1>3, <1>6, <1>11, <2>1, StepsAgree
  <2> QED BY <1>10, <2>2
<1> QED BY <1>2, <1>11, <1>12 DEF One, V

LEMMA HlsBreaksFound ==
  ASSUME NEW s, Len(s) \in Nat
  PROVE  HLS!FindBreaks(s) \in Seq(HlsBreaks(Len(s)))
<1>1. PICK f \in [0 .. Len(s) -> HlsScans(Len(s))] : HLS!Scan(s) = f[Len(s)]
  BY HlsScanSteps, Zenon
<1>2. Len(s) \in 0 .. Len(s)
  OBVIOUS
<1> QED BY <1>1, <1>2 DEF HLS!FindBreaks, HlsScans
(* One break after the other, each with the whole ad in its place.           *)
HlsSplices(c, a) == [cursor : Nat \ {0}, segments : Seq(Plans(c, a))]
NoneHlsSpliced == [cursor |-> 1, segments |-> <<>>]

LEMMA SpanPlanned ==
  ASSUME NEW c, NEW a, NEW s \in Seq(Plans(c, a)), NEW from \in Nat \ {0}, NEW to \in Int,
         to <= Len(s)
  PROVE  SubSeq(s, from, to) \in Seq(Plans(c, a))
<1>1. \A i \in from .. to : i \in 1 .. Len(s)
  BY LenProperties
<1>2. \A i \in from .. to : s[i] \in Plans(c, a)
  BY <1>1, ElementOfSeq
<1> QED BY <1>2, SubSeqProperties

LEMMA HlsSpliceBreakTyped ==
  ASSUME NEW c, NEW a, NEW s \in Seq(Plans(c, a)), NEW flight \in Seq(Plans(c, a)), NEW o,
         o.loop = FALSE, o.preserve = FALSE, NEW x \in HlsSplices(c, a),
         NEW br \in HlsBreaks(Len(s))
  PROVE  HLS!SpliceBreak(s, flight, o, x, br) \in HlsSplices(c, a)
<1> DEFINE span == SubSeq(s, x.cursor, HLS!SpanEnd(br, o))
           before == IF x.cursor = 1 THEN span ELSE HLS!Resumed(span)
           flown == HLS!Flight(flight, HLS!BreakTarget(s, br, o), o)
           longer == x.segments \o HLS!Announced(before, o) \o flown
<1>1. x.cursor \in Nat \ {0} /\ x.segments \in Seq(Plans(c, a))
  BY DEF HlsSplices
<1>2. br.start \in 1 .. Len(s) /\ br.end \in 1 .. Len(s) /\ Len(s) \in Nat
  BY LenProperties DEF HlsBreaks
<1>3. HLS!SpanEnd(br, o) = br.start - 1 /\ HLS!NextCursor(br, o) = br.end
  BY DEF HLS!SpanEnd, HLS!NextCursor
<1>4. span \in Seq(Plans(c, a))
  <2>1. HLS!SpanEnd(br, o) \in Int /\ HLS!SpanEnd(br, o) <= Len(s)
    BY <1>2, <1>3
  <2> QED BY <1>1, <2>1, SpanPlanned
<1>5. HLS!Announced(before, o) = before
  BY DEF HLS!Announced
<1> HIDE DEF span
<1>6. before \in Seq(Plans(c, a))
  BY <1>4, ResumedPlanned
<1>7. flown \in Seq(Plans(c, a))
  <2>1. flown = HLS!MarkFirst(flight)
    BY DEF HLS!Flight, HLS!Loops
  <2> HIDE DEF flown
  <2> QED BY <2>1, MarkFirstPlanned
<1>8. HLS!SpliceBreak(s, flight, o, x, br) = [cursor |-> HLS!NextCursor(br, o), segments |-> longer]
  BY DEF HLS!SpliceBreak, span
<1> HIDE DEF before, flown
<1>9. longer \in Seq(Plans(c, a))
  BY <1>1, <1>5, <1>6, <1>7, ConcatProperties
<1> HIDE DEF longer
<1>10. HLS!NextCursor(br, o) \in Nat \ {0}
  BY <1>2, <1>3
<1> QED BY <1>8, <1>9, <1>10 DEF HlsSplices

(* The splice, break after break.                                            *)
IsHlsSplice(f, s, flight, o, T) ==
  LET breaks == HLS!FindBreaks(s)
      n == Len(breaks)
  IN  /\ f \in [0 .. n -> T] /\ f[0] = NoneHlsSpliced
      /\ HLS!SplicedSegments(s, flight, o) = f[n].segments \o HLS!Resumed(SubSeq(s, f[n].cursor, Len(s)))
      /\ \A k \in 1 .. n : f[k] = HLS!SpliceBreak(s, flight, o, f[k - 1], breaks[k])

LEMMA HlsSplicedSteps ==
  ASSUME NEW c, NEW a, NEW s \in Seq(Plans(c, a)), NEW flight \in Seq(Plans(c, a)), NEW o,
         o.loop = FALSE, o.preserve = FALSE
  PROVE  \E f : IsHlsSplice(f, s, flight, o, HlsSplices(c, a))
<1> DEFINE n == Len(HLS!FindBreaks(s))
           V == HlsSplices(c, a)
           One(x, k) == HLS!SpliceBreak(s, flight, o, x, HLS!FindBreaks(s)[k])
           Steps(f) == [k \in 0 .. n |-> IF k = 0 THEN NoneHlsSpliced ELSE One(f[k - 1], k)]
           chosen == CHOOSE f : f = Steps(f)
<1>1. n \in Nat /\ \A k \in 1 .. n : HLS!FindBreaks(s)[k] \in HlsBreaks(Len(s))
  BY HlsBreaksFound, LenProperties, ElementOfSeq
<1>2. HLS!SplicedSegments(s, flight, o)
                = chosen[n].segments \o HLS!Resumed(SubSeq(s, chosen[n].cursor, Len(s)))
  BY Zenon DEF HLS!SplicedSegments, NoneHlsSpliced
<1>3. NoneHlsSpliced \in V
  BY EmptySeq DEF NoneHlsSpliced, HlsSplices
<1>4. \A k \in 1 .. n, x \in V : One(x, k) \in V
  BY <1>1, HlsSpliceBreakTyped
<1>5. PICK next \in [1 .. n -> [V -> V]] :
        \A k \in 1 .. n, x \in V : next[k][x] = One(x, k)
  <2> DEFINE all == [k \in 1 .. n |-> [x \in V |-> One(x, k)]]
  <2>1. \A k \in 1 .. n, x \in V : all[k][x] = One(x, k)
    OBVIOUS
  <2> HIDE DEF One, V
  <2>2. all \in [1 .. n -> [V -> V]]
    BY <1>4
  <2> QED BY <2>1, <2>2
<1> HIDE DEF One, V
<1>6. PICK f : Iterates(f, V, NoneHlsSpliced, n, next)
  BY <1>1, <1>3, StepsExist
<1>7. \A k \in 1 .. n : k # 0 /\ k \in 0 .. n /\ k - 1 \in 0 .. n
  BY <1>1
<1>8. \A k \in 1 .. n : f[k] = One(f[k - 1], k)
  BY <1>5, <1>6, <1>7 DEF Iterates
<1>9. f = Steps(f)
  <2>1. f \in [0 .. n -> V] /\ f[0] = NoneHlsSpliced
    BY <1>6 DEF Iterates
  <2>2. \A k \in 0 .. n : f[k] = Steps(f)[k]
    BY <1>1, <1>8, <2>1
  <2> QED BY <2>1, <2>2
<1>10. chosen = Steps(chosen)
  BY <1>9
<1> HIDE DEF chosen
<1>11. chosen[0] = NoneHlsSpliced /\ \A k \in 1 .. n : chosen[k] = One(chosen[k - 1], k)
  <2>1. \A k \in 0 .. n : chosen[k] = Steps(chosen)[k]
    BY <1>10
  <2> QED BY <1>1, <1>7, <2>1
<1>12. chosen \in [0 .. n -> V]
  <2>1. \A k \in 1 .. n : chosen[k - 1] \in V => chosen[k] = next[k][chosen[k - 1]]
    BY <1>5, <1>11
  <2>2. \A k \in 0 .. n : chosen[k] \in V
    BY <1>1, <1>3, <1>6, <1>11, <2>1, StepsAgree
  <2> QED BY <1>10, <2>2
<1> QED BY <1>2, <1>11, <1>12 DEF One, V, IsHlsSplice

LEMMA PlanTyped ==
  ASSUME NEW c, NEW a, NEW s \in Seq(Plans(c, a)), NEW flight \in Seq(Plans(c, a)), NEW o,
         o.loop = FALSE, o.preserve = FALSE
  PROVE  HLS!SplicedSegments(s, flight, o) \in Seq(Plans(c, a))
<1> DEFINE n == Len(HLS!FindBreaks(s))
<1>1. PICK f \in [0 .. n -> HlsSplices(c, a)] :
        HLS!SplicedSegments(s, flight, o)
          = f[n].segments \o HLS!Resumed(SubSeq(s, f[n].cursor, Len(s)))
  <2>1. PICK f : IsHlsSplice(f, s, flight, o, HlsSplices(c, a))
    BY HlsSplicedSteps
  <2> QED BY <2>1 DEF IsHlsSplice
<1>2. n \in 0 .. n /\ Len(s) \in Nat
  BY HlsBreaksFound, LenProperties
<1> HIDE DEF n
<1>3. f[n].segments \in Seq(Plans(c, a)) /\ f[n].cursor \in Nat \ {0}
  BY <1>1, <1>2 DEF HlsSplices
<1>4. SubSeq(s, f[n].cursor, Len(s)) \in Seq(Plans(c, a))
  BY <1>2, <1>3, SpanPlanned
<1>5. HLS!Resumed(SubSeq(s, f[n].cursor, Len(s))) \in Seq(Plans(c, a))
  BY <1>4, ResumedPlanned
<1> QED BY <1>1, <1>3, <1>5, ConcatProperties

(* The target duration is declared by the content, or is the longest's.      *)
LEMMA LargerOfTwo ==
  ASSUME NEW x \in Int, NEW y \in Int
  PROVE  HLS!Max({x, y}) \in {x, y} /\ x <= HLS!Max({x, y})
<1>1. \E m \in {x, y} : \A z \in {x, y} : m >= z
  <2>1. CASE x >= y
    BY <2>1
  <2>2. CASE ~(x >= y)
    BY <2>2
  <2> QED BY <2>1, <2>2
<1>2. HLS!Max({x, y}) \in {x, y} /\ \A z \in {x, y} : HLS!Max({x, y}) >= z
  BY <1>1 DEF HLS!Max
<1> QED BY <1>2

LEMMA WholeSeconds ==
  ASSUME NEW dur \in Int
  PROVE  (dur + Second - 1) \div Second \in Int
BY TimelineAssumption DEF TimelineAssumption

LEMMA LongerIs ==
  ASSUME NEW x \in Nat, NEW dur \in Int
  PROVE  HLS!Max({x, (dur + Second - 1) \div Second}) \in Nat
<1> DEFINE y == (dur + Second - 1) \div Second
<1>1. y \in Int
  BY WholeSeconds
<1> HIDE DEF y
<1>2. HLS!Max({x, y}) \in {x, y} /\ x <= HLS!Max({x, y})
  BY <1>1, LargerOfTwo
<1>3. HLS!Max({x, y}) \in Nat
  BY <1>1, <1>2
<1> QED BY <1>3 DEF y

(* The longest segment, of the first k.                                      *)
LEMMA HlsLongestSteps ==
  ASSUME NEW c, NEW a, NEW s \in Seq(Plans(c, a))
  PROVE  \E f \in [0 .. Len(s) -> Nat] :
           /\ f[0] = 0 /\ HLS!MaxSegmentDuration(s) = f[Len(s)]
           /\ \A k \in 1 .. Len(s) : f[k] = HLS!Max({f[k - 1], (s[k].dur + Second - 1) \div Second})
<1> DEFINE n == Len(s)
           V == Nat
           One(x, k) == HLS!Max({x, (s[k].dur + Second - 1) \div Second})
           Steps(f) == [k \in 0 .. n |-> IF k = 0 THEN 0 ELSE One(f[k - 1], k)]
           chosen == CHOOSE f : f = Steps(f)
<1>1. n \in Nat /\ \A k \in 1 .. n : s[k] \in Plans(c, a) /\ s[k].dur \in Int
  BY LenProperties, ElementOfSeq DEF Plans, Number
<1>2. HLS!MaxSegmentDuration(s) = chosen[n]
  BY Zenon DEF HLS!MaxSegmentDuration
<1>3. 0 \in V
  OBVIOUS
<1>4. \A k \in 1 .. n, x \in V : One(x, k) \in V
  BY <1>1, LongerIs
<1>5. PICK next \in [1 .. n -> [V -> V]] :
        \A k \in 1 .. n, x \in V : next[k][x] = One(x, k)
  <2> DEFINE all == [k \in 1 .. n |-> [x \in V |-> One(x, k)]]
  <2>1. \A k \in 1 .. n, x \in V : all[k][x] = One(x, k)
    OBVIOUS
  <2> HIDE DEF One, V
  <2>2. all \in [1 .. n -> [V -> V]]
    BY <1>4
  <2> QED BY <2>1, <2>2
<1> HIDE DEF One, V
<1>6. PICK f : Iterates(f, V, 0, n, next)
  BY <1>1, <1>3, StepsExist
<1>7. \A k \in 1 .. n : k # 0 /\ k \in 0 .. n /\ k - 1 \in 0 .. n
  BY <1>1
<1>8. \A k \in 1 .. n : f[k] = One(f[k - 1], k)
  BY <1>5, <1>6, <1>7 DEF Iterates
<1>9. f = Steps(f)
  <2>1. f \in [0 .. n -> V] /\ f[0] = 0
    BY <1>6 DEF Iterates
  <2>2. \A k \in 0 .. n : f[k] = Steps(f)[k]
    BY <1>1, <1>8, <2>1
  <2> QED BY <2>1, <2>2
<1>10. chosen = Steps(chosen)
  BY <1>9
<1> HIDE DEF chosen
<1>11. chosen[0] = 0 /\ \A k \in 1 .. n : chosen[k] = One(chosen[k - 1], k)
  <2>1. \A k \in 0 .. n : chosen[k] = Steps(chosen)[k]
    BY <1>10
  <2> QED BY <1>1, <1>7, <2>1
<1>12. chosen \in [0 .. n -> V]
  <2>1. \A k \in 1 .. n : chosen[k - 1] \in V => chosen[k] = next[k][chosen[k - 1]]
    BY <1>5, <1>11
  <2>2. \A k \in 0 .. n : chosen[k] \in V
    BY <1>1, <1>3, <1>6, <1>11, <2>1, StepsAgree
  <2> QED BY <1>10, <2>2
<1> QED BY <1>2, <1>11, <1>12 DEF One, V

LEMMA TargetIsNumber ==
  ASSUME NEW c, NEW a, NEW s \in Seq(Plans(c, a)), NEW declared \in Number
  PROVE  HLS!TargetDuration(declared, s) \in Number
<1>1. PICK f \in [0 .. Len(s) -> Nat] : HLS!MaxSegmentDuration(s) = f[Len(s)]
  BY HlsLongestSteps, Zenon
<1>2. Len(s) \in 0 .. Len(s)
  BY LenProperties
<1>3. HLS!MaxSegmentDuration(s) \in Nat
  BY <1>1, <1>2
<1> DEFINE longest == HLS!MaxSegmentDuration(s)
<1> HIDE DEF longest
<1>4. longest \in Nat /\ declared \in Int /\ declared # Garbage
  BY <1>3 DEF longest, Number
<1>5. HLS!Max({declared, longest}) \in {declared, longest}
  BY <1>4, LargerOfTwo
<1>6. HLS!Max({declared, longest}) \in Number
  BY <1>4, <1>5 DEF Number, Garbage
<1> QED BY <1>6 DEF HLS!TargetDuration, longest

(* What is spliced are playlists, of whatever texts.                         *)
IsPlaylist(p) == \E W : p \in Playlists(W)

LEMMA PlaylistsGrow ==
  ASSUME NEW V, NEW W, V \subseteq W
  PROVE  Playlists(V) \subseteq Playlists(W)
<1>1. MediaSegments(V) \subseteq MediaSegments(W)
  BY DEF MediaSegments
<1>2. Seq(MediaSegments(V)) \subseteq Seq(MediaSegments(W))
  <2> DEFINE A == MediaSegments(V)
             B == MediaSegments(W)
  <2> HIDE DEF A, B
  <2>1. A \subseteq B
    BY <1>1 DEF A, B
  <2>2. Seq(A) \subseteq Seq(B)
    BY <2>1
  <2> QED BY <2>2 DEF A, B
<1> QED BY <1>2 DEF Playlists

LEMMA ParsedIsPlaylist ==
  ASSUME NEW lines, IsText(lines)
  PROVE  IsPlaylist(ParsePlaylist(lines).playlist)
<1> DEFINE W == {l.tag : l \in ToSet(lines)} \cup {l.value : l \in ToSet(lines)}
<1>1. lines \in Seq(ToSet(lines))
      /\ \A l \in ToSet(lines) : l = Line(l.tag, l.value) /\ (l.tag \in NumberTags => l.value \in Int)
  BY DEF IsText
<1>2. \A l \in ToSet(lines) : l.tag \in W /\ l.value \in W
  OBVIOUS
<1> HIDE DEF W
<1>3. \A l \in ToSet(lines) : l \in LinesOf(W)
  <2> SUFFICES ASSUME NEW l \in ToSet(lines)
               PROVE  l \in LinesOf(W)
    OBVIOUS
  <2>1. Line(l.tag, l.value) \in LinesOf(W)
    BY <1>1, <1>2, LineIs
  <2> QED BY <1>1, <2>1
<1>4. lines \in Seq(LinesOf(W))
  <2> DEFINE A == ToSet(lines)
             B == LinesOf(W)
  <2> HIDE DEF A, B
  <2>1. lines \in Seq(A) /\ A \subseteq B
    BY <1>1, <1>3 DEF A, B
  <2>2. lines \in Seq(B)
    BY <2>1
  <2> QED BY <2>2 DEF B
<1>5. NothingParsed \in Scans(W)
  <2>1. NothingParsed = At(NothingPending, EmptyPlaylist)
    BY DEF NothingParsed, At
  <2> QED BY <2>1, NothingIsPending, EmptyIs, AtFields
<1>6. ParseLines(NothingParsed, lines) \in Scans(W)
  BY <1>4, <1>5, ParseRuns
<1>7. ParsePlaylist(lines).playlist \in Playlists(W)
  BY <1>6, ScanFields DEF ParsePlaylist
<1> QED BY <1>7 DEF IsPlaylist

(* An encoded ad is segments that end one after the other.                   *)
LEMMA QuotientsGrow ==
  ASSUME NEW x \in Int, NEW y \in Int, x <= y, NEW n \in Nat \ {0}
  PROVE  x \div n \in Int /\ y \div n \in Int /\ x \div n <= y \div n
<1>1. x = n * (x \div n) + (x % n) /\ x % n \in 0 .. n - 1 /\ x \div n \in Int
  OBVIOUS
<1>2. y = n * (y \div n) + (y % n) /\ y % n \in 0 .. n - 1 /\ y \div n \in Int
  OBVIOUS
<1> DEFINE a == x \div n
           b == y \div n
           r == x % n
           s == y % n
<1> HIDE DEF a, b, r, s
<1>3. a \in Int /\ b \in Int /\ r \in 0 .. n - 1 /\ s \in 0 .. n - 1
  BY <1>1, <1>2 DEF a, b, r, s
<1>4. n * a + r <= n * b + s
  BY <1>1, <1>2 DEF a, b, r, s
<1>5. ASSUME ~(a <= b)
      PROVE  FALSE
  <2>1. a - b - 1 \in Nat
    BY <1>3, <1>5
  <2>2. n * (a - b - 1) \in Nat
    BY <2>1
  <2>3. n * (a - b - 1) = n * a - n * b - n
    BY <1>3
  <2>4. n * a \in Int /\ n * b \in Int
    BY <1>3
  <2> QED BY <1>3, <1>4, <2>2, <2>3, <2>4
<1> QED BY <1>3, <1>5 DEF a, b

LEMMA EncodedDurations ==
  ASSUME NEW total \in Nat
  PROVE  HLS!EncodeHLS(total, 0, 0) \in Seq(Nat)
<1> DEFINE n == HLS!SegmentCount(total)
           Keyframe(k) == (k * total) \div n
<1>1. SegmentSeconds \in Nat \ {0}
  BY CommandsAssumption
<1>2. n \in Nat \ {0}
  <2> DEFINE rounded == (2 * total + SegmentSeconds) \div (2 * SegmentSeconds)
  <2>1. rounded \in Int
    BY <1>1
  <2>2. n = IF rounded < 1 THEN 1 ELSE rounded
    BY DEF HLS!SegmentCount
  <2> HIDE DEF rounded, n
  <2> QED BY <2>1, <2>2
<1>3. HLS!EncodeHLS(total, 0, 0) = [k \in 1 .. n |-> Keyframe(k) - Keyframe(k - 1)]
  <2>1. total - 0 = total /\ ~(0 > 0)
    OBVIOUS
  <2> QED BY <2>1 DEF HLS!EncodeHLS, HLS!EvenSegmentPlan
<1> HIDE DEF n
<1>4. \A k \in 1 .. n : Keyframe(k) - Keyframe(k - 1) \in Nat
  <2> SUFFICES ASSUME NEW k \in 1 .. n
               PROVE  Keyframe(k) - Keyframe(k - 1) \in Nat
    OBVIOUS
  <2> DEFINE x == (k - 1) * total
             y == k * total
  <2>1. k \in Nat /\ k - 1 \in Nat
    BY <1>2
  <2>2. x \in Int /\ y \in Int /\ y = x + total
    BY <2>1
  <2>3. x <= y
    <3> HIDE DEF x, y
    <3> QED BY <2>2
  <2> HIDE DEF x, y
  <2>4. x \div n \in Int /\ y \div n \in Int /\ x \div n <= y \div n
    BY <1>2, <2>2, <2>3, QuotientsGrow
  <2> QED BY <2>4 DEF x, y
<1> HIDE DEF Keyframe
<1>5. [k \in 1 .. n |-> Keyframe(k) - Keyframe(k - 1)] \in [1 .. n -> Nat]
  BY <1>4
<1> QED BY <1>2, <1>3, <1>5

LEMMA EncodedIsPlaylist ==
  ASSUME NEW mf \in MediaFiles
  PROVE  IsPlaylist(EncodedPlaylist(mf))
<1> DEFINE durs == HLS!EncodeHLS(mf.total, 0, 0)
           segs == [k \in DOMAIN durs |->
                      Segment([prefix |-> 0, n |-> k], durs[k], FALSE, FALSE, 0, FALSE)]
           W == {[prefix |-> 0, n |-> k] : k \in Nat}
<1>1. durs \in Seq(Nat)
  BY CommandsAssumption, EncodedDurations
<1>2. EncodedPlaylist(mf) = WithSegments(EmptyPlaylist, segs)
  BY DEF EncodedPlaylist, WithSegments
<1> HIDE DEF durs
<1>3. DOMAIN durs = 1 .. Len(durs) /\ Len(durs) \in Nat /\ \A k \in 1 .. Len(durs) : durs[k] \in Nat
  BY <1>1, LenProperties, ElementOfSeq
<1>4. \A k \in DOMAIN durs :
        Segment([prefix |-> 0, n |-> k], durs[k], FALSE, FALSE, 0, FALSE) \in MediaSegments(W)
  <2> SUFFICES ASSUME NEW k \in DOMAIN durs
               PROVE  Segment([prefix |-> 0, n |-> k], durs[k], FALSE, FALSE, 0, FALSE)
                        \in MediaSegments(W)
    OBVIOUS
  <2> DEFINE u == [prefix |-> 0, n |-> k]
  <2>1. u \in W /\ durs[k] \in Number
    BY <1>3 DEF Number, Garbage
  <2> HIDE DEF u, W
  <2>2. Segment(u, durs[k], FALSE, FALSE, 0, FALSE) \in MediaSegments(W)
    BY <2>1 DEF Segment, MediaSegments
  <2> QED BY <2>2 DEF u
<1> DEFINE T == MediaSegments(W)
           N == Len(durs)
<1>5. segs \in [1 .. N -> T]
  BY <1>3, <1>4
<1>6. segs \in Seq(T)
  <2> HIDE DEF segs, T, N
  <2> QED BY <1>3, <1>5 DEF N
<1> HIDE DEF segs, W
<1>7. EmptyPlaylist \in Playlists(W)
  BY EmptyIs
<1>8. WithSegments(EmptyPlaylist, segs) \in Playlists(W)
  BY <1>6, <1>7, WithSegmentsIs
<1> QED BY <1>2, <1>8 DEF IsPlaylist

(* The segments of the content, and of the ad, as they are spliced.          *)
LEMMA CuedIs ==
  ASSUME NEW W, NEW s \in MediaSegments(W), NEW i \in Nat
  PROVE  LET x == Cued(s, i)
         IN  x \in HLS!Segments /\ x.dur = s.dur /\ x.id = i /\ x.ad = FALSE
<1> DEFINE e == HLS!ContentSegment(s.dur, s.out, s.in, s.cue)
<1>1. s.dur \in Int /\ s.out \in BOOLEAN /\ s.in \in BOOLEAN /\ s.cue \in Int /\ s.disc \in BOOLEAN
  BY DEF MediaSegments, Number
<1>2. e \in HLS!Segments /\ e.dur = s.dur /\ e.ad = FALSE
  BY <1>1 DEF HLS!ContentSegment, HLS!Segments
<1> HIDE DEF e
<1> DEFINE x == [e EXCEPT !.id = i, !.disc = s.disc]
<1>3. Cued(s, i) = x
  BY DEF Cued, e
<1>4. x \in HLS!Segments /\ x.dur = e.dur /\ x.id = i /\ x.ad = e.ad
  BY <1>1, <1>2 DEF HLS!Segments
<1> HIDE DEF x
<1> QED BY <1>2, <1>3, <1>4

LEMMA InFlightIs ==
  ASSUME NEW x \in HLS!Segments
  PROVE  LET y == [x EXCEPT !.ad = TRUE, !.out = FALSE, !.in = FALSE]
         IN  y \in HLS!Segments /\ y.dur = x.dur /\ y.id = x.id /\ y.ad = TRUE
BY DEF HLS!Segments

LEMMA BodyPlanned ==
  ASSUME NEW W, NEW p \in Playlists(W), NEW a
  PROVE  Body(p) \in Seq(Plans(Len(p.segments), a))
<1> DEFINE s == p.segments
           n == Len(s)
           T == Plans(Len(p.segments), a)
<1>1. s \in Seq(MediaSegments(W))
  BY PlaylistFields
<1> HIDE DEF s
<1>2. n \in Nat /\ DOMAIN s = 1 .. n /\ \A i \in 1 .. n : s[i] \in MediaSegments(W)
  BY <1>1, LenProperties, ElementOfSeq
<1>3. \A i \in 1 .. n : Cued(s[i], i) \in Plans(n, a)
  <2> SUFFICES ASSUME NEW i \in 1 .. n
               PROVE  Cued(s[i], i) \in Plans(n, a)
    OBVIOUS
  <2> DEFINE x == Cued(s[i], i)
  <2>1. s[i].dur \in Number /\ i \in Nat
    <3>1. s[i] \in MediaSegments(W)
      BY <1>2
    <3>2. s[i].dur \in Number
      BY <3>1, SegmentFields
    <3> QED BY <1>2, <3>2
  <2>2. x \in HLS!Segments /\ x.dur = s[i].dur /\ x.id = i /\ x.ad = FALSE
    BY <1>2, <2>1, CuedIs
  <2> HIDE DEF x
  <2>3. x \in Plans(n, a)
    BY <2>1, <2>2 DEF Plans
  <2> QED BY <2>3 DEF x
<1>4. Body(p) = [i \in DOMAIN s |-> Cued(s[i], i)]
  BY DEF Body, s
<1>5. Body(p) \in [1 .. n -> Plans(n, a)]
  BY <1>2, <1>3, <1>4
<1>6. Body(p) \in Seq(Plans(n, a))
  <2> DEFINE b == Body(p)
             P == Plans(n, a)
  <2>1. b \in [1 .. n -> P]
    BY <1>5
  <2> HIDE DEF b, P
  <2>2. b \in Seq(P)
    BY <1>2, <2>1
  <2> QED BY <2>2 DEF b, P
<1> QED BY <1>6 DEF s

LEMMA FlightPlanned ==
  ASSUME NEW W, NEW p \in Playlists(W), NEW c
  PROVE  Flight(p) \in Seq(Plans(c, Len(p.segments)))
<1> DEFINE s == p.segments
           n == Len(s)
<1>1. s \in Seq(MediaSegments(W))
  BY PlaylistFields
<1> HIDE DEF s
<1>2. n \in Nat /\ DOMAIN s = 1 .. n /\ \A i \in 1 .. n : s[i] \in MediaSegments(W)
  BY <1>1, LenProperties, ElementOfSeq
<1>3. \A i \in 1 .. n :
        [Cued(s[i], i) EXCEPT !.ad = TRUE, !.out = FALSE, !.in = FALSE] \in Plans(c, n)
  <2> SUFFICES ASSUME NEW i \in 1 .. n
               PROVE  [Cued(s[i], i) EXCEPT !.ad = TRUE, !.out = FALSE, !.in = FALSE] \in Plans(c, n)
    OBVIOUS
  <2> DEFINE x == Cued(s[i], i)
             y == [x EXCEPT !.ad = TRUE, !.out = FALSE, !.in = FALSE]
  <2>1. s[i].dur \in Number /\ i \in Nat
    <3>1. s[i] \in MediaSegments(W)
      BY <1>2
    <3>2. s[i].dur \in Number
      BY <3>1, SegmentFields
    <3> QED BY <1>2, <3>2
  <2>2. x \in HLS!Segments /\ x.dur = s[i].dur /\ x.id = i
    BY <1>2, <2>1, CuedIs
  <2> HIDE DEF x
  <2>3. y \in HLS!Segments /\ y.dur = x.dur /\ y.id = x.id /\ y.ad = TRUE
    BY <2>2, InFlightIs
  <2> HIDE DEF y
  <2>4. y \in Plans(c, n)
    BY <2>1, <2>2, <2>3 DEF Plans
  <2> QED BY <2>4 DEF y, x
<1>4. Flight(p) = [i \in DOMAIN s |->
                     [Cued(s[i], i) EXCEPT !.ad = TRUE, !.out = FALSE, !.in = FALSE]]
  BY DEF Flight, s
<1>5. Flight(p) \in [1 .. n -> Plans(c, n)]
  BY <1>2, <1>3, <1>4
<1>6. Flight(p) \in Seq(Plans(c, n))
  <2> DEFINE b == Flight(p)
             P == Plans(c, n)
  <2>1. b \in [1 .. n -> P]
    BY <1>5
  <2> HIDE DEF b, P
  <2>2. b \in Seq(P)
    BY <1>2, <2>1
  <2> QED BY <2>2 DEF b, P
<1> QED BY <1>6 DEF s

(* What stitch makes of a plan: the names of the ad's segments are changed.  *)
PlanOf(content, adList) == HLS!SplicedSegments(Body(content), Flight(adList), Options)

NamesOf(V) == V \cup {Renamed(u) : u \in V}

LEMMA NamedTyped ==
  ASSUME NEW V, NEW content \in Playlists(V), NEW adList \in Playlists(V),
         NEW s \in Plans(Len(content.segments), Len(adList.segments))
  PROVE  Named(s, content, adList) \in MediaSegments(NamesOf(V))
<1> DEFINE u == IF s.ad THEN Renamed(adList.segments[s.id].uri) ELSE content.segments[s.id].uri
<1>1. /\ s.ad \in BOOLEAN /\ s.disc \in BOOLEAN /\ s.out \in BOOLEAN /\ s.in \in BOOLEAN
      /\ s.cue \in Int /\ s.dur \in Number
      /\ s.id \in 1 .. IF s.ad THEN Len(adList.segments) ELSE Len(content.segments)
  BY DEF Plans, HLS!Segments
<1>2. /\ \A i \in 1 .. Len(adList.segments) : adList.segments[i].uri \in V
      /\ \A i \in 1 .. Len(content.segments) : content.segments[i].uri \in V
  <2>1. ASSUME NEW p \in Playlists(V), NEW i \in 1 .. Len(p.segments)
        PROVE  p.segments[i].uri \in V
    <3>1. p.segments \in Seq(MediaSegments(V))
      BY PlaylistFields
    <3>2. p.segments[i] \in MediaSegments(V)
      BY <3>1, ElementOfSeq
    <3> QED BY <3>2, SegmentFields
  <2> QED BY <2>1
<1>3. u \in NamesOf(V)
  <2>1. CASE s.ad
    BY <1>1, <1>2, <2>1 DEF NamesOf
  <2>2. CASE ~s.ad
    BY <1>1, <1>2, <2>2 DEF NamesOf
  <2> QED BY <2>1, <2>2
<1>4. Named(s, content, adList) = Segment(u, s.dur, s.disc, s.out, s.cue, s.in)
  BY DEF Named
<1> HIDE DEF u
<1> QED BY <1>1, <1>3, <1>4 DEF Segment, MediaSegments

LEMMA HlsSpliced ==
  ASSUME NEW V, NEW content \in Playlists(V), NEW adList \in Playlists(V),
         HlsSplice(content, adList).error = "none"
  PROVE  LET result == HlsSplice(content, adList).playlist
             plan == PlanOf(content, adList)
         IN  /\ result \in Playlists(NamesOf(V))
             /\ plan \in Seq(Plans(Len(content.segments), Len(adList.segments)))
             /\ result.segments = [i \in DOMAIN plan |-> Named(plan[i], content, adList)]
<1> DEFINE W == NamesOf(V)
           plan == PlanOf(content, adList)
           P == Plans(Len(content.segments), Len(adList.segments))
           spliceResult == HLS!SpliceWithOptions(content.target, Body(content), Flight(adList), Options)
           segs == [i \in DOMAIN plan |-> Named(plan[i], content, adList)]
           target == HLS!TargetDuration(content.target, plan)
<1>1. plan \in Seq(P)
  <2>1. Options.loop = FALSE /\ Options.preserve = FALSE
    BY DEF Options
  <2>2. Body(content) \in Seq(P) /\ Flight(adList) \in Seq(P)
    BY BodyPlanned, FlightPlanned
  <2> QED BY <2>1, <2>2, PlanTyped DEF PlanOf
<1>2. target \in Number
  <2>1. content.target \in Number
    BY DEF Playlists
  <2> HIDE DEF plan
  <2> QED BY <1>1, <2>1, TargetIsNumber
<1>3. HlsSplice(content, adList) = Renaming(spliceResult, content, adList)
  BY DEF HlsSplice
<1>4. spliceResult.error = "none"
  BY <1>3 DEF Renaming
<1>5. spliceResult.segments = plan /\ spliceResult.target = target
  BY <1>4 DEF HLS!SpliceWithOptions, HLS!Failed, PlanOf
<1> HIDE DEF spliceResult, plan, target
<1>6. HlsSplice(content, adList).playlist
        = [content EXCEPT !.target = target, !.segments = segs]
  BY <1>3, <1>5 DEF Renaming
<1>7. segs \in Seq(MediaSegments(W))
  <2>1. Len(plan) \in Nat /\ DOMAIN plan = 1 .. Len(plan) /\ \A i \in 1 .. Len(plan) : plan[i] \in P
    BY <1>1, LenProperties, ElementOfSeq
  <2>2. \A i \in 1 .. Len(plan) : Named(plan[i], content, adList) \in MediaSegments(W)
    BY <2>1, NamedTyped
  <2> DEFINE T == MediaSegments(W)
             N == Len(plan)
  <2>3. segs \in [1 .. N -> T]
    BY <2>1, <2>2
  <2> HIDE DEF segs, T, N
  <2>4. segs \in Seq(T)
    BY <2>1, <2>3 DEF N
  <2> QED BY <2>4 DEF T
<1> HIDE DEF segs
<1>8. content \in Playlists(W)
  <2>1. V \subseteq W
    BY DEF NamesOf
  <2> QED BY <2>1, PlaylistsGrow
<1> HIDE DEF W
<1>9. /\ [content EXCEPT !.target = target, !.segments = segs] \in Playlists(W)
      /\ [content EXCEPT !.target = target, !.segments = segs].segments = segs
  BY <1>2, <1>7, <1>8 DEF Playlists
<1> QED BY <1>1, <1>6, <1>9 DEF plan, segs, W

(* Of two ad segments that would be given one name there is only one, so the *)
(* one that is copied is the one that is listed.                             *)
LEMMA GreatestElement ==
  ASSUME NEW n \in Nat, NEW I, I \subseteq 1 .. n, I # {}
  PROVE  Max(I) \in I
<1> DEFINE J == {n - i : i \in I}
<1>1. J \in SUBSET Nat /\ J # {}
  <2>1. \A i \in I : i \in 1 .. n
    OBVIOUS
  <2>2. \A i \in 1 .. n : n - i \in Nat
    OBVIOUS
  <2>3. \A i \in I : n - i \in Nat
    BY <2>1, <2>2
  <2>4. \A j \in J : j \in Nat
    BY <2>3
  <2>5. PICK i \in I : TRUE
    OBVIOUS
  <2>6. n - i \in J
    OBVIOUS
  <2> QED BY <2>4, <2>6
<1>2. PICK j \in J : \A k \in J : j <= k
  <2> HIDE DEF J
  <2> QED BY <1>1, LeastElement
<1>3. PICK m \in I : j = n - m
  BY <1>2
<1>4. \A i \in I : m >= i
  <2> SUFFICES ASSUME NEW i \in I
               PROVE  m >= i
    OBVIOUS
  <2>1. n - i \in J
    OBVIOUS
  <2>2. n - m <= n - i
    BY <1>2, <1>3, <2>1
  <2>3. m \in Int /\ i \in Int
    OBVIOUS
  <2> QED BY <2>2, <2>3
<1> DEFINE greatest == CHOOSE x \in I : \A y \in I : x >= y
<1>5. greatest \in I
  BY <1>4
<1> HIDE DEF greatest
<1> QED BY <1>5 DEF Max, greatest

LEMMA AdFileIs ==
  ASSUME NEW uris, Len(uris) \in Nat, NEW k \in 1 .. Len(uris),
         \A i, j \in 1 .. Len(uris) : Renamed(uris[i]) = Renamed(uris[j]) => uris[i] = uris[j]
  PROVE  AdFile(uris, Renamed(uris[k])) = uris[k]
<1> DEFINE I == {i \in 1 .. Len(uris) : Renamed(uris[i]) = Renamed(uris[k])}
           at == Max(I)
<1>1. k \in I /\ I \subseteq 1 .. Len(uris)
  OBVIOUS
<1>2. at \in I
  <2> HIDE DEF I
  <2> QED BY <1>1, GreatestElement
<1>3. AdFile(uris, Renamed(uris[k])) = uris[at]
  BY <1>1 DEF AdFile, SelectLastInSeq
<1> HIDE DEF at
<1> QED BY <1>2, <1>3

LEMMA UrisAre ==
  ASSUME NEW W, NEW p \in Playlists(W)
  PROVE  /\ Len(Uris(p)) = Len(p.segments) /\ DOMAIN Uris(p) = 1 .. Len(p.segments)
         /\ Len(p.segments) \in Nat /\ p.segments \in Seq(MediaSegments(W))
         /\ \A i \in 1 .. Len(p.segments) :
              Uris(p)[i] = p.segments[i].uri /\ p.segments[i].uri \in ToSet(Uris(p))
<1>1. p.segments \in Seq(MediaSegments(W))
  BY PlaylistFields
<1>2. Len(p.segments) \in Nat /\ DOMAIN p.segments = 1 .. Len(p.segments)
      /\ \A i \in 1 .. Len(p.segments) : p.segments[i] \in MediaSegments(W)
  BY <1>1, LenProperties, ElementOfSeq
<1> DEFINE u == Uris(p)
           n == Len(p.segments)
<1>3. /\ u = [i \in 1 .. n |-> p.segments[i].uri]
  BY <1>2 DEF Uris
<1>4. u \in [1 .. n -> W]
  BY <1>2, <1>3, SegmentFields
<1> HIDE DEF u
<1>5. u \in Seq(W) /\ Len(u) = n /\ DOMAIN u = 1 .. n
  BY <1>2, <1>4
<1>6. \A i \in 1 .. n : u[i] = p.segments[i].uri /\ p.segments[i].uri \in ToSet(u)
  <2>1. \A i \in 1 .. n : u[i] = p.segments[i].uri
    BY <1>3
  <2> QED BY <1>5, <2>1 DEF ToSet
<1> QED BY <1>1, <1>2, <1>5, <1>6 DEF u

LEMMA HlsInputs ==
  ASSUME InputGiven, Origins, HlsDone
  PROVE  \E V : Content \in Playlists(V) /\ ad \in Playlists(V)
<1>1. ~Dashing /\ stage = "done" /\ Stitches /\ IsHlsInput(input)
  BY CommandsAssumption DEF HlsDone, Dashing, Stitches, InputGiven, NoInput
<1>2. IsPlaylist(Content)
  BY <1>1, ParsedIsPlaylist DEF Content, IsHlsInput
<1>3. ad = Prepared /\ (FromVast => creative \in MediaFiles)
  BY <1>1 DEF Origins, AdIsPrepared
<1>4. IsPlaylist(ad)
  <2>1. CASE FromVast
    BY <1>1, <1>3, <2>1, EncodedIsPlaylist DEF Prepared
  <2>2. CASE ~FromVast
    BY <1>1, <1>3, <2>2, ParsedIsPlaylist DEF Prepared, IsHlsInput, FromVast
  <2> QED BY <2>1, <2>2
<1>5. PICK V1, V2 : Content \in Playlists(V1) /\ ad \in Playlists(V2)
  BY <1>2, <1>4 DEF IsPlaylist
<1>6. V1 \subseteq V1 \cup V2 /\ V2 \subseteq V1 \cup V2
  OBVIOUS
<1>7. Content \in Playlists(V1 \cup V2) /\ ad \in Playlists(V1 \cup V2)
  BY <1>5, <1>6, PlaylistsGrow
<1> QED BY <1>7

(* The copy that is made under the name of a planned segment is of the file  *)
(* that the plan names.                                                      *)
LEMMA PlannedIsCopied ==
  ASSUME NEW V, Content \in Playlists(V), ad \in Playlists(V), AdNamesDiffer, ~input.inPlace,
         NEW s \in Plans(Len(Content.segments), Len(ad.segments))
  PROVE  LET u == Named(s, Content, ad).uri
         IN  CopyOf(HlsCopy(Content, Uris(ad), u)) = Origin(s)
<1> DEFINE u == Named(s, Content, ad).uri
<1>1. /\ s.ad \in BOOLEAN
      /\ s.id \in 1 .. IF s.ad THEN Len(ad.segments) ELSE Len(Content.segments)
  BY DEF Plans, HLS!Segments
<1>2. u = IF s.ad THEN Renamed(ad.segments[s.id].uri) ELSE Content.segments[s.id].uri
  BY DEF Named, Segment
<1> HIDE DEF u
<1>3. CASE ~s.ad
  <2>1. u = Content.segments[s.id].uri /\ u \in ToSet(Uris(Content))
    BY <1>1, <1>2, <1>3, UrisAre
  <2>2. HlsCopy(Content, Uris(ad), u) = Copy("content", u, u)
    BY <2>1 DEF HlsCopy
  <2>3. CopyOf(HlsCopy(Content, Uris(ad), u)) = [from |-> "content", file |-> u]
    BY <2>2 DEF Copy, CopyOf
  <2> QED BY <1>3, <2>1, <2>3 DEF Origin, u
<1>4. CASE s.ad
  <2> DEFINE all == Uris(ad)
  <2>1. /\ s.id \in 1 .. Len(all) /\ all[s.id] = ad.segments[s.id].uri /\ Len(all) \in Nat
        /\ DOMAIN all = 1 .. Len(all)
    BY <1>1, <1>4, UrisAre
  <2>2. u = Renamed(all[s.id])
    BY <1>2, <1>4, <2>1
  <2> HIDE DEF all
  <2>3. \A i \in 1 .. Len(all) : all[i] \in ToSet(all)
    BY <2>1 DEF ToSet
  <2>4. \A a \in ToSet(all) : /\ Renamed(a) \notin ToSet(Uris(Content))
                              /\ \A b \in ToSet(all) : Renamed(a) = Renamed(b) => a = b
    BY DEF AdNamesDiffer, all
  <2>5. u \notin ToSet(Uris(Content))
    BY <2>1, <2>2, <2>3, <2>4
  <2>6. \A i, j \in 1 .. Len(all) : Renamed(all[i]) = Renamed(all[j]) => all[i] = all[j]
    BY <2>3, <2>4
  <2>7. AdFile(all, u) = all[s.id]
    BY <2>1, <2>2, <2>6, AdFileIs
  <2>8. HlsCopy(Content, all, u) = Copy("ad", all[s.id], u)
    BY <2>5, <2>7 DEF HlsCopy
  <2>9. CopyOf(HlsCopy(Content, all, u)) = [from |-> "ad", file |-> all[s.id]]
    BY <2>8 DEF Copy, CopyOf
  <2> QED BY <1>4, <2>1, <2>9 DEF Origin, u, all
<1> QED BY <1>1, <1>3, <1>4

LEMMA HeadedKept ==
  ASSUME NEW W, NEW p \in Playlists(W), NEW segments \in Seq(MediaSegments(W))
  PROVE  Headed([p EXCEPT !.segments = segments]) = Headed(p)
<1>1. <<>> \in Seq(MediaSegments(W))
  OBVIOUS
<1> DEFINE none == <<>>
<1>3. none \in Seq(MediaSegments(W))
  BY <1>1
<1> HIDE DEF none
<1>2. WithSegments(WithSegments(p, segments), none) = WithSegments(p, none)
  BY <1>3, WithSegmentsIs
<1> QED BY <1>2 DEF Headed, WithSegments, none

LEMMA ShownKept ==
  ASSUME NEW s
  PROVE  Shown(Reread(s)) = Shown(s)
BY DEF Shown, Reread, Segment

LEMMA PlaylistHolds ==
  ASSUME IInv, Origins, HlsDone, AdNamesDiffer, ~input.inPlace
  PROVE  HlsOutputHolds
<1> DEFINE plan == PlanOf(Content, ad)
           P == Plans(Len(Content.segments), Len(ad.segments))
           back == ParsePlaylist(manifest[2])
<1>1. ~Dashing /\ stage = "done" /\ Stitches /\ todo = {}
  BY DEF HlsDone, Dashing, Stitches, IInv, NothingLeft
<1>2. PICK V : Content \in Playlists(V) /\ ad \in Playlists(V)
  BY HlsInputs DEF IInv
<1>3. HlsSplice(Content, ad).error = "none" /\ spliced = HlsSplice(Content, ad).playlist
  BY <1>1 DEF Origins, IsSpliced, HlsResult
<1>4. /\ spliced \in Playlists(NamesOf(V)) /\ plan \in Seq(P)
      /\ spliced.segments = [i \in DOMAIN plan |-> Named(plan[i], Content, ad)]
  <2> DEFINE c == Content
  <2> HIDE DEF c
  <2> QED BY <1>2, <1>3, HlsSpliced
<1> DEFINE W == Vocabulary \cup NamesOf(V)
           n == Len(plan)
           q == [spliced EXCEPT !.segments = RereadAll(spliced.segments)]
<1>5. spliced \in Playlists(W) /\ Vocabulary \subseteq W
  <2>1. NamesOf(V) \subseteq W
    OBVIOUS
  <2> HIDE DEF W
  <2>2. spliced \in Playlists(W)
    BY <1>4, <2>1, PlaylistsGrow
  <2> QED BY <2>2 DEF W
<1> HIDE DEF W, plan, P
<1>6. manifest[2] = WritePlaylist(spliced)
  BY <1>1 DEF Origins, IsWritten, Output, Written
<1>7. back = [error |-> FALSE, playlist |-> q]
  BY <1>5, <1>6, RoundTrip
<1> HIDE DEF q, back
<1>8. n \in Nat /\ DOMAIN plan = 1 .. n /\ \A i \in 1 .. n : plan[i] \in P
  BY <1>4, LenProperties, ElementOfSeq
<1>9. spliced.segments \in Seq(MediaSegments(W)) /\ Len(spliced.segments) = n
  <2>1. spliced.segments \in Seq(MediaSegments(W))
    BY <1>5, PlaylistFields
  <2>2. DOMAIN spliced.segments = 1 .. n
    BY <1>4, <1>8
  <2>3. DOMAIN spliced.segments = 1 .. Len(spliced.segments) /\ Len(spliced.segments) \in Nat
    BY <2>1, LenProperties
  <2> QED BY <1>8, <2>1, <2>2, <2>3
<1>10. /\ RereadAll(spliced.segments) \in Seq(MediaSegments(W))
       /\ Len(RereadAll(spliced.segments)) = n
       /\ \A i \in 1 .. n : RereadAll(spliced.segments)[i] = Reread(spliced.segments[i])
  BY <1>9, RereadAllTyped
<1>11. Headed(q) = Headed(spliced) /\ q.segments = RereadAll(spliced.segments)
  <2>1. Headed(q) = Headed(spliced)
    BY <1>5, <1>10, HeadedKept DEF q
  <2>2. q.segments = RereadAll(spliced.segments)
    <3> DEFINE reread == RereadAll(spliced.segments)
    <3>1. q = WithSegments(spliced, reread)
      BY DEF q, WithSegments
    <3> HIDE DEF reread, q
    <3>2. spliced \in Playlists(W) /\ reread \in Seq(MediaSegments(W))
      BY <1>5, <1>10 DEF reread
    <3>3. WithSegments(spliced, reread).segments = reread
      BY <3>2, WithSegmentsIs
    <3> QED BY <3>1, <3>3 DEF reread
  <2> QED BY <2>1, <2>2
<1>12. ASSUME NEW i \in 1 .. n
       PROVE  Holds(q.segments[i], plan[i], spliced.segments[i])
  <2> DEFINE u == spliced.segments[i].uri
             copy == HlsCopy(Content, Uris(ad), u)
  <2>1. Shown(q.segments[i]) = Shown(spliced.segments[i])
    BY <1>10, <1>11, ShownKept
  <2>2. plan[i] \in P /\ spliced.segments[i] = Named(plan[i], Content, ad)
    BY <1>4, <1>8
  <2>3. u \in ToSet(Uris(spliced))
    BY <1>5, <1>9, UrisAre
  <2>4. copy \in Planned /\ copy.to = u
    BY <1>1, <2>3, HlsCopyTarget DEF Planned, HlsCopies
  <2>5. u \in DOMAIN files /\ files[u] = CopyOf(copy)
    <3> HIDE DEF copy, u
    <3> QED BY <1>1, <2>4 DEF IInv, CopiesAreMade
  <2>6. CopyOf(copy) = Origin(plan[i])
    <3> HIDE DEF copy
    <3>1. CopyOf(HlsCopy(Content, Uris(ad), Named(plan[i], Content, ad).uri)) = Origin(plan[i])
      BY <1>2, <2>2, PlannedIsCopied DEF P
    <3> QED BY <2>2, <3>1 DEF copy
  <2> QED BY <2>1, <2>5, <2>6 DEF Holds
<1>13. ~back.error /\ back.playlist = q
  BY <1>7
<1>14. Lists(back, plan)
  BY <1>8, <1>10, <1>11, <1>12, <1>13 DEF Lists
<1> QED BY <1>14 DEF HlsOutputHolds, back, plan, PlanOf

----------------------------------------------------------------------------
(* dash-stitch's files.  The halves of a template name none that it does not *)
(* name itself.                                                              *)
IsPartOf(half, tpl) ==
  /\ half.under = tpl.under /\ half.stem = tpl.stem
  /\ ToSet(Numbers(half)) \subseteq ToSet(Numbers(tpl))

LEMMA NumbersListed ==
  ASSUME NEW tpl
  PROVE  ToSet(Numbers(tpl)) = {Listed(tpl)[k].n : k \in DOMAIN Listed(tpl)}
<1> DEFINE numbers == Numbers(tpl)
           all == Listed(tpl)
<1>1. all = [k \in DOMAIN numbers |-> [n |-> numbers[k], dur |-> ExpandTimeline(tpl.timeline)[k].dur]]
  BY DEF Listed
<1> HIDE DEF numbers, all
<1>2. DOMAIN all = DOMAIN numbers /\ \A k \in DOMAIN numbers : all[k].n = numbers[k]
  BY <1>1
<1> QED BY <1>2 DEF ToSet, numbers, all

LEMMA PartNumbers ==
  ASSUME NEW all, NEW N \in Nat, DOMAIN all = 1 .. N, NEW first \in 1 .. N + 1, NEW last \in 0 .. N,
         first <= last + 1
  PROVE  \A k \in DOMAIN SubSeq(all, first, last) :
           \E j \in DOMAIN all : SubSeq(all, first, last)[k] = all[j]
<1>1. SubSeq(all, first, last) = [k \in 1 .. last - first + 1 |-> all[first + k - 1]]
  BY PartOf
<1> DEFINE part == SubSeq(all, first, last)
<1> HIDE DEF part
<1>2. DOMAIN part = 1 .. last - first + 1 /\ \A k \in 1 .. last - first + 1 : part[k] = all[first + k - 1]
  BY <1>1 DEF part
<1>3. \A k \in 1 .. last - first + 1 : first + k - 1 \in 1 .. N
  OBVIOUS
<1> QED BY <1>2, <1>3 DEF part

LEMMA HalvesName ==
  ASSUME NEW tpl \in Templates, NEW from, NEW to, Splittable(tpl, from, to)
  PROVE  IsPartOf(BeforeTemplate(tpl, from, to), tpl) /\ IsPartOf(AfterTemplate(tpl, from, to), tpl)
<1> DEFINE before == BeforeTemplate(tpl, from, to)
           after == AfterTemplate(tpl, from, to)
           all == Listed(tpl)
           N == Len(ExpandTimeline(tpl.timeline))
<1>1. /\ \A timeline : /\ [tpl EXCEPT !.timeline = timeline].under = tpl.under
                       /\ [tpl EXCEPT !.timeline = timeline].stem = tpl.stem
      /\ \A number, pto, timeline :
           LET new == [tpl EXCEPT !.startNumber = number, !.pto = pto, !.timeline = timeline]
           IN  new.under = tpl.under /\ new.stem = tpl.stem
  BY DEF Templates
<1>2. before.under = tpl.under /\ before.stem = tpl.stem
  BY <1>1 DEF BeforeTemplate
<1>3. after.under = tpl.under /\ after.stem = tpl.stem
  BY <1>1 DEF AfterTemplate, ResumedAt
<1>4. N \in Nat /\ all = [k \in 1 .. N |-> ListedAs(tpl, k)]
  BY TemplateFields, ListedIs
<1>5. PICK k, m \in 0 .. Len(all) :
        k <= m /\ Listed(before) = SubSeq(all, 1, k) /\ Listed(after) = SubSeq(all, m + 1, Len(all))
  BY HalvesKeep DEF SplitKeeps
<1> HIDE DEF before, after, all, N
<1>6. DOMAIN all = 1 .. N /\ Len(all) = N
  <2>1. all \in [1 .. N -> {all[i] : i \in 1 .. N}]
    BY <1>4
  <2> DEFINE T == {all[i] : i \in 1 .. N}
  <2> HIDE DEF T
  <2>2. all \in [1 .. N -> T] /\ N \in Nat
    BY <1>4, <2>1 DEF T
  <2>3. Len(all) = N
    BY <2>2
  <2> QED BY <1>4, <2>3
<1>7. \A i \in DOMAIN Listed(before) : \E j \in DOMAIN all : Listed(before)[i] = all[j]
  <2>1. 1 \in 1 .. N + 1 /\ k \in 0 .. N /\ 1 <= k + 1
    BY <1>4, <1>5, <1>6
  <2>2. \A i \in DOMAIN SubSeq(all, 1, k) : \E j \in DOMAIN all : SubSeq(all, 1, k)[i] = all[j]
    BY <1>4, <1>6, <2>1, PartNumbers
  <2> QED BY <1>5, <2>2
<1>8. \A i \in DOMAIN Listed(after) : \E j \in DOMAIN all : Listed(after)[i] = all[j]
  <2>1. m + 1 \in 1 .. N + 1 /\ N \in 0 .. N /\ m + 1 <= N + 1
    BY <1>4, <1>5, <1>6
  <2>2. \A i \in DOMAIN SubSeq(all, m + 1, N) : \E j \in DOMAIN all : SubSeq(all, m + 1, N)[i] = all[j]
    BY <1>4, <1>6, <2>1, PartNumbers
  <2> QED BY <1>5, <1>6, <2>2
<1>9. ToSet(Numbers(before)) \subseteq ToSet(Numbers(tpl))
  BY <1>7, NumbersListed DEF all
<1>10. ToSet(Numbers(after)) \subseteq ToSet(Numbers(tpl))
  BY <1>8, NumbersListed DEF all
<1> QED BY <1>2, <1>3, <1>9, <1>10 DEF IsPartOf, before, after

FilesNamed(tpl, id) ==
  {[under |-> tpl.under, stem |-> tpl.stem, rep |-> id, n |-> n] : n \in {InitFile} \cup ToSet(Numbers(tpl))}

LEMMA RepNames ==
  ASSUME NEW set, NEW rep
  PROVE  FilesOfRep(set, rep) = FilesNamed(EffectiveSegmentTemplate(rep, set), rep.id)
BY DEF FilesOfRep, FilesNamed, File

LEMMA PartNames ==
  ASSUME NEW half, NEW tpl, IsPartOf(half, tpl), NEW id
  PROVE  FilesNamed(half, id) \subseteq FilesNamed(tpl, id)
BY DEF FilesNamed, IsPartOf

LEMMA PeriodNames ==
  ASSUME NEW period, NEW f
  PROVE  f \in FilesOfPeriod(period) <=>
           \E i \in DOMAIN period.sets : \E j \in DOMAIN period.sets[i].reps :
             f \in FilesOfRep(period.sets[i], period.sets[i].reps[j])
BY DEF FilesOfPeriod

(* Nor does a half of a Period name a file that the Period does not.         *)
LEMMA HalfNames ==
  ASSUME NEW sets \in Seq(AdaptationSets), NEW from, NEW to, SplitAdaptationSets(sets, from, to).ok,
         NEW i \in DOMAIN sets, NEW j \in DOMAIN sets[i].reps
  PROVE  LET halves == SplitAdaptationSets(sets, from, to)
             all == FilesOfRep(sets[i], sets[i].reps[j])
         IN  /\ FilesOfRep(halves.before[i], halves.before[i].reps[j]) \subseteq all
             /\ FilesOfRep(halves.after[i], halves.after[i].reps[j]) \subseteq all
<1> DEFINE halves == SplitAdaptationSets(sets, from, to)
           set == sets[i]
           rep == set.reps[j]
           tpl == EffectiveSegmentTemplate(rep, set)
           all == FilesOfRep(sets[i], sets[i].reps[j])
<1>1. \A k \in DOMAIN sets : \A l \in DOMAIN sets[k].reps :
        Splittable(EffectiveSegmentTemplate(sets[k].reps[l], sets[k]), from, to)
  BY DEF SplitAdaptationSets
<1>2. Splittable(tpl, from, to)
  BY <1>1
<1>3. /\ halves.before[i] = WithTemplates(set, LAMBDA t : BeforeTemplate(t, from, to))
      /\ halves.after[i] = WithTemplates(set, LAMBDA t : AfterTemplate(t, from, to))
  BY <1>1 DEF SplitAdaptationSets
<1>4. /\ halves.before[i].reps[j] = [rep EXCEPT !.tpl = BeforeTemplate(tpl, from, to)]
      /\ halves.after[i].reps[j] = [rep EXCEPT !.tpl = AfterTemplate(tpl, from, to)]
      /\ halves.before[i].tpl = NoTemplate /\ halves.after[i].tpl = NoTemplate
  BY <1>3 DEF WithTemplates, AdaptationSet
<1>5. set \in AdaptationSets /\ rep \in Representations
  <2>1. set \in AdaptationSets
    BY LenProperties, ElementOfSeq
  <2>2. set.reps \in Seq(Representations)
    BY <2>1 DEF AdaptationSets
  <2> QED BY <2>1, <2>2, LenProperties, ElementOfSeq
<1>6. all = FilesNamed(tpl, rep.id)
  BY RepNames
<1> HIDE DEF set, all
<1>7. \A half : [rep EXCEPT !.tpl = half].tpl = half /\ [rep EXCEPT !.tpl = half].id = rep.id
  BY <1>5 DEF Representations
<1>8. tpl \in Templates \cup {NoTemplate}
  BY <1>5 DEF EffectiveSegmentTemplate, Representations, AdaptationSets
<1> HIDE DEF rep, tpl, halves
<1>9. tpl \in Templates
  BY <1>2, <1>8 DEF Splittable, Timed
<1>10. ASSUME NEW new, NEW half, new.tpl = NoTemplate, new.reps[j] = [rep EXCEPT !.tpl = half],
              IsPartOf(half, tpl)
       PROVE  FilesOfRep(new, new.reps[j]) \subseteq all
  <2>1. new.reps[j].tpl = half /\ new.reps[j].id = rep.id
    BY <1>7, <1>10
  <2>2. EffectiveSegmentTemplate(new.reps[j], new) = half
    BY <1>10, <2>1 DEF EffectiveSegmentTemplate
  <2>3. FilesOfRep(new, new.reps[j]) = FilesNamed(half, rep.id)
    BY <2>1, <2>2, RepNames
  <2> QED BY <1>6, <1>10, <2>3, PartNames
<1>11. IsPartOf(BeforeTemplate(tpl, from, to), tpl) /\ IsPartOf(AfterTemplate(tpl, from, to), tpl)
  BY <1>2, <1>9, HalvesName
<1>12. FilesOfRep(halves.before[i], halves.before[i].reps[j]) \subseteq all
  BY <1>4, <1>10, <1>11
<1>13. FilesOfRep(halves.after[i], halves.after[i].reps[j]) \subseteq all
  BY <1>4, <1>10, <1>11
<1> QED BY <1>12, <1>13 DEF halves, all

IsHalfOf(half, period, from, to) ==
  /\ period.sets \in Seq(AdaptationSets)
  /\ SplitAdaptationSets(period.sets, from, to).ok
  /\ half.sets \in {SplitAdaptationSets(period.sets, from, to).before,
                    SplitAdaptationSets(period.sets, from, to).after}

LEMMA HalfPeriodNames ==
  ASSUME NEW period, NEW from, NEW to, NEW half, IsHalfOf(half, period, from, to)
  PROVE  FilesOfPeriod(half) \subseteq FilesOfPeriod(period)
<1> USE DEF IsHalfOf
<1> DEFINE sets == period.sets
           halves == SplitAdaptationSets(sets, from, to)
<1>1. \A k \in DOMAIN sets : \A l \in DOMAIN sets[k].reps :
        Splittable(EffectiveSegmentTemplate(sets[k].reps[l], sets[k]), from, to)
  BY DEF SplitAdaptationSets
<1>2. /\ DOMAIN halves.before = DOMAIN sets /\ DOMAIN halves.after = DOMAIN sets
      /\ \A i \in DOMAIN sets : /\ DOMAIN halves.before[i].reps = DOMAIN sets[i].reps
                                /\ DOMAIN halves.after[i].reps = DOMAIN sets[i].reps
  BY <1>1 DEF SplitAdaptationSets, WithTemplates, AdaptationSet
<1> SUFFICES ASSUME NEW f \in FilesOfPeriod(half)
             PROVE  f \in FilesOfPeriod(period)
  OBVIOUS
<1>3. PICK i \in DOMAIN half.sets : \E j \in DOMAIN half.sets[i].reps :
        f \in FilesOfRep(half.sets[i], half.sets[i].reps[j])
  BY PeriodNames
<1>4. PICK j \in DOMAIN half.sets[i].reps : f \in FilesOfRep(half.sets[i], half.sets[i].reps[j])
  BY <1>3
<1>5. i \in DOMAIN sets /\ j \in DOMAIN sets[i].reps
  <2> HIDE DEF halves
  <2>1. half.sets = halves.before \/ half.sets = halves.after
    BY DEF halves
  <2> QED BY <1>2, <2>1
<1>6. f \in FilesOfRep(sets[i], sets[i].reps[j])
  <2>1. LET all == FilesOfRep(sets[i], sets[i].reps[j])
        IN  /\ FilesOfRep(halves.before[i], halves.before[i].reps[j]) \subseteq all
            /\ FilesOfRep(halves.after[i], halves.after[i].reps[j]) \subseteq all
    BY <1>5, HalfNames
  <2> HIDE DEF halves
  <2>2. half.sets = halves.before \/ half.sets = halves.after
    BY DEF halves
  <2> QED BY <1>4, <2>1, <2>2
<1> QED BY <1>5, <1>6, PeriodNames

(* So of a spliced MPD the Period of the ad is the ad's, and every other     *)
(* names files that the content names.                                       *)
LEMMA SplicedNames ==
  ASSUME NEW content, IsMpd(content), NEW adMpd, NEW allow,
         DashSplice(content, adMpd, allow).error = "none",
         NEW p \in DOMAIN DashSplice(content, adMpd, allow).mpd
  PROVE  LET mpd == DashSplice(content, adMpd, allow).mpd
             at == PeriodOfCue(content, ExtractCues(content).cues[1])
         IN  /\ adMpd # <<>>
             /\ p = at + 1 => mpd[p].sets = adMpd[1].sets
             /\ p # at + 1 => FilesOfPeriod(mpd[p]) \subseteq FilesOf(content)
<1> DEFINE mpd == DashSplice(content, adMpd, allow).mpd
           at == PeriodOfCue(content, ExtractCues(content).cues[1])
           adSets == adMpd[1].sets
<1>1. /\ at \in DOMAIN content /\ adMpd # <<>>
      /\ \E start, from, to : Splits(content, mpd, at, adSets, start, from, to)
  BY SpliceSplits
<1>2. p \in DOMAIN mpd
  OBVIOUS
<1> HIDE DEF mpd, at, adSets
<1>3. PICK start, from, to : Splits(content, mpd, at, adSets, start, from, to)
  BY <1>1
<1> DEFINE halves == SplitAdaptationSets(content[at].sets, from, to)
           pre == Period(Append(content[at].id, "pre"), content[at].start, <<>>, halves.before)
           between == Period(Append(content[at].id, "ad"), FormatDuration(start + from), <<>>, adSets)
           post == Period(Append(content[at].id, "post"), FormatDuration(start + to), <<>>, halves.after)
<1>4. halves.ok /\ mpd = SubSeq(content, 1, at - 1) \o <<pre, between, post>>
                           \o SubSeq(content, at + 1, Len(content))
  BY <1>3 DEF Splits, SplitPeriod
<1>5. pre.sets = halves.before /\ between.sets = adSets /\ post.sets = halves.after
  BY DEF Period
<1>6. content[at].sets \in Seq(AdaptationSets) /\ IsSequence(content)
  <2>1. IsSequence(content)
    BY DEF IsMpd
  <2>2. content[at] \in ToSet(content)
    BY <1>1, <2>1, SequenceOf
  <2> QED BY <2>1, <2>2 DEF IsMpd
<1> HIDE DEF pre, between, post
<1>7. Around(mpd, content, at, pre, between, post)
  <2>1. Around(SubSeq(content, 1, at - 1) \o <<pre, between, post>>
                 \o SubSeq(content, at + 1, Len(content)), content, at, pre, between, post)
    BY <1>1, <1>6, AroundReplaced
  <2> QED BY <1>4, <2>1
<1>8. p = at + 1 => mpd[p].sets = adSets
  BY <1>5, <1>7 DEF Around
<1>9. ASSUME p # at + 1
      PROVE  FilesOfPeriod(mpd[p]) \subseteq FilesOf(content)
  <2>1. \A i \in DOMAIN content : FilesOfPeriod(content[i]) \subseteq FilesOf(content)
    BY DEF FilesOf
  <2>2. mpd[p] \in {pre, post} \cup ToSet(content)
    BY <1>2, <1>7, <1>9 DEF Around
  <2>3. CASE mpd[p] \in ToSet(content)
    <3>1. PICK i \in DOMAIN content : mpd[p] = content[i]
      BY <2>3 DEF ToSet
    <3> QED BY <2>1, <3>1
  <2>4. CASE mpd[p] \in {pre, post}
    <3>1. mpd[p].sets \in {halves.before, halves.after}
      BY <1>5, <2>4
    <3>2. FilesOfPeriod(mpd[p]) \subseteq FilesOfPeriod(content[at])
      <4> DEFINE period == content[at]
                 half == mpd[p]
      <4>1. /\ period.sets \in Seq(AdaptationSets)
            /\ SplitAdaptationSets(period.sets, from, to).ok
            /\ half.sets \in {SplitAdaptationSets(period.sets, from, to).before,
                              SplitAdaptationSets(period.sets, from, to).after}
        BY <1>4, <1>6, <3>1
      <4> HIDE DEF period, half
      <4>2. IsHalfOf(half, period, from, to)
        BY <4>1, Zenon DEF IsHalfOf
      <4>3. FilesOfPeriod(half) \subseteq FilesOfPeriod(period)
        BY <4>2, HalfPeriodNames
      <4> QED BY <4>3 DEF period, half
    <3> QED BY <1>1, <2>1, <3>2
  <2> QED BY <2>2, <2>3, <2>4
<1> QED BY <1>1, <1>8, <1>9 DEF mpd, at, adSets

(* The second of the three Periods holds the ad's sets.                      *)
LEMMA AdIsSpliced ==
  ASSUME NEW content, IsMpd(content), NEW adMpd, NEW allow,
         DashSplice(content, adMpd, allow).error = "none"
  PROVE  LET mpd == DashSplice(content, adMpd, allow).mpd
             at == PeriodOfCue(content, ExtractCues(content).cues[1])
         IN  /\ adMpd # <<>> /\ mpd[at + 1].sets = adMpd[1].sets
<1> DEFINE mpd == DashSplice(content, adMpd, allow).mpd
           at == PeriodOfCue(content, ExtractCues(content).cues[1])
           adSets == adMpd[1].sets
<1>1. /\ at \in DOMAIN content /\ adMpd # <<>>
      /\ \E start, from, to : Splits(content, mpd, at, adSets, start, from, to)
  BY SpliceSplits
<1> HIDE DEF mpd, at, adSets
<1>2. PICK start, from, to : Splits(content, mpd, at, adSets, start, from, to)
  BY <1>1
<1> DEFINE halves == SplitAdaptationSets(content[at].sets, from, to)
           pre == Period(Append(content[at].id, "pre"), content[at].start, <<>>, halves.before)
           between == Period(Append(content[at].id, "ad"), FormatDuration(start + from), <<>>, adSets)
           post == Period(Append(content[at].id, "post"), FormatDuration(start + to), <<>>, halves.after)
           w == SubSeq(content, at + 1, Len(content))
<1>3. mpd = SubSeq(content, 1, at - 1) \o <<pre, between, post>> \o w
  BY <1>2 DEF Splits, SplitPeriod
<1>4. between.sets = adSets
  BY DEF Period
<1>5. IsSequence(content)
  BY DEF IsMpd
<1> HIDE DEF pre, between, post
<1>6. Around(mpd, content, at, pre, between, post)
  <2>1. Around(SubSeq(content, 1, at - 1) \o <<pre, between, post>> \o w, content, at, pre, between, post)
    BY <1>1, <1>5, AroundReplaced
  <2> QED BY <1>3, <2>1
<1> QED BY <1>1, <1>4, <1>6 DEF Around, mpd, at, adSets

(* The files of dash-stitch's directories are there as they were copied.     *)
LEMMA ContentIsThere ==
  ASSUME IInv, DashDone, ~input.inPlace, NEW f \in input.dir, f.under = 0
  PROVE  f \in DOMAIN files /\ files[f] = [from |-> "content", file |-> [f EXCEPT !.under = @ - 0]]
<1>1. Dashing /\ stage = "done" /\ Stitches /\ todo = {}
  BY DEF DashDone, Dashing, Stitches, IInv, NothingLeft
<1>2. IsFile(f)
  BY <1>1, DirectoryIsOfFiles DEF IInv
<1>3. [f EXCEPT !.under = 0] = f /\ [f EXCEPT !.under = @ - 0] = f
  BY <1>2 DEF IsFile
<1> DEFINE c == Copy("content", f, f)
<1>4. c \in Planned
  BY <1>1, <1>3 DEF Planned, DashCopies, CopyDirFiles
<1>5. c.to = f /\ CopyOf(c) = [from |-> "content", file |-> f]
  BY DEF Copy, CopyOf
<1> HIDE DEF c
<1>6. c.to \in DOMAIN files /\ files[c.to] = CopyOf(c)
  BY <1>1, <1>4 DEF IInv, CopiesAreMade
<1> QED BY <1>3, <1>5, <1>6

LEMMA AdIsThere ==
  ASSUME IInv, DashDone, NEW g \in AdDir, g.under = 0, NEW f, IsFile(f), f.under = 1,
         g = [f EXCEPT !.under = 0]
  PROVE  f \in DOMAIN files /\ files[f] = [from |-> "ad", file |-> [f EXCEPT !.under = @ - 1]]
<1>1. Dashing /\ stage = "done" /\ Stitches /\ todo = {}
  BY DEF DashDone, Dashing, Stitches, IInv, NothingLeft
<1>2. [f EXCEPT !.under = @ - 1] = g
  <2>1. f.under - 1 = 0
    OBVIOUS
  <2>2. [f EXCEPT !.under = f.under - 1] = [f EXCEPT !.under = 0]
    BY <2>1
  <2> QED BY <2>2
<1>3. [g EXCEPT !.under = 1] = f
  <2>1. [[f EXCEPT !.under = 0] EXCEPT !.under = 1] = [f EXCEPT !.under = 1]
    BY DEF IsFile
  <2>2. [f EXCEPT !.under = 1] = f
    BY DEF IsFile
  <2> QED BY <2>1, <2>2
<1> DEFINE c == Copy("ad", g, f)
<1>4. c \in Planned
  BY <1>1, <1>3 DEF Planned, DashCopies, CopyDirFiles
<1>5. c.to = f /\ CopyOf(c) = [from |-> "ad", file |-> g]
  BY DEF Copy, CopyOf
<1> HIDE DEF c
<1>6. c.to \in DOMAIN files /\ files[c.to] = CopyOf(c)
  BY <1>1, <1>4 DEF IInv, CopiesAreMade
<1> QED BY <1>2, <1>5, <1>6

(* What the files of an ad are called once prefixMediaPaths has put them     *)
(* under "ad/".                                                              *)
IsTemplate(t) ==
  /\ t.under \in Nat
  /\ t = [stem |-> t.stem, under |-> t.under, timescale |-> t.timescale,
          startNumber |-> t.startNumber, pto |-> t.pto, timed |-> t.timed, timeline |-> t.timeline]
IsRepresentation(rep) ==
  rep = [id |-> rep.id, tpl |-> rep.tpl] /\ (rep.tpl # NoTemplate => IsTemplate(rep.tpl))
IsAdaptationSet(set) ==
  set = [tpl |-> set.tpl, reps |-> set.reps] /\ \A j \in DOMAIN set.reps : IsRepresentation(set.reps[j])
IsPeriod(period) ==
  /\ period = [id |-> period.id, start |-> period.start, streams |-> period.streams,
               sets |-> period.sets]
  /\ \A i \in DOMAIN period.sets : IsAdaptationSet(period.sets[i])

LEMMA TemplateChanges ==
  ASSUME NEW t, IsTemplate(t)
  PROVE  /\ \A u \in Nat : LET new == [t EXCEPT !.under = u]
                           IN  /\ IsTemplate(new) /\ new.under = u /\ new.stem = t.stem
                               /\ new.startNumber = t.startNumber /\ new.timeline = t.timeline
         /\ \A timeline : LET new == [t EXCEPT !.timeline = timeline]
                          IN  /\ IsTemplate(new) /\ new.under = t.under /\ new.stem = t.stem
                              /\ new.startNumber = t.startNumber /\ new.timeline = timeline
BY DEF IsTemplate

LEMMA RepresentationChanges ==
  ASSUME NEW rep, IsRepresentation(rep), NEW t
  PROVE  /\ [rep EXCEPT !.tpl = t].tpl = t /\ [rep EXCEPT !.tpl = t].id = rep.id
         /\ IsTemplate(t) => IsRepresentation([rep EXCEPT !.tpl = t])
<1> DEFINE new == [rep EXCEPT !.tpl = t]
<1>1. new.tpl = t /\ new.id = rep.id /\ new = [id |-> new.id, tpl |-> new.tpl]
  BY DEF IsRepresentation
<1> HIDE DEF new
<1> QED BY <1>1 DEF IsRepresentation, new

LEMMA MpdIsOfPeriods ==
  ASSUME NEW mpd, IsMpd(mpd), NEW i \in DOMAIN mpd
  PROVE  IsPeriod(mpd[i])
<1> DEFINE period == mpd[i]
<1>1. period \in ToSet(mpd)
  BY DEF ToSet
<1>2. /\ period = [id |-> period.id, start |-> period.start, streams |-> period.streams,
                   sets |-> period.sets]
      /\ period.sets \in Seq(AdaptationSets)
  BY <1>1 DEF IsMpd, Period
<1> HIDE DEF period
<1>3. ASSUME NEW t \in Templates
      PROVE  IsTemplate(t)
  BY DEF Templates, IsTemplate
<1>4. ASSUME NEW rep \in Representations
      PROVE  IsRepresentation(rep)
  BY <1>3 DEF Representations, IsRepresentation
<1>5. ASSUME NEW set \in AdaptationSets
      PROVE  IsAdaptationSet(set)
  <2>1. set.reps \in Seq(Representations) /\ set = [tpl |-> set.tpl, reps |-> set.reps]
    BY DEF AdaptationSets
  <2>2. \A j \in DOMAIN set.reps : set.reps[j] \in Representations
    BY <2>1, LenProperties, ElementOfSeq
  <2> QED BY <1>4, <2>1, <2>2 DEF IsAdaptationSet
<1>6. \A j \in DOMAIN period.sets : period.sets[j] \in AdaptationSets
  BY <1>2, LenProperties, ElementOfSeq
<1> QED BY <1>2, <1>5, <1>6 DEF IsPeriod, period

LEMMA OwnNames ==
  ASSUME NEW period, NEW f
  PROVE  f \in OwnFiles(period) <=>
           \E i \in DOMAIN period.sets : \E j \in DOMAIN period.sets[i].reps :
             /\ period.sets[i].reps[j].tpl # NoTemplate
             /\ f \in FilesNamed(period.sets[i].reps[j].tpl, period.sets[i].reps[j].id)
<1>1. f \in OwnFiles(period) <=>
        \E i \in DOMAIN period.sets : \E j \in DOMAIN period.sets[i].reps :
          /\ period.sets[i].reps[j].tpl # NoTemplate
          /\ f \in FilesOfRep(period.sets[i], period.sets[i].reps[j])
  <2> DEFINE Own(i, j) == period.sets[i].reps[j].tpl # NoTemplate
             Files(i, j) == FilesOfRep(period.sets[i], period.sets[i].reps[j])
             indices == {r \in Reps(period) : Own(r[1], r[2])}
  <2>1. OwnFiles(period) = UNION {Files(ij[1], ij[2]) : ij \in indices}
    BY DEF OwnFiles
  <2>2. Reps(period) = UNION {{<<i, j>> : j \in DOMAIN period.sets[i].reps} : i \in DOMAIN period.sets}
    BY DEF Reps
  <2> HIDE DEF Own, Files
  <2>3. ASSUME f \in OwnFiles(period)
        PROVE  \E i \in DOMAIN period.sets : \E j \in DOMAIN period.sets[i].reps :
                 Own(i, j) /\ f \in Files(i, j)
    <3>1. PICK ij \in indices : f \in Files(ij[1], ij[2])
      BY <2>1, <2>3
    <3>2. PICK i \in DOMAIN period.sets : ij \in {<<i, j>> : j \in DOMAIN period.sets[i].reps}
      BY <2>2, <3>1
    <3>3. PICK j \in DOMAIN period.sets[i].reps : ij = <<i, j>>
      BY <3>2
    <3>4. ij[1] = i /\ ij[2] = j /\ Own(ij[1], ij[2])
      BY <3>1, <3>3
    <3> QED BY <3>1, <3>4
  <2>4. ASSUME NEW i \in DOMAIN period.sets, NEW j \in DOMAIN period.sets[i].reps,
               Own(i, j), f \in Files(i, j)
        PROVE  f \in OwnFiles(period)
    <3> DEFINE ij == <<i, j>>
    <3>1. ij \in Reps(period)
      BY <2>2
    <3>2. ij[1] = i /\ ij[2] = j
      OBVIOUS
    <3> HIDE DEF ij
    <3>3. ij \in indices /\ f \in Files(ij[1], ij[2])
      BY <2>4, <3>1, <3>2
    <3> QED BY <2>1, <3>3
  <2> QED BY <2>3, <2>4 DEF Own, Files
<1>2. \A set, rep : rep.tpl # NoTemplate => FilesOfRep(set, rep) = FilesNamed(rep.tpl, rep.id)
  BY RepNames DEF EffectiveSegmentTemplate
<1> QED BY <1>1, <1>2

(* Of a file, what it is called in the ad.                                   *)
IsBelow(f, g) == IsFile(f) /\ f.under = g.under + 1 /\ g = [f EXCEPT !.under = g.under]

LEMMA PrefixedRepNames ==
  ASSUME NEW rep, IsRepresentation(rep), PrefixRep(rep).tpl # NoTemplate,
         NEW f \in FilesNamed(PrefixRep(rep).tpl, PrefixRep(rep).id)
  PROVE  rep.tpl # NoTemplate /\ \E g \in FilesNamed(rep.tpl, rep.id) : IsBelow(f, g)
<1> DEFINE t == rep.tpl
           new == [t EXCEPT !.under = t.under + 1]
<1>1. t # NoTemplate
  BY DEF PrefixRep
<1>2. IsTemplate(t) /\ t.under \in Nat /\ t.under + 1 \in Nat
  BY <1>1 DEF IsRepresentation, IsTemplate
<1>3. PrefixRep(rep) = [rep EXCEPT !.tpl = new]
  <2>1. PrefixRep(rep) = [rep EXCEPT !.tpl.under = t.under + 1]
    BY <1>1 DEF PrefixRep
  <2> QED BY <2>1
<1>4. new.under = t.under + 1 /\ new.stem = t.stem /\ new.startNumber = t.startNumber
      /\ new.timeline = t.timeline
  BY <1>2, TemplateChanges
<1> HIDE DEF new
<1>5. PrefixRep(rep).tpl = new /\ PrefixRep(rep).id = rep.id
  BY <1>3, RepresentationChanges
<1>6. Numbers(new) = Numbers(t)
  BY <1>4 DEF Numbers
<1> HIDE DEF t
<1>7. PICK n \in {InitFile} \cup ToSet(Numbers(t)) :
        f = [under |-> t.under + 1, stem |-> t.stem, rep |-> rep.id, n |-> n]
  BY <1>4, <1>5, <1>6 DEF FilesNamed
<1> DEFINE g == [under |-> t.under, stem |-> t.stem, rep |-> rep.id, n |-> n]
<1>8. g \in FilesNamed(t, rep.id)
  BY DEF FilesNamed
<1>9. IsBelow(f, g)
  BY <1>7 DEF IsBelow, IsFile
<1> QED BY <1>1, <1>8, <1>9 DEF t

LEMMA PrefixedReps ==
  ASSUME NEW mpd, 1 \in DOMAIN mpd, IsPeriod(mpd[1]), NEW period,
         period.sets = PrefixMediaPaths(mpd)[1].sets
  PROVE  LET sets == mpd[1].sets
         IN  /\ DOMAIN period.sets = DOMAIN sets
             /\ \A s \in DOMAIN sets :
                  /\ IsAdaptationSet(sets[s])
                  /\ period.sets[s].reps = [r \in DOMAIN sets[s].reps |-> PrefixRep(sets[s].reps[r])]
<1> DEFINE sets == mpd[1].sets
           first == PrefixMediaPaths(mpd)[1]
<1>1. first = [mpd[1] EXCEPT !.sets =
                 [s \in DOMAIN sets |-> [sets[s] EXCEPT !.reps =
                    [r \in DOMAIN sets[s].reps |-> PrefixRep(sets[s].reps[r])]]]]
  BY DEF PrefixMediaPaths, InPeriod, InSet
<1>2. first.sets = [s \in DOMAIN sets |-> [sets[s] EXCEPT !.reps =
                      [r \in DOMAIN sets[s].reps |-> PrefixRep(sets[s].reps[r])]]]
  BY <1>1 DEF IsPeriod
<1> HIDE DEF first
<1>3. \A s \in DOMAIN sets : IsAdaptationSet(sets[s])
  BY DEF IsPeriod
<1> HIDE DEF sets
<1>4. DOMAIN period.sets = DOMAIN sets
      /\ \A s \in DOMAIN sets :
           period.sets[s].reps = [r \in DOMAIN sets[s].reps |-> PrefixRep(sets[s].reps[r])]
  <2>1. DOMAIN period.sets = DOMAIN sets
    BY <1>2 DEF first
  <2>2. ASSUME NEW s \in DOMAIN sets
        PROVE  period.sets[s].reps = [r \in DOMAIN sets[s].reps |-> PrefixRep(sets[s].reps[r])]
    <3> DEFINE set == sets[s]
               reps == [r \in DOMAIN sets[s].reps |-> PrefixRep(sets[s].reps[r])]
    <3>1. period.sets[s] = [set EXCEPT !.reps = reps]
      BY <1>2 DEF first
    <3>2. set = [tpl |-> set.tpl, reps |-> set.reps]
      BY <1>3 DEF IsAdaptationSet
    <3> HIDE DEF set, reps
    <3>3. [set EXCEPT !.reps = reps].reps = reps
      BY <3>2
    <3> QED BY <3>1, <3>3 DEF reps
  <2> QED BY <2>1, <2>2
<1> QED BY <1>3, <1>4 DEF sets

LEMMA PrefixedNames ==
  ASSUME NEW mpd, 1 \in DOMAIN mpd, IsPeriod(mpd[1]), NEW period,
         period.sets = PrefixMediaPaths(mpd)[1].sets, NEW f \in OwnFiles(period)
  PROVE  \E g \in OwnFiles(mpd[1]) : IsBelow(f, g)
<1> DEFINE sets == mpd[1].sets
<1>3. /\ DOMAIN period.sets = DOMAIN sets
      /\ \A s \in DOMAIN sets :
           /\ IsAdaptationSet(sets[s])
           /\ period.sets[s].reps = [r \in DOMAIN sets[s].reps |-> PrefixRep(sets[s].reps[r])]
  BY PrefixedReps
<1> HIDE DEF sets
<1>5. PICK i \in DOMAIN period.sets : \E j \in DOMAIN period.sets[i].reps :
        /\ period.sets[i].reps[j].tpl # NoTemplate
        /\ f \in FilesNamed(period.sets[i].reps[j].tpl, period.sets[i].reps[j].id)
  BY OwnNames
<1>6. PICK j \in DOMAIN period.sets[i].reps :
        /\ period.sets[i].reps[j].tpl # NoTemplate
        /\ f \in FilesNamed(period.sets[i].reps[j].tpl, period.sets[i].reps[j].id)
  BY <1>5
<1>7. i \in DOMAIN sets /\ j \in DOMAIN sets[i].reps
      /\ period.sets[i].reps[j] = PrefixRep(sets[i].reps[j])
  BY <1>3
<1>8. IsRepresentation(sets[i].reps[j])
  BY <1>3, <1>7 DEF IsAdaptationSet
<1> DEFINE rep == sets[i].reps[j]
<1> HIDE DEF rep
<1>9. rep.tpl # NoTemplate /\ \E g \in FilesNamed(rep.tpl, rep.id) : IsBelow(f, g)
  <2>1. IsRepresentation(rep) /\ PrefixRep(rep).tpl # NoTemplate
        /\ f \in FilesNamed(PrefixRep(rep).tpl, PrefixRep(rep).id)
    BY <1>6, <1>7, <1>8 DEF rep
  <2> QED BY <2>1, PrefixedRepNames
<1>10. PICK g \in FilesNamed(rep.tpl, rep.id) : IsBelow(f, g)
  BY <1>9
<1>11. g \in OwnFiles(mpd[1])
  BY <1>7, <1>9, OwnNames DEF rep, sets
<1> QED BY <1>10, <1>11

(* The merged end of an encoded track is one segment less, never one more.   *)
LEMMA ExpandCounts ==
  ASSUME NEW timeline \in Seq(Runs), NEW f, Expands(f, timeline), NEW k \in 1 .. Len(timeline)
  PROVE  /\ Len(f[k - 1].entries) \in Nat /\ Len(f[k].entries) \in Nat
         /\ RunLength(timeline[k]) \in Nat
         /\ Len(f[k].entries) = Len(f[k - 1].entries) + RunLength(timeline[k])
<1>1. k - 1 \in 0 .. Len(timeline) /\ timeline[k] \in Runs
  BY LenProperties, ElementOfSeq
<1>2. f[k - 1] \in Expanded /\ f[k] = Expand(f[k - 1], timeline[k])
  BY <1>1 DEF Expands
<1> DEFINE done == f[k - 1]
           s == timeline[k]
<1> HIDE DEF done, s
<1>3. done \in Expanded /\ s \in Runs
  BY <1>1, <1>2 DEF done, s
<1>4. /\ Len(done.entries) \in Nat /\ RunLength(s) \in Nat
      /\ Len(Expand(done, s).entries) = Len(done.entries) + RunLength(s)
  BY <1>3, ExpandOne
<1>5. f[k] = Expand(done, s)
  BY <1>2 DEF done, s
<1> HIDE DEF Expand
<1> QED BY <1>4, <1>5 DEF done, s

LEMMA ExpandsExist ==
  ASSUME NEW timeline \in Seq(Runs)
  PROVE  \E f : Expands(f, timeline) /\ Len(ExpandTimeline(timeline)) = Len(f[Len(timeline)].entries)
<1>1. PICK f \in [0 .. Len(timeline) -> Expanded] :
        /\ f[0] = Nothing /\ ExpandTimeline(timeline) = f[Len(timeline)].entries
        /\ \A k \in 1 .. Len(timeline) : f[k] = Expand(f[k - 1], timeline[k])
  BY ExpandSteps
<1> QED BY <1>1 DEF Expands

(* The length of a track: what its entries last, added up from the first.    *)
AddsUp(f, entries) ==
  /\ f \in [0 .. Len(entries) -> Int] /\ f[0] = 0
  /\ HLS!TotalDuration(entries) = f[Len(entries)]
  /\ \A k \in 1 .. Len(entries) : f[k] = f[k - 1] + entries[k].dur

LEMMA TotalSteps ==
  ASSUME NEW s \in Seq(Entries)
  PROVE  \E f : AddsUp(f, s)
<1> DEFINE n == Len(s)
           V == Int
           One(x, k) == x + s[k].dur
           Steps(f) == [k \in 0 .. n |-> IF k = 0 THEN 0 ELSE One(f[k - 1], k)]
           chosen == CHOOSE f : f = Steps(f)
<1>1. n \in Nat /\ \A k \in 1 .. n : s[k] \in Entries /\ s[k].dur \in Int
  <2>1. n \in Nat /\ \A k \in 1 .. n : s[k] \in Entries
    BY LenProperties, ElementOfSeq
  <2>2. \A e \in Entries : e.dur \in Int
    BY DEF Entries
  <2> QED BY <2>1, <2>2
<1>2. HLS!TotalDuration(s) = chosen[n]
  BY Zenon DEF HLS!TotalDuration
<1>3. 0 \in V
  OBVIOUS
<1>4. \A k \in 1 .. n, x \in V : One(x, k) \in V
  BY <1>1
<1>5. PICK next \in [1 .. n -> [V -> V]] :
        \A k \in 1 .. n, x \in V : next[k][x] = One(x, k)
  <2> DEFINE all == [k \in 1 .. n |-> [x \in V |-> One(x, k)]]
  <2>1. \A k \in 1 .. n, x \in V : all[k][x] = One(x, k)
    OBVIOUS
  <2> HIDE DEF One, V
  <2>2. all \in [1 .. n -> [V -> V]]
    BY <1>4
  <2> QED BY <2>1, <2>2
<1> HIDE DEF One, V
<1>6. PICK f : Iterates(f, V, 0, n, next)
  BY <1>1, <1>3, StepsExist
<1>7. \A k \in 1 .. n : k # 0 /\ k \in 0 .. n /\ k - 1 \in 0 .. n
  BY <1>1
<1>8. \A k \in 1 .. n : f[k] = One(f[k - 1], k)
  BY <1>5, <1>6, <1>7 DEF Iterates
<1>9. f = Steps(f)
  <2>1. f \in [0 .. n -> V] /\ f[0] = 0
    BY <1>6 DEF Iterates
  <2>2. \A k \in 0 .. n : f[k] = Steps(f)[k]
    BY <1>1, <1>8, <2>1
  <2> QED BY <2>1, <2>2
<1>10. chosen = Steps(chosen)
  BY <1>9
<1> HIDE DEF chosen
<1>11. chosen[0] = 0 /\ \A k \in 1 .. n : chosen[k] = One(chosen[k - 1], k)
  <2>1. \A k \in 0 .. n : chosen[k] = Steps(chosen)[k]
    BY <1>10
  <2> QED BY <1>1, <1>7, <2>1
<1>12. chosen \in [0 .. n -> V]
  <2>1. \A k \in 1 .. n : chosen[k - 1] \in V => chosen[k] = next[k][chosen[k - 1]]
    BY <1>5, <1>11
  <2>2. \A k \in 0 .. n : chosen[k] \in V
    BY <1>1, <1>3, <1>6, <1>11, <2>1, StepsAgree
  <2> QED BY <1>10, <2>2
<1>13. AddsUp(chosen, s)
  BY <1>2, <1>11, <1>12 DEF AddsUp, One, V
<1> QED BY <1>13

(* A run of equal entries at the end adds its length.                        *)
LEMMA RunAdds ==
  ASSUME NEW a \in Seq(Entries), NEW b \in Seq(Entries), NEW c \in Nat, NEW d \in Int,
         Len(b) = Len(a) + c, \A k \in 1 .. Len(a) : b[k] = a[k],
         \A k \in 1 .. c : b[Len(a) + k].dur = d
  PROVE  /\ HLS!TotalDuration(a) \in Int
         /\ HLS!TotalDuration(b) = HLS!TotalDuration(a) + c * d
<1> DEFINE n == Len(a)
<1>1. PICK f : AddsUp(f, a)
  BY TotalSteps
<1>2. PICK g : AddsUp(g, b)
  BY TotalSteps
<1>3. n \in Nat /\ n \in 0 .. n /\ f[n] \in Int /\ HLS!TotalDuration(a) = f[n]
  BY <1>1, LenProperties DEF AddsUp
<1> DEFINE Agreed == {k \in Nat : k <= n => g[k] = f[k]}
           Grown == {k \in Nat : k <= c => g[n + k] = f[n] + k * d}
<1>4. 0 \in Agreed
  BY <1>1, <1>2 DEF AddsUp
<1>5. ASSUME NEW k \in Agreed
      PROVE  k + 1 \in Agreed
  <2> SUFFICES ASSUME k + 1 <= n
               PROVE  g[k + 1] = f[k + 1]
    OBVIOUS
  <2>1. k + 1 \in 1 .. n /\ k + 1 \in 1 .. Len(b) /\ (k + 1) - 1 = k /\ g[k] = f[k]
    BY <1>3
  <2>2. f[k + 1] = f[k] + a[k + 1].dur
    BY <1>1, <2>1 DEF AddsUp
  <2>3. g[k + 1] = g[k] + b[k + 1].dur
    BY <1>2, <2>1 DEF AddsUp
  <2> QED BY <2>1, <2>2, <2>3
<1>6. Agreed = Nat
  <2>1. Agreed \subseteq Nat
    OBVIOUS
  <2> HIDE DEF Agreed
  <2> QED BY <1>4, <1>5, <2>1, SetInduction
<1>7. g[n] = f[n]
  BY <1>3, <1>6
<1>8. 0 \in Grown
  BY <1>3, <1>7
<1>9. ASSUME NEW k \in Grown
      PROVE  k + 1 \in Grown
  <2> SUFFICES ASSUME k + 1 <= c
               PROVE  g[n + (k + 1)] = f[n] + (k + 1) * d
    OBVIOUS
  <2> DEFINE j == n + k
  <2>1. /\ k \in Nat /\ k + 1 \in 1 .. c /\ j + 1 \in 1 .. Len(b) /\ (j + 1) - 1 = j
        /\ n + (k + 1) = j + 1 /\ g[j] = f[n] + k * d
    BY <1>3
  <2>2. b[j + 1].dur = d
    BY <2>1
  <2> HIDE DEF j
  <2>3. g[j + 1] = g[j] + b[j + 1].dur
    BY <1>2, <2>1 DEF AddsUp
  <2>4. (f[n] + k * d) + d = f[n] + (k + 1) * d
    BY <1>3, <2>1
  <2> QED BY <2>1, <2>2, <2>3, <2>4
<1>10. Grown = Nat
  <2>1. Grown \subseteq Nat
    OBVIOUS
  <2> HIDE DEF Grown
  <2> QED BY <1>8, <1>9, <2>1, SetInduction
<1>11. g[n + c] = f[n] + c * d
  <2>1. c \in Grown
    <3> HIDE DEF Grown
    <3> QED BY <1>10
  <2>2. c <= c
    OBVIOUS
  <2> QED BY <2>1, <2>2
<1>12. HLS!TotalDuration(b) = g[n + c]
  BY <1>2 DEF AddsUp
<1> QED BY <1>3, <1>11, <1>12

LEMMA ExpandTicks ==
  ASSUME NEW timeline \in Seq(Runs), NEW f, Expands(f, timeline), NEW k \in 1 .. Len(timeline)
  PROVE  /\ HLS!TotalDuration(f[k - 1].entries) \in Int
         /\ HLS!TotalDuration(f[k].entries)
              = HLS!TotalDuration(f[k - 1].entries) + RunLength(timeline[k]) * timeline[k].d
<1>1. k - 1 \in 0 .. Len(timeline) /\ timeline[k] \in Runs
  BY LenProperties, ElementOfSeq
<1>2. f[k - 1] \in Expanded /\ f[k] = Expand(f[k - 1], timeline[k])
  BY <1>1 DEF Expands
<1> DEFINE done == f[k - 1]
           s == timeline[k]
           longer == Expand(done, s)
<1> HIDE DEF done, s
<1>3. done \in Expanded /\ s \in Runs
  BY <1>1, <1>2 DEF done, s
<1>4. s.d \in Int
  BY <1>3 DEF Runs
<1>5. /\ longer \in Expanded /\ done.entries \in Seq(Entries) /\ RunLength(s) \in Nat
      /\ Len(longer.entries) = Len(done.entries) + RunLength(s)
      /\ \A i \in 1 .. Len(done.entries) : longer.entries[i] = done.entries[i]
      /\ \A i \in 1 .. RunLength(s) : longer.entries[Len(done.entries) + i].dur = s.d
  BY <1>3, ExpandOne
<1>6. f[k] = longer
  BY <1>2 DEF done, s
<1> HIDE DEF longer
<1>7. longer.entries \in Seq(Entries)
  BY <1>5 DEF Expanded
<1>8. /\ HLS!TotalDuration(done.entries) \in Int
      /\ HLS!TotalDuration(longer.entries) = HLS!TotalDuration(done.entries) + RunLength(s) * s.d
  BY <1>4, <1>5, <1>7, RunAdds
<1> QED BY <1>6, <1>8 DEF done, s

(* The end that is merged has no more segments, and lasts as long.           *)
LEMMA RunLeavesRun ==
  ASSUME NEW timeline \in Seq(WholeRuns), Len(timeline) > 1, timeline[Len(timeline)].r <= 0,
         timeline[Len(timeline) - 1].r > 0
  PROVE  /\ MergeTail(timeline) \in Seq(Runs)
         /\ Len(ExpandTimeline(MergeTail(timeline))) <= Len(ExpandTimeline(timeline))
         /\ HLS!TotalDuration(ExpandTimeline(MergeTail(timeline)))
              = HLS!TotalDuration(ExpandTimeline(timeline))
<1> DEFINE n == Len(timeline)
           last == timeline[n]
           prev == timeline[n - 1]
           shorter == [prev EXCEPT !.r = @ - 1]
           end == S(Absent, prev.d + last.d, 0)
           merged == [[timeline EXCEPT ![n - 1] = shorter] EXCEPT ![n] = end]
<1>1. n \in Nat /\ n \in 1 .. n /\ n - 1 \in 1 .. n /\ n - 2 \in Nat /\ n - 1 # n
  BY LenProperties
<1>2. last \in WholeRuns /\ prev \in WholeRuns
  BY <1>1, ElementOfSeq
<1>3. shorter \in WholeRuns /\ RunLength(shorter) + 1 = RunLength(prev) /\ RunLength(last) = 1
  <2>1. prev.r > 0 /\ last.r <= 0
    OBVIOUS
  <2> HIDE DEF prev, last
  <2>2. prev.r \in Nat /\ prev.r - 1 \in Nat /\ last.r = 0
    BY <1>2, <2>1 DEF WholeRuns
  <2>3. shorter \in WholeRuns /\ shorter.r = prev.r - 1
    BY <1>2, <2>2 DEF WholeRuns
  <2> HIDE DEF shorter
  <2> QED BY <2>2, <2>3 DEF RunLength
<1>4. end \in WholeRuns /\ RunLength(end) = 1
  <2>1. prev.d \in Int /\ last.d \in Int
    BY <1>2 DEF WholeRuns
  <2> HIDE DEF prev, last
  <2> QED BY <2>1 DEF S, Absent, WholeRuns, RunLength
<1>5. MergeTail(timeline) = merged
  BY <1>1 DEF MergeTail
<1> HIDE DEF shorter, end, prev, last, n
<1> DEFINE first == [timeline EXCEPT ![n - 1] = shorter]
<1>6. /\ first \in Seq(WholeRuns) /\ Len(first) = n /\ first[n - 1] = shorter
      /\ \A k \in 1 .. n : k # n - 1 => first[k] = timeline[k]
  BY <1>1, <1>3, ExceptSeq DEF n
<1> HIDE DEF first
<1>7. /\ merged \in Seq(WholeRuns) /\ Len(merged) = n /\ merged[n] = end
      /\ \A k \in 1 .. n : k # n => merged[k] = first[k]
  <2>1. merged = [first EXCEPT ![n] = end]
    BY DEF first
  <2> HIDE DEF merged
  <2> QED BY <1>1, <1>4, <1>6, <2>1, ExceptSeq
<1> HIDE DEF merged
<1>8. timeline \in Seq(Runs) /\ merged \in Seq(Runs)
  BY <1>7, WholeRunsAreRuns
<1>9. PICK f : Expands(f, timeline) /\ Len(ExpandTimeline(timeline)) = Len(f[n].entries)
  BY <1>8, ExpandsExist DEF n
<1>10. PICK g : Expands(g, merged) /\ Len(ExpandTimeline(merged)) = Len(g[n].entries)
  BY <1>7, <1>8, ExpandsExist
<1>11. f[n - 2] = g[n - 2]
  <2>1. \A k \in 1 .. n - 2 : timeline[k] = merged[k]
    BY <1>1, <1>6, <1>7
  <2>2. n - 2 <= Len(timeline) /\ n - 2 <= Len(merged)
    BY <1>1, <1>7 DEF n
  <2> QED BY <1>1, <1>8, <1>9, <1>10, <2>1, <2>2, ExpandAgrees
<1>12. /\ Len(f[n - 2].entries) \in Nat
       /\ Len(f[n - 1].entries) = Len(f[n - 2].entries) + RunLength(prev)
       /\ Len(f[n].entries) = Len(f[n - 1].entries) + RunLength(last)
  <2>1. (n - 1) - 1 = n - 2
    BY <1>1
  <2> QED BY <1>1, <1>8, <1>9, <2>1, ExpandCounts DEF n, prev, last
<1>13. /\ Len(g[n - 1].entries) = Len(g[n - 2].entries) + RunLength(shorter)
       /\ Len(g[n].entries) = Len(g[n - 1].entries) + RunLength(end)
  <2>1. (n - 1) - 1 = n - 2 /\ merged[n - 1] = shorter
    BY <1>1, <1>6, <1>7
  <2> QED BY <1>1, <1>7, <1>8, <1>10, <2>1, ExpandCounts
<1>14. RunLength(shorter) \in Nat
  BY <1>3 DEF RunLength, WholeRuns
<1>15. Len(g[n].entries) <= Len(f[n].entries)
  <2> DEFINE a == Len(f[n - 2].entries)
             b == RunLength(shorter)
  <2>1. Len(f[n].entries) = a + (b + 1) + 1
    BY <1>3, <1>12
  <2>2. Len(g[n].entries) = a + b + 1
    BY <1>4, <1>11, <1>13
  <2>3. a \in Nat /\ b \in Nat
    BY <1>12, <1>14
  <2> HIDE DEF a, b
  <2> QED BY <2>1, <2>2, <2>3
<1>16. HLS!TotalDuration(g[n].entries) = HLS!TotalDuration(f[n].entries)
  <2>1. /\ (n - 1) - 1 = n - 2 /\ merged[n - 1] = shorter
        /\ Expands(f, timeline) /\ n = Len(timeline)
    <3>1. n = Len(timeline)
      BY DEF n
    <3>2. (n - 1) - 1 = n - 2
      BY <1>1
    <3>3. merged[n - 1] = shorter
      BY <1>1, <1>6, <1>7
    <3> QED BY <1>9, <3>1, <3>2, <3>3
  <2> DEFINE T(x) == HLS!TotalDuration(x.entries)
             b == RunLength(shorter)
  <2>2. /\ T(f[n - 2]) \in Int /\ T(f[n - 1]) = T(f[n - 2]) + RunLength(prev) * prev.d
        /\ T(f[n]) = T(f[n - 1]) + RunLength(last) * last.d
    BY <1>1, <1>8, <2>1, ExpandTicks DEF prev, last
  <2>3. /\ T(g[n - 1]) = T(g[n - 2]) + b * shorter.d
        /\ T(g[n]) = T(g[n - 1]) + RunLength(end) * end.d
    <3>1. n - 1 \in 1 .. Len(merged) /\ n \in 1 .. Len(merged) /\ merged[n] = end /\ Expands(g, merged)
      BY <1>1, <1>7, <1>10
    <3> QED BY <1>8, <2>1, <3>1, ExpandTicks
  <2>4. shorter.d = prev.d /\ end.d = prev.d + last.d /\ prev.d \in Int /\ last.d \in Int
    BY <1>2 DEF shorter, end, S, WholeRuns
  <2>5. T(f[n]) = T(f[n - 2]) + (b + 1) * prev.d + last.d
    BY <1>3, <1>14, <2>2, <2>4
  <2>6. T(g[n]) = T(f[n - 2]) + b * prev.d + (prev.d + last.d)
    BY <1>4, <1>11, <1>14, <2>2, <2>3, <2>4
  <2>7. b \in Nat /\ T(f[n - 2]) \in Int
    BY <1>14, <2>2
  <2> HIDE DEF b
  <2>8. (b + 1) * prev.d = b * prev.d + prev.d /\ b * prev.d \in Int
    BY <2>4, <2>7
  <2> DEFINE run == b * prev.d
             more == (b + 1) * prev.d
             old == T(f[n])
             new == T(g[n])
             base == T(f[n - 2])
  <2>9. old = base + more + last.d /\ new = base + run + (prev.d + last.d) /\ more = run + prev.d
        /\ base \in Int /\ run \in Int
    BY <2>5, <2>6, <2>7, <2>8
  <2> HIDE DEF run, more, old, new, base
  <2>10. new = old
    BY <2>4, <2>9
  <2> QED BY <2>10 DEF new, old
<1>17. /\ ExpandTimeline(timeline) = f[n].entries
       /\ ExpandTimeline(merged) = g[n].entries
  BY <1>7, <1>9, <1>10 DEF Expands, n
<1>18. MergeTail(timeline) = merged
  BY <1>5 DEF merged
<1> QED BY <1>8, <1>15, <1>16, <1>17, <1>18

LEMMA RunIsDropped ==
  ASSUME NEW timeline \in Seq(WholeRuns), Len(timeline) > 1, timeline[Len(timeline)].r <= 0,
         ~(timeline[Len(timeline) - 1].r > 0)
  PROVE  /\ MergeTail(timeline) \in Seq(Runs)
         /\ Len(ExpandTimeline(MergeTail(timeline))) <= Len(ExpandTimeline(timeline))
         /\ HLS!TotalDuration(ExpandTimeline(MergeTail(timeline)))
              = HLS!TotalDuration(ExpandTimeline(timeline))
<1> DEFINE n == Len(timeline)
           last == timeline[n]
           prev == timeline[n - 1]
           longer == [prev EXCEPT !.d = @ + last.d]
           front == Front(timeline)
           merged == [front EXCEPT ![n - 1].d = @ + last.d]
<1>1. n \in Nat /\ n \in 1 .. n /\ n - 1 \in 1 .. n /\ n - 2 \in Nat /\ n - 1 # n
  BY LenProperties
<1>2. last \in WholeRuns /\ prev \in WholeRuns
  BY <1>1, ElementOfSeq
<1>3. longer \in WholeRuns /\ RunLength(longer) = RunLength(prev) /\ RunLength(last) = 1
  <2>1. last.r <= 0
    OBVIOUS
  <2> HIDE DEF prev, last
  <2>2. prev.d + last.d \in Int /\ last.r = 0
    BY <1>2, <2>1 DEF WholeRuns
  <2>3. longer \in WholeRuns /\ longer.r = prev.r
    BY <1>2, <2>2 DEF WholeRuns
  <2> HIDE DEF longer
  <2> QED BY <2>2, <2>3 DEF RunLength
<1>4. MergeTail(timeline) = merged
  BY <1>1 DEF MergeTail
<1>5. front \in Seq(WholeRuns) /\ Len(front) = n - 1 /\ \A k \in 1 .. n - 1 : front[k] = timeline[k]
  <2>1. front = SubSeq(timeline, 1, n - 1)
    BY DEF Front
  <2>2. SubSeq(timeline, 1, n - 1) = [k \in 1 .. n - 1 |-> timeline[k]]
    BY <1>1
  <2>3. \A k \in 1 .. n - 1 : timeline[k] \in WholeRuns
    BY <1>1, ElementOfSeq
  <2>4. front \in [1 .. n - 1 -> WholeRuns] /\ n - 1 \in Nat
    <3> HIDE DEF front, n
    <3>1. front = [k \in 1 .. n - 1 |-> timeline[k]]
      BY <2>1, <2>2
    <3>2. n - 1 \in Nat
      BY <1>1
    <3> QED BY <2>3, <3>1, <3>2
  <2>5. front \in Seq(WholeRuns) /\ Len(front) = n - 1
    <3> HIDE DEF front, n
    <3> QED BY <2>4
  <2> QED BY <2>1, <2>2, <2>5
<1> HIDE DEF front
<1>6. merged = [front EXCEPT ![n - 1] = longer]
  <2>1. front[n - 1] = prev
    BY <1>1, <1>5
  <2> QED BY <2>1
<1> HIDE DEF merged, longer, prev, last, n
<1>7. /\ merged \in Seq(WholeRuns) /\ Len(merged) = n - 1 /\ merged[n - 1] = longer
      /\ \A k \in 1 .. n - 1 : k # n - 1 => merged[k] = front[k]
  BY <1>1, <1>3, <1>5, <1>6, ExceptSeq
<1>8. timeline \in Seq(Runs) /\ merged \in Seq(Runs)
  BY <1>7, WholeRunsAreRuns
<1>9. PICK f : Expands(f, timeline) /\ Len(ExpandTimeline(timeline)) = Len(f[n].entries)
  BY <1>8, ExpandsExist DEF n
<1>10. PICK g : Expands(g, merged) /\ Len(ExpandTimeline(merged)) = Len(g[n - 1].entries)
  BY <1>7, <1>8, ExpandsExist
<1>11. f[n - 2] = g[n - 2]
  <2>1. \A k \in 1 .. n - 2 : timeline[k] = merged[k]
    BY <1>1, <1>5, <1>7
  <2>2. n - 2 <= Len(timeline) /\ n - 2 <= Len(merged)
    BY <1>1, <1>7 DEF n
  <2> QED BY <1>1, <1>8, <1>9, <1>10, <2>1, <2>2, ExpandAgrees
<1>12. /\ Len(f[n - 2].entries) \in Nat
       /\ Len(f[n - 1].entries) = Len(f[n - 2].entries) + RunLength(prev)
       /\ Len(f[n].entries) = Len(f[n - 1].entries) + RunLength(last)
  <2>1. (n - 1) - 1 = n - 2
    BY <1>1
  <2> QED BY <1>1, <1>8, <1>9, <2>1, ExpandCounts DEF n, prev, last
<1>13. Len(g[n - 1].entries) = Len(g[n - 2].entries) + RunLength(longer)
  <2>1. (n - 1) - 1 = n - 2 /\ n - 1 \in 1 .. Len(merged)
    BY <1>1, <1>7
  <2> QED BY <1>7, <1>8, <1>10, <2>1, ExpandCounts
<1>14. RunLength(prev) \in Nat
  BY <1>2 DEF RunLength, WholeRuns
<1>15. Len(g[n - 1].entries) <= Len(f[n].entries)
  <2> DEFINE a == Len(f[n - 2].entries)
             b == RunLength(prev)
  <2>1. Len(f[n].entries) = a + b + 1
    BY <1>3, <1>12
  <2>2. Len(g[n - 1].entries) = a + b
    BY <1>3, <1>11, <1>13
  <2>3. a \in Nat /\ b \in Nat
    BY <1>12, <1>14
  <2> HIDE DEF a, b
  <2> QED BY <2>1, <2>2, <2>3
<1>16. HLS!TotalDuration(g[n - 1].entries) = HLS!TotalDuration(f[n].entries)
  <2>1. /\ (n - 1) - 1 = n - 2 /\ n - 1 \in 1 .. Len(merged)
        /\ Expands(f, timeline) /\ n = Len(timeline)
    <3>1. n = Len(timeline)
      BY DEF n
    <3>2. (n - 1) - 1 = n - 2 /\ n - 1 \in 1 .. Len(merged)
      BY <1>1, <1>7
    <3> QED BY <1>9, <3>1, <3>2
  <2> DEFINE T(x) == HLS!TotalDuration(x.entries)
  <2>2. /\ T(f[n - 2]) \in Int /\ T(f[n - 1]) = T(f[n - 2]) + RunLength(prev) * prev.d
        /\ T(f[n]) = T(f[n - 1]) + RunLength(last) * last.d
    BY <1>1, <1>8, <2>1, ExpandTicks DEF prev, last
  <2>3. T(g[n - 1]) = T(g[n - 2]) + RunLength(longer) * longer.d
    BY <1>7, <1>8, <1>10, <2>1, ExpandTicks
  <2>4. longer.d = prev.d + last.d /\ prev.d \in Int /\ last.d \in Int
    BY <1>2 DEF longer, WholeRuns
  <2>5. RunLength(prev) = 1
    <3>1. prev \in WholeRuns /\ ~(prev.r > 0)
      BY <1>2 DEF prev, n
    <3>2. prev.r = 0
      BY <3>1 DEF WholeRuns
    <3> QED BY <3>2 DEF RunLength
  <2> HIDE DEF T
  <2>6. T(g[n - 1]) = T(f[n])
    BY <1>3, <1>11, <2>2, <2>3, <2>4, <2>5
  <2> QED BY <2>6 DEF T
<1>17. /\ ExpandTimeline(timeline) = f[n].entries
       /\ ExpandTimeline(merged) = g[n - 1].entries
  BY <1>7, <1>9, <1>10 DEF Expands, n
<1> QED BY <1>4, <1>8, <1>15, <1>16, <1>17

LEMMA MergedNames ==
  ASSUME NEW tpl, IsTemplate(tpl), tpl.timeline \in Seq(WholeRuns)
  PROVE  IsTemplate(MergeTrailingShortSegment(tpl)) /\ IsPartOf(MergeTrailingShortSegment(tpl), tpl)
<1> DEFINE timeline == tpl.timeline
           merged == MergeTail(timeline)
           new == [tpl EXCEPT !.timeline = merged]
<1>1. CASE ~(Timed(tpl) /\ ShortTail(tpl))
  BY <1>1 DEF MergeTrailingShortSegment, IsPartOf
<1>2. CASE Timed(tpl) /\ ShortTail(tpl)
  <2>1. MergeTrailingShortSegment(tpl) = new
    BY <1>2 DEF MergeTrailingShortSegment, IsTemplate
  <2>2. Len(timeline) > 1 /\ timeline[Len(timeline)].r <= 0
    BY <1>2 DEF ShortTail
  <2>3. merged \in Seq(Runs) /\ Len(ExpandTimeline(merged)) <= Len(ExpandTimeline(timeline))
    <3> HIDE DEF merged
    <3>1. CASE timeline[Len(timeline) - 1].r > 0
      BY <2>2, <3>1, RunLeavesRun DEF merged
    <3>2. CASE ~(timeline[Len(timeline) - 1].r > 0)
      BY <2>2, <3>2, RunIsDropped DEF merged
    <3> QED BY <3>1, <3>2
  <2> HIDE DEF merged
  <2>4. /\ IsTemplate(new) /\ new.under = tpl.under /\ new.stem = tpl.stem
        /\ new.startNumber = tpl.startNumber /\ new.timeline = merged
    BY TemplateChanges
  <2> HIDE DEF new, timeline
  <2>5. DOMAIN ExpandTimeline(merged) \subseteq DOMAIN ExpandTimeline(timeline)
    <3>1. ExpandTimeline(merged) \in Seq(Entries) /\ ExpandTimeline(timeline) \in Seq(Entries)
      BY <2>3, WholeRunsAreRuns, ExpandTyped DEF timeline
    <3> QED BY <2>3, <3>1, LenProperties
  <2>6. ToSet(Numbers(new)) \subseteq ToSet(Numbers(tpl))
    BY <2>4, <2>5 DEF Numbers, ToSet, timeline
  <2> QED BY <2>1, <2>4, <2>6 DEF IsPartOf
<1> QED BY <1>1, <1>2

(* So an encoded ad that was merged names only files that FFmpeg wrote.      *)
IsEncoded(rep) ==
  /\ rep = [id |-> rep.id, tpl |-> rep.tpl] /\ IsTemplate(rep.tpl) /\ rep.tpl.under = 0
  /\ rep.tpl.timeline \in Seq(WholeRuns)

LEMMA EncodedRepIs ==
  ASSUME NEW id, NEW durs \in Seq(Nat)
  PROVE  IsEncoded(EncodedRep(id, durs))
<1> DEFINE entries == [k \in DOMAIN durs |-> [start |-> 0, dur |-> durs[k]]]
           timeline == CompactTimeline(entries)
           tpl == Template("stream", Second, 1, 0, timeline)
<1>1. entries \in Seq(Entries)
  <2>1. Len(durs) \in Nat /\ DOMAIN durs = 1 .. Len(durs) /\ \A k \in 1 .. Len(durs) : durs[k] \in Nat
    BY LenProperties, ElementOfSeq
  <2>2. \A k \in DOMAIN durs : [start |-> 0, dur |-> durs[k]] \in Entries
    BY <2>1 DEF Entries
  <2>3. entries \in [1 .. Len(durs) -> Entries]
    BY <2>1, <2>2
  <2> HIDE DEF entries
  <2> QED BY <2>1, <2>3
<1> HIDE DEF entries
<1>2. timeline \in Seq(WholeRuns)
  <2>1. PICK f \in [0 .. Len(entries) -> Seq(WholeRuns)] : CompactTimeline(entries) = f[Len(entries)]
    BY <1>1, CompactSteps
  <2>2. Len(entries) \in 0 .. Len(entries)
    BY <1>1, LenProperties
  <2> QED BY <2>1, <2>2
<1> HIDE DEF timeline
<1>3. IsTemplate(tpl) /\ tpl.under = 0 /\ tpl.timeline = timeline
  BY DEF Template, IsTemplate
<1>4. EncodedRep(id, durs) = [id |-> id, tpl |-> tpl]
  BY DEF EncodedRep, Representation, entries, timeline
<1> HIDE DEF tpl
<1> QED BY <1>2, <1>3, <1>4 DEF IsEncoded

LEMMA MuxedIs ==
  ASSUME NEW mf \in MediaFiles
  PROVE  LET period == Muxed(mf)[1]
         IN  /\ DOMAIN Muxed(mf) = {1}
             /\ period = [id |-> period.id, start |-> period.start, streams |-> period.streams,
                          sets |-> period.sets]
             /\ \A i \in DOMAIN period.sets :
                  /\ period.sets[i] = [tpl |-> period.sets[i].tpl, reps |-> period.sets[i].reps]
                  /\ \A r \in DOMAIN period.sets[i].reps : IsEncoded(period.sets[i].reps[r])
<1> DEFINE durs == HLS!EncodeHLS(mf.total, 0, 0)
           audio == IF mf.tail = 0 THEN durs ELSE Append(durs, mf.tail)
           video == EncodedRep("v", durs)
           sound == EncodedRep("a", audio)
           sets == <<AdaptationSet(NoTemplate, <<video>>), AdaptationSet(NoTemplate, <<sound>>)>>
           period == Muxed(mf)[1]
<1>1. durs \in Seq(Nat) /\ mf.tail \in Nat
  BY CommandsAssumption, EncodedDurations
<1> HIDE DEF durs
<1>2. audio \in Seq(Nat)
  BY <1>1, AppendProperties
<1> HIDE DEF audio
<1>3. IsEncoded(video) /\ IsEncoded(sound)
  BY <1>1, <1>2, EncodedRepIs
<1>4. Muxed(mf) = <<Period(<<"0">>, NoDuration, <<>>, sets)>>
  BY DEF Muxed, durs, audio
<1> HIDE DEF video, sound
<1>5. /\ DOMAIN sets = {1, 2}
      /\ \A i \in {1, 2} : /\ sets[i] = [tpl |-> sets[i].tpl, reps |-> sets[i].reps]
                           /\ DOMAIN sets[i].reps = {1}
      /\ sets[1].reps[1] = video /\ sets[2].reps[1] = sound
  BY DEF AdaptationSet
<1> HIDE DEF sets
<1>6. DOMAIN Muxed(mf) = {1} /\ period = Period(<<"0">>, NoDuration, <<>>, sets)
  BY <1>4
<1> HIDE DEF period
<1>7. period.sets = sets
      /\ period = [id |-> period.id, start |-> period.start, streams |-> period.streams,
                   sets |-> period.sets]
  BY <1>6 DEF Period
<1>8. \A i \in DOMAIN sets : \A r \in DOMAIN sets[i].reps : IsEncoded(sets[i].reps[r])
  BY <1>3, <1>5
<1> QED BY <1>5, <1>6, <1>7, <1>8 DEF period

LEMMA MergedIs ==
  ASSUME NEW mf \in MediaFiles
  PROVE  LET was == Muxed(mf)[1].sets
             now == EncodeDASH(mf)[1].sets
         IN  /\ 1 \in DOMAIN EncodeDASH(mf) /\ IsPeriod(EncodeDASH(mf)[1])
             /\ DOMAIN now = DOMAIN was
             /\ \A i \in DOMAIN was :
                  /\ DOMAIN now[i].reps = DOMAIN was[i].reps
                  /\ \A r \in DOMAIN was[i].reps :
                       /\ now[i].reps[r].id = was[i].reps[r].id
                       /\ now[i].reps[r].tpl = MergeTrailingShortSegment(was[i].reps[r].tpl)
<1> DEFINE muxed == Muxed(mf)
           period == muxed[1]
           was == period.sets
           Merged(i) == [r \in DOMAIN was[i].reps |-> MergeRep(was[i].reps[r])]
           new == [i \in DOMAIN was |-> [was[i] EXCEPT !.reps = Merged(i)]]
           first == EncodeDASH(mf)[1]
<1>1. /\ DOMAIN muxed = {1}
      /\ period = [id |-> period.id, start |-> period.start, streams |-> period.streams,
                   sets |-> period.sets]
      /\ \A i \in DOMAIN was :
           /\ was[i] = [tpl |-> was[i].tpl, reps |-> was[i].reps]
           /\ \A r \in DOMAIN was[i].reps : IsEncoded(was[i].reps[r])
  BY MuxedIs
<1> HIDE DEF muxed
<1>2. EncodeDASH(mf) = [p \in DOMAIN muxed |-> [muxed[p] EXCEPT !.sets =
        [i \in DOMAIN muxed[p].sets |-> [muxed[p].sets[i] EXCEPT !.reps =
           [r \in DOMAIN muxed[p].sets[i].reps |-> MergeRep(muxed[p].sets[i].reps[r])]]]]]
  BY DEF EncodeDASH, InPeriod, InSet, muxed
<1>3. 1 \in DOMAIN EncodeDASH(mf) /\ first = [period EXCEPT !.sets = new]
  BY <1>1, <1>2
<1> HIDE DEF first, period
<1>4. first.sets = new
      /\ first = [id |-> first.id, start |-> first.start, streams |-> first.streams,
                  sets |-> first.sets]
  <2> HIDE DEF new
  <2> QED BY <1>1, <1>3
<1> HIDE DEF was
<1>5. ASSUME NEW i \in DOMAIN was, NEW r \in DOMAIN was[i].reps
      PROVE  LET rep == MergeRep(was[i].reps[r])
             IN  /\ rep.id = was[i].reps[r].id /\ IsRepresentation(rep)
                 /\ rep.tpl = MergeTrailingShortSegment(was[i].reps[r].tpl)
  <2> DEFINE old == was[i].reps[r]
             tpl == MergeTrailingShortSegment(old.tpl)
             rep == [old EXCEPT !.tpl = tpl]
  <2>1. IsEncoded(old)
    BY <1>1
  <2>2. IsTemplate(tpl)
    BY <2>1, MergedNames DEF IsEncoded
  <2>3. IsRepresentation(old)
    BY <2>1 DEF IsEncoded, IsRepresentation
  <2> HIDE DEF old, tpl
  <2>4. rep.tpl = tpl /\ rep.id = old.id /\ IsRepresentation(rep)
    BY <2>2, <2>3, RepresentationChanges
  <2>5. MergeRep(old) = rep
    BY DEF MergeRep, tpl
  <2> HIDE DEF rep
  <2> QED BY <2>4, <2>5 DEF old, tpl
<1>6. \A i \in DOMAIN was : /\ new[i].reps = Merged(i)
                            /\ new[i] = [tpl |-> new[i].tpl, reps |-> new[i].reps]
  <2> SUFFICES ASSUME NEW i \in DOMAIN was
               PROVE  new[i].reps = Merged(i) /\ new[i] = [tpl |-> new[i].tpl, reps |-> new[i].reps]
    OBVIOUS
  <2> DEFINE set == was[i]
             reps == Merged(i)
  <2>1. set = [tpl |-> set.tpl, reps |-> set.reps]
    BY <1>1
  <2>2. new[i] = [set EXCEPT !.reps = reps]
    OBVIOUS
  <2> HIDE DEF set, reps, new
  <2>3. new[i].reps = reps /\ new[i] = [tpl |-> new[i].tpl, reps |-> new[i].reps]
    BY <2>1, <2>2
  <2> QED BY <2>3 DEF reps
<1>7. DOMAIN new = DOMAIN was
  OBVIOUS
<1> HIDE DEF new
<1>8. \A i \in DOMAIN was :
        /\ DOMAIN new[i].reps = DOMAIN was[i].reps
        /\ \A r \in DOMAIN was[i].reps :
             /\ new[i].reps[r].id = was[i].reps[r].id
             /\ new[i].reps[r].tpl = MergeTrailingShortSegment(was[i].reps[r].tpl)
             /\ IsRepresentation(new[i].reps[r])
  <2> SUFFICES ASSUME NEW i \in DOMAIN was
               PROVE  /\ DOMAIN new[i].reps = DOMAIN was[i].reps
                      /\ \A r \in DOMAIN was[i].reps :
                           /\ new[i].reps[r].id = was[i].reps[r].id
                           /\ new[i].reps[r].tpl = MergeTrailingShortSegment(was[i].reps[r].tpl)
                           /\ IsRepresentation(new[i].reps[r])
    OBVIOUS
  <2>1. new[i].reps = Merged(i)
    BY <1>6
  <2>2. DOMAIN new[i].reps = DOMAIN was[i].reps
    BY <2>1
  <2>3. ASSUME NEW r \in DOMAIN was[i].reps
        PROVE  /\ new[i].reps[r].id = was[i].reps[r].id
               /\ new[i].reps[r].tpl = MergeTrailingShortSegment(was[i].reps[r].tpl)
               /\ IsRepresentation(new[i].reps[r])
    <3> DEFINE rep == MergeRep(was[i].reps[r])
    <3>1. new[i].reps[r] = rep
      BY <2>1
    <3>2. /\ rep.id = was[i].reps[r].id /\ IsRepresentation(rep)
          /\ rep.tpl = MergeTrailingShortSegment(was[i].reps[r].tpl)
      BY <1>5
    <3> HIDE DEF rep
    <3> QED BY <3>1, <3>2
  <2> QED BY <2>2, <2>3
<1>9. IsPeriod(first)
  BY <1>4, <1>6, <1>7, <1>8 DEF IsPeriod, IsAdaptationSet
<1> QED BY <1>3, <1>4, <1>7, <1>8, <1>9 DEF first, was, period, muxed

LEMMA EncodedNames ==
  ASSUME NEW mf \in MediaFiles, NEW g \in OwnFiles(EncodeDASH(mf)[1])
  PROVE  g \in FilesOf(Muxed(mf)) /\ g.under = 0
<1> DEFINE was == Muxed(mf)[1].sets
           now == EncodeDASH(mf)[1].sets
<1>1. PICK i \in DOMAIN now : \E r \in DOMAIN now[i].reps :
        /\ now[i].reps[r].tpl # NoTemplate
        /\ g \in FilesNamed(now[i].reps[r].tpl, now[i].reps[r].id)
  BY OwnNames
<1>2. PICK r \in DOMAIN now[i].reps :
        /\ now[i].reps[r].tpl # NoTemplate
        /\ g \in FilesNamed(now[i].reps[r].tpl, now[i].reps[r].id)
  BY <1>1
<1>3. /\ i \in DOMAIN was /\ r \in DOMAIN was[i].reps
      /\ now[i].reps[r].id = was[i].reps[r].id
      /\ now[i].reps[r].tpl = MergeTrailingShortSegment(was[i].reps[r].tpl)
  BY MergedIs
<1>4. DOMAIN Muxed(mf) = {1} /\ IsEncoded(was[i].reps[r])
  BY <1>3, MuxedIs
<1> DEFINE old == was[i].reps[r]
           set == was[i]
<1>5. old.tpl # NoTemplate
  BY <1>2, <1>3 DEF MergeTrailingShortSegment, Timed
<1> HIDE DEF now
<1>6. FilesOfRep(set, old) = FilesNamed(old.tpl, old.id)
  BY <1>5, RepNames DEF EffectiveSegmentTemplate
<1>7. g \in FilesNamed(old.tpl, old.id)
  <2> DEFINE merged == MergeTrailingShortSegment(old.tpl)
  <2>1. IsTemplate(old.tpl) /\ old.tpl.timeline \in Seq(WholeRuns)
    BY <1>4 DEF IsEncoded
  <2>2. IsPartOf(merged, old.tpl)
    BY <2>1, MergedNames
  <2>3. g \in FilesNamed(merged, old.id)
    BY <1>2, <1>3
  <2> HIDE DEF merged, old
  <2>4. FilesNamed(merged, old.id) \subseteq FilesNamed(old.tpl, old.id)
    BY <2>2, PartNames
  <2> QED BY <2>3, <2>4
<1>8. g.under = 0
  <2>1. old.tpl.under = 0
    BY <1>4 DEF IsEncoded
  <2> HIDE DEF old
  <2>2. \E n \in {InitFile} \cup ToSet(Numbers(old.tpl)) :
          g = [under |-> old.tpl.under, stem |-> old.tpl.stem, rep |-> old.id, n |-> n]
    BY <1>7 DEF FilesNamed
  <2> QED BY <2>1, <2>2
<1>9. g \in FilesOfPeriod(Muxed(mf)[1])
  BY <1>3, <1>6, <1>7, PeriodNames
<1>10. g \in FilesOf(Muxed(mf))
  BY <1>4, <1>9 DEF FilesOf
<1> QED BY <1>8, <1>10

LEMMA NothingPrefixed ==
  ASSUME NEW mpd, IsSequence(mpd), PrefixMediaPaths(mpd) # <<>>
  PROVE  1 \in DOMAIN mpd
<1> DEFINE n == Len(mpd)
           prefixed == PrefixMediaPaths(mpd)
           T == {prefixed[i] : i \in DOMAIN mpd}
<1>1. n \in Nat /\ DOMAIN mpd = 1 .. n
  BY LenProperties DEF IsSequence
<1>2. prefixed \in [1 .. n -> T]
  BY <1>1 DEF PrefixMediaPaths
<1> HIDE DEF prefixed, T, n
<1>3. prefixed \in Seq(T) /\ Len(prefixed) = n
  BY <1>1, <1>2
<1>4. n # 0
  BY <1>3, EmptySeq DEF prefixed
<1> QED BY <1>1, <1>4

(* The files that the Representations of the ad name are in its directory.   *)
LEMMA AdIsBeside ==
  ASSUME IInv, Origins, DashDone, NamesDiffer, PrefixMediaPaths(ad) # <<>>
  PROVE  /\ 1 \in DOMAIN ad /\ IsPeriod(ad[1])
         /\ \A g \in OwnFiles(ad[1]) : g \in AdDir /\ g.under = 0
<1>1. Dashing /\ stage = "done" /\ Stitches /\ InputGiven
  BY DEF DashDone, Dashing, Stitches, IInv
<1>2. ad = Prepared /\ (FromVast => creative \in MediaFiles)
  BY <1>1 DEF Origins, AdIsPrepared
<1>3. CASE FromVast
  <2>1. ad = EncodeDASH(creative) /\ creative \in MediaFiles /\ AdDir = FilesOf(Muxed(creative))
    BY <1>1, <1>2, <1>3 DEF Prepared, AdDir
  <2> QED BY <2>1, MergedIs, EncodedNames
<1>4. CASE ~FromVast
  <2>1. ad = input.ad.list /\ AdDir = input.ad.dir /\ AreBeside(OwnFiles(ad[1]), input.ad.dir)
    BY <1>1, <1>2, <1>4 DEF Prepared, AdDir, NamesDiffer
  <2>2. IsMpd(ad)
    BY <1>1, <1>4, <2>1, DashContent DEF IsDashInput, FromVast
  <2>3. 1 \in DOMAIN ad
    BY <2>2, NothingPrefixed DEF IsMpd
  <2> QED BY <2>1, <2>2, <2>3, MpdIsOfPeriods DEF AreBeside
<1> QED BY <1>3, <1>4

LEMMA DashHolds ==
  ASSUME IInv, Origins, DashDone, NamesDiffer
  PROVE  DashOutputHolds
<1> DEFINE prefixed == PrefixMediaPaths(ad)
<1>1. Dashing /\ stage = "done" /\ Stitches /\ InputGiven
  BY DEF DashDone, Dashing, Stitches, IInv
<1>2. /\ DashSplice(Content, prefixed, FromVast).error = "none"
      /\ spliced = DashSplice(Content, prefixed, FromVast).mpd
  BY <1>1 DEF Origins, IsSpliced, DashResult
<1>3. IsMpd(Content)
  BY <1>1, DashContent
<1>4. ~input.inPlace /\ AreBeside(FilesOf(Content), input.dir)
  BY <1>1 DEF NamesDiffer
<1> HIDE DEF prefixed
<1> SUFFICES ASSUME NEW p \in DOMAIN spliced
             PROVE  IF p = SplitAt + 1 THEN HoldsFiles(OwnFiles(spliced[p]), "ad", 1)
                                       ELSE HoldsFiles(FilesOfPeriod(spliced[p]), "content", 0)
  BY DEF DashOutputHolds
<1>5. /\ prefixed # <<>>
      /\ p = SplitAt + 1 => spliced[p].sets = prefixed[1].sets
      /\ p # SplitAt + 1 => FilesOfPeriod(spliced[p]) \subseteq FilesOf(Content)
  BY <1>2, <1>3, SplicedNames DEF SplitAt
<1>6. CASE p = SplitAt + 1
  <2> SUFFICES ASSUME NEW f \in OwnFiles(spliced[p])
               PROVE  f \in DOMAIN files
                      /\ files[f] = [from |-> "ad", file |-> [f EXCEPT !.under = @ - 1]]
    BY <1>6 DEF HoldsFiles
  <2>1. /\ 1 \in DOMAIN ad /\ IsPeriod(ad[1])
        /\ \A g \in OwnFiles(ad[1]) : g \in AdDir /\ g.under = 0
    BY <1>5, AdIsBeside DEF prefixed
  <2>2. PICK g \in OwnFiles(ad[1]) : IsBelow(f, g)
    BY <1>5, <1>6, <2>1, PrefixedNames DEF prefixed
  <2>3. g \in AdDir /\ g.under = 0
    BY <2>1
  <2>4. IsFile(f) /\ f.under = 1 /\ g = [f EXCEPT !.under = 0]
    BY <2>2, <2>3 DEF IsBelow
  <2> QED BY <2>3, <2>4, AdIsThere
<1>7. CASE p # SplitAt + 1
  <2> SUFFICES ASSUME NEW f \in FilesOfPeriod(spliced[p])
               PROVE  f \in DOMAIN files
                      /\ files[f] = [from |-> "content", file |-> [f EXCEPT !.under = @ - 0]]
    BY <1>7 DEF HoldsFiles
  <2>1. f \in input.dir /\ f.under = 0
    BY <1>4, <1>5, <1>7 DEF AreBeside
  <2> QED BY <1>4, <2>1, ContentIsThere
<1> QED BY <1>6, <1>7

(* What either command writes is complete: every file that the manifest      *)
(* names is in -out and holds what the content or the ad has under that name *)
(* (cmd_dashstitch.go:52-93, cmd_stitch.go:101-203), a playlist reads back   *)
(* as it was spliced (manifest.go:73-216), and a command that failed to copy *)
(* a file leaves no manifest.                                                *)
THEOREM OutputHolds == Spec => []OutputIsComplete
<1>1. IInv /\ Origins => OutputIsComplete
  <2> SUFFICES ASSUME IInv, Origins
               PROVE  OutputIsComplete
    OBVIOUS
  <2>1. todo # {} => manifest = NoManifest
    BY DEF IInv, ManifestIsLast
  <2>2. DashDone /\ NamesDiffer => DashOutputHolds
    BY DashHolds
  <2>3. HlsDone /\ NamesDiffer => HlsOutputHolds
    <3>1. HlsDone /\ NamesDiffer => AdNamesDiffer /\ ~input.inPlace
      BY DEF HlsDone, NamesDiffer, Dashing
    <3> QED BY <3>1, PlaylistHolds
  <2> QED BY <2>1, <2>2, <2>3 DEF OutputIsComplete
<1> QED BY <1>1, Invariant, OriginsInvariant, PTL

(* Neither a prefix nor the merging of its end makes a track of an encoded   *)
(* ad longer or shorter.                                                     *)
LEMMA TemplateIsThere ==
  ASSUME NEW t, IsTemplate(t)
  PROVE  t # NoTemplate
<1>1. "under" \in DOMAIN t
  BY DEF IsTemplate
<1>2. "under" \notin DOMAIN NoTemplate
  BY DEF NoTemplate
<1> QED BY <1>1, <1>2

LEMMA MergedLasts ==
  ASSUME NEW tpl, IsTemplate(tpl), tpl.timeline \in Seq(WholeRuns)
  PROVE  /\ IsTemplate(MergeTrailingShortSegment(tpl))
         /\ TrackTicks(MergeTrailingShortSegment(tpl)) = TrackTicks(tpl)
<1> DEFINE timeline == tpl.timeline
           merged == MergeTail(timeline)
           new == [tpl EXCEPT !.timeline = merged]
<1>1. CASE ~(Timed(tpl) /\ ShortTail(tpl))
  BY <1>1 DEF MergeTrailingShortSegment
<1>2. CASE Timed(tpl) /\ ShortTail(tpl)
  <2>1. MergeTrailingShortSegment(tpl) = new
    BY <1>2 DEF MergeTrailingShortSegment, IsTemplate
  <2>2. Len(timeline) > 1 /\ timeline[Len(timeline)].r <= 0
    BY <1>2 DEF ShortTail
  <2>3. HLS!TotalDuration(ExpandTimeline(merged)) = HLS!TotalDuration(ExpandTimeline(timeline))
    <3> HIDE DEF merged
    <3>1. CASE timeline[Len(timeline) - 1].r > 0
      BY <2>2, <3>1, RunLeavesRun DEF merged
    <3>2. CASE ~(timeline[Len(timeline) - 1].r > 0)
      BY <2>2, <3>2, RunIsDropped DEF merged
    <3> QED BY <3>1, <3>2
  <2> HIDE DEF merged
  <2>4. IsTemplate(new) /\ new.timeline = merged
    BY TemplateChanges
  <2> HIDE DEF new
  <2> QED BY <2>1, <2>3, <2>4 DEF TrackTicks
<1> QED BY <1>1, <1>2

LEMMA PrefixedLasts ==
  ASSUME NEW rep, IsRepresentation(rep), IsTemplate(rep.tpl)
  PROVE  IsTemplate(PrefixRep(rep).tpl) /\ TrackTicks(PrefixRep(rep).tpl) = TrackTicks(rep.tpl)
<1> DEFINE t == rep.tpl
           new == [t EXCEPT !.under = t.under + 1]
<1>1. t # NoTemplate
  BY TemplateIsThere
<1>2. PrefixRep(rep) = [rep EXCEPT !.tpl = new]
  <2>1. PrefixRep(rep) = [rep EXCEPT !.tpl.under = t.under + 1]
    BY <1>1 DEF PrefixRep
  <2> QED BY <2>1
<1>3. t.under + 1 \in Nat
  BY DEF IsTemplate
<1>4. IsTemplate(new) /\ new.timeline = t.timeline
  BY <1>3, TemplateChanges
<1> HIDE DEF new
<1>5. PrefixRep(rep).tpl = new
  BY <1>2, RepresentationChanges
<1> QED BY <1>4, <1>5 DEF TrackTicks

LEMMA EncodedLasts ==
  ASSUME NEW mf \in MediaFiles, NEW period,
         period.sets = PrefixMediaPaths(EncodeDASH(mf))[1].sets, NEW ij \in Reps(period)
  PROVE  TrackTicks(TemplateOf(period, ij)) = TrackTicks(TemplateOf(Muxed(mf)[1], ij))
<1> DEFINE was == Muxed(mf)[1].sets
           now == EncodeDASH(mf)[1].sets
           i == ij[1]
           r == ij[2]
           old == was[i].reps[r]
           merged == now[i].reps[r]
           new == period.sets[i].reps[r]
<1>1. /\ 1 \in DOMAIN EncodeDASH(mf) /\ IsPeriod(EncodeDASH(mf)[1]) /\ DOMAIN now = DOMAIN was
      /\ \A k \in DOMAIN was :
           /\ DOMAIN now[k].reps = DOMAIN was[k].reps
           /\ \A l \in DOMAIN was[k].reps :
                now[k].reps[l].tpl = MergeTrailingShortSegment(was[k].reps[l].tpl)
  BY MergedIs
<1>2. /\ DOMAIN period.sets = DOMAIN now
      /\ \A s \in DOMAIN now :
           /\ IsAdaptationSet(now[s])
           /\ period.sets[s].reps = [l \in DOMAIN now[s].reps |-> PrefixRep(now[s].reps[l])]
  <2> DEFINE mpd == EncodeDASH(mf)
  <2>1. /\ 1 \in DOMAIN mpd /\ IsPeriod(mpd[1]) /\ period.sets = PrefixMediaPaths(mpd)[1].sets
    BY <1>1
  <2> HIDE DEF mpd
  <2>2. LET sets == mpd[1].sets
        IN  /\ DOMAIN period.sets = DOMAIN sets
            /\ \A s \in DOMAIN sets :
                 /\ IsAdaptationSet(sets[s])
                 /\ period.sets[s].reps = [l \in DOMAIN sets[s].reps |-> PrefixRep(sets[s].reps[l])]
    BY <2>1, PrefixedReps
  <2> QED BY <2>2 DEF mpd
<1>3. i \in DOMAIN period.sets /\ r \in DOMAIN period.sets[i].reps
  BY DEF Reps
<1>4. i \in DOMAIN now /\ r \in DOMAIN now[i].reps /\ new = PrefixRep(merged) /\ IsRepresentation(merged)
  <2> HIDE DEF now, i, r
  <2>1. i \in DOMAIN now /\ IsAdaptationSet(now[i])
        /\ period.sets[i].reps = [l \in DOMAIN now[i].reps |-> PrefixRep(now[i].reps[l])]
    BY <1>2, <1>3
  <2>2. r \in DOMAIN now[i].reps /\ new = PrefixRep(merged)
    BY <1>3, <2>1
  <2> QED BY <2>1, <2>2 DEF IsAdaptationSet
<1>5. /\ i \in DOMAIN was /\ r \in DOMAIN was[i].reps
      /\ merged.tpl = MergeTrailingShortSegment(old.tpl)
  BY <1>1, <1>4
<1>6. IsEncoded(old)
  BY <1>5, MuxedIs
<1>7. TemplateOf(period, ij) = EffectiveSegmentTemplate(new, period.sets[i])
      /\ TemplateOf(Muxed(mf)[1], ij) = EffectiveSegmentTemplate(old, was[i])
  BY DEF TemplateOf
<1> HIDE DEF was, now, old, merged, new
<1>8. IsTemplate(old.tpl) /\ old.tpl.timeline \in Seq(WholeRuns)
  BY <1>6 DEF IsEncoded
<1>9. IsTemplate(merged.tpl) /\ TrackTicks(merged.tpl) = TrackTicks(old.tpl)
  BY <1>5, <1>8, MergedLasts
<1>10. IsTemplate(new.tpl) /\ TrackTicks(new.tpl) = TrackTicks(merged.tpl)
  BY <1>4, <1>9, PrefixedLasts
<1>11. old.tpl # NoTemplate /\ new.tpl # NoTemplate
  BY <1>8, <1>10, TemplateIsThere
<1> QED BY <1>7, <1>9, <1>10, <1>11 DEF EffectiveSegmentTemplate

(* An ad that dash-stitch encoded is spliced in whole: every track of it     *)
(* lasts as long as FFmpeg made it, whether or not its short end was merged  *)
(* into the segment before (transcode.go:295-303, mpd/timeline.go:11-48).    *)
AdKeepsItsLength ==
  DashDone /\ FromVast => \A ij \in Reps(spliced[SplitAt + 1]) :
    TrackTicks(TemplateOf(spliced[SplitAt + 1], ij)) = TrackTicks(TemplateOf(Muxed(creative)[1], ij))

THEOREM EncodedAdIsWhole == Spec => []AdKeepsItsLength
<1>1. IInv /\ Origins => AdKeepsItsLength
  <2> SUFFICES ASSUME IInv, Origins, DashDone, FromVast
               PROVE  \A ij \in Reps(spliced[SplitAt + 1]) :
                        TrackTicks(TemplateOf(spliced[SplitAt + 1], ij))
                          = TrackTicks(TemplateOf(Muxed(creative)[1], ij))
    BY DEF AdKeepsItsLength
  <2> DEFINE prefixed == PrefixMediaPaths(ad)
             period == spliced[SplitAt + 1]
  <2>1. Dashing /\ stage = "done" /\ Stitches /\ InputGiven
    BY DEF DashDone, Dashing, Stitches, IInv
  <2>2. ad = EncodeDASH(creative) /\ creative \in MediaFiles
    BY <2>1 DEF Origins, AdIsPrepared, Prepared
  <2>3. /\ DashSplice(Content, prefixed, FromVast).error = "none"
        /\ spliced = DashSplice(Content, prefixed, FromVast).mpd
    BY <2>1 DEF Origins, IsSpliced, DashResult
  <2>4. IsMpd(Content)
    BY <2>1, DashContent
  <2> HIDE DEF prefixed
  <2>5. period.sets = prefixed[1].sets
    BY <2>3, <2>4, AdIsSpliced DEF SplitAt
  <2> HIDE DEF period
  <2>6. period.sets = PrefixMediaPaths(EncodeDASH(creative))[1].sets
    BY <2>2, <2>5 DEF prefixed
  <2>7. \A ij \in Reps(period) :
          TrackTicks(TemplateOf(period, ij)) = TrackTicks(TemplateOf(Muxed(creative)[1], ij))
    BY <2>2, <2>6, EncodedLasts
  <2> QED BY <2>7 DEF period
<1> QED BY <1>1, Invariant, OriginsInvariant, PTL
=============================================================================
