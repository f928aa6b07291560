------------------------------- MODULE MCVod -------------------------------
(* Small instance of Vod: tenths of a second, 10s segments.                 *)
EXTENDS Vod

Break(start, duration) == [start |-> start, duration |-> duration]

(* Valid and invalid requests, sorted or not: spans of one segment and of   *)
(* several, breaks at 0, at the end, at the same place.                     *)
MCBreaks == {Break(0, 40), Break(50, 0), Break(50, 40), Break(120, 45), Break(260, 15)}
MCRequests ==
  [total : {120, 145, 310}, breaks : BoundedSeq(MCBreaks, 3)]

MCSegmentKinds ==
  {ContentSegment(20, FALSE, FALSE, 0), ContentSegment(20, TRUE, FALSE, 0),
   ContentSegment(21, TRUE, FALSE, 40), ContentSegment(20, FALSE, TRUE, 0),
   ContentSegment(20, TRUE, TRUE, 40)}
MCPlaylists == BoundedSeq(MCSegmentKinds, 5)

MCAds == {<<>>, <<20>>, <<9, 1>>, <<6>>, <<41>>, <<13, 13>>}

Opts(allow, loop, preserve) ==
  [allowMismatch |-> allow, loop |-> loop, preserve |-> preserve]
MCOptions ==
  {Opts(FALSE, FALSE, FALSE), Opts(TRUE, FALSE, FALSE), Opts(FALSE, TRUE, FALSE),
   Opts(FALSE, FALSE, TRUE), Opts(FALSE, TRUE, TRUE)}
=============================================================================
