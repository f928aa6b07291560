----------------------------- MODULE MCWatcher -----------------------------
(* Small instance of Watcher: half-second ticks, one plain segment, one     *)
(* CUE-OUT, one CUE-IN, and one that carries both, as two back-to-back      *)
(* breaks signal it.                                                        *)
EXTENDS Watcher

Seg(out, in, dur) == [out |-> out, in |-> in, dur |-> dur]

MCSegments == {Seg(FALSE, FALSE, 2), Seg(TRUE, FALSE, 1), Seg(FALSE, TRUE, 3),
               Seg(TRUE, TRUE, 2)}

(* A flight that fits the window and one longer than it.                    *)
MCFlights == {<<5>>, <<1, 4, 1>>}
MCLongFlight == {<<1, 4, 1>>}
=============================================================================
