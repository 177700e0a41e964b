------------------------ MODULE MCBookingExecutor ------------------------
(* Two sessions share the executor, so that an approval could leak from    *)
(* one to the other; four calls let one session search, approve and hold   *)
(* twice.  One candidate sits exactly at the threshold and one above it.   *)
EXTENDS BookingExecutor, TLC

CONSTANTS c1, c2, c3, c4, s1, s2, atThreshold, above

MCCalls3 == {c1, c2, c3}
MCSessions == {s1, s2}
MCOneSession == {s1}
MCCandidates == {atThreshold, above}
MCSearchResults == {MCCandidates}
MCLivePrice == (atThreshold :> 5) @@ (above :> 6)
MCCalls4 == {c1, c2, c3, c4}
CallSymmetry == Permutations(MCCalls4)
Symmetry == Permutations(MCCalls4) \cup Permutations(MCSessions)
==========================================================================
