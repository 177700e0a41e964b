--------------------------- MODULE MCSessionLock ---------------------------
(* Three calls of one session, so that a call can wait behind one that     *)
(* waits, and one call of another session that may hang beside them.       *)
EXTENDS SessionLock

CONSTANTS c1, c2, c3, c4, s1, s2

MCCalls == {c1, c2, c3, c4}
MCSessions == {s1, s2}
MCSessionOf == [c \in MCCalls |-> IF c = c4 THEN s2 ELSE s1]
=============================================================================
