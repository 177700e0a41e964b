--------------------------- MODULE MCConciergeTurn ---------------------------
(* Four turns of one conversation, so that the fourth has more behind it    *)
(* than the limit of two; or two turns of one conversation, a third in      *)
(* another session of the same Caller, which may hang beside them.          *)
EXTENDS ConciergeTurn, TLC

CONSTANTS t1, t2, t3, t4, s1, s2, a1

MCTurns4 == {t1, t2, t3, t4}
MCOneSession == {s1}
MCSessionOf4 == [t \in MCTurns4 |-> s1]
MCActors == {a1}
MCActorOf4 == [t \in MCTurns4 |-> a1]
Symmetry == Permutations(MCTurns4)

MCTurns3 == {t1, t2, t3}
MCTwoSessions == {s1, s2}
MCSessionOf3 == [t \in MCTurns3 |-> IF t = t3 THEN s2 ELSE s1]
MCActorOf3 == [t \in MCTurns3 |-> a1]
=============================================================================
