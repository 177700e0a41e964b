CONSTANTS
    t1 = t1
    t2 = t2
    t3 = t3
    t4 = t4
    s1 = s1
    s2 = s2
    a1 = a1
    NoTurn = NoTurn
    Actors <- MCActors
    Turns <- MCTurns4
    Sessions <- MCOneSession
    SessionOf <- MCSessionOf4
    ActorOf <- MCActorOf4
    RecentTurnsLimit = 2
    MaxToolUseRounds = 2
    MaxBlocks = 2
SYMMETRY Symmetry
SPECIFICATION Spec
INVARIANT TypeOK
INVARIANT TranscriptIsComplete
INVARIANT TranscriptIsTruthful
INVARIANT EveryToolUseAnswered
