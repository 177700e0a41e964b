CONSTANTS
    t1 = t1
    t2 = t2
    t3 = t3
    t4 = t4
    s1 = s1
    s2 = s2
    a1 = a1
    NoTurn = NoTurn
    Actors <- MCActors
    Turns <- MCTurns3
    Sessions <- MCTwoSessions
    SessionOf <- MCSessionOf3
    ActorOf <- MCActorOf3
    RecentTurnsLimit = 2
    MaxToolUseRounds = 2
    MaxBlocks = 1
SPECIFICATION FairSpec
INVARIANT TranscriptIsTruthful
PROPERTY EveryTurnEnds
