--------------------------- MODULE MCEventRecords ---------------------------
EXTENDS EventRecords, TLC

CONSTANTS chat1, chat2, tool, memory

\* three spans whose records meet, and one that has none
MCSpans == {chat1, chat2, tool, memory}
MCContentSpans == {chat1, chat2, tool}
Symmetry == Permutations(MCContentSpans)
=============================================================================
