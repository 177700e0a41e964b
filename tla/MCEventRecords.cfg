CONSTANTS
    chat1 = chat1
    chat2 = chat2
    tool = tool
    memory = memory
    Spans <- MCSpans
    ContentSpans <- MCContentSpans
    MaxGroups = 2
    MaxProcesses = 2
SYMMETRY Symmetry
SPECIFICATION Spec
INVARIANT TypeOK
INVARIANT RecordsLostForAReason
INVARIANT RecordsKeptTogether
CHECK_DEADLOCK FALSE
