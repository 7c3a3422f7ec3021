\* Two turns, two runs, one call of the store at a time, every kind of failure.
SPECIFICATION FairSpec
CONSTANTS
    c1 = c1  c2 = c2  Turns = {1, 2}  NoTurn = 0
    Calls = {c1}  NoCall = NoCall
    Runs = {1, 2}  NoRun = 0  MaxDeltas = 1
    Failing = {"ctx", "stage", "answer", "marker", "user"}
    Outcomes = {"units", "none", "gap"}
INVARIANTS AnswerIsWhole NeverBare
PROPERTIES StreamingEnds
CHECK_DEADLOCK FALSE
