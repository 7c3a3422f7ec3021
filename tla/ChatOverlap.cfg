\* Two calls of the store that overlap.
SPECIFICATION Spec
CONSTANTS
    c1 = c1  c2 = c2  Turns = {1, 2}  NoTurn = 0
    Calls = {c1, c2}  NoCall = NoCall
    Runs = {1, 2}  NoRun = 0  MaxDeltas = 1
    Failing = {"stage"}  Outcomes = {"units"}
INVARIANTS NeverBare
CHECK_DEADLOCK FALSE
