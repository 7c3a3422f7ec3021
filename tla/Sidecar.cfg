\* Two turns, a download, two groups of processes.
SPECIFICATION FairSpec
CONSTANTS
    t1 = t1  t2 = t2  t3 = t3  p1 = p1  p2 = p2
    Turns = {t1, t2}  Prepares = {p1}  NoCall = NoCall
    Groups = {1, 2}  NoGroup = 0
INVARIANTS OwnAudio WavsAccounted NoStray
PROPERTIES SignalKillsAll EveryCallEnds
CHECK_DEADLOCK FALSE
