\* One move and one restart; an overview is saved while the copy is made.
SPECIFICATION Spec
CONSTANTS
    a = a  b = b  c = c  talk = talk  doc = doc  voice = voice
    Dirs = {a, b}  Anchor = a  NoDir = NoDir  Removable = {}
    Overviews = {talk}  Sources = {doc}  Models = {voice}
    MaxTime = 5  MaxMoves = 1  MaxBoots = 1
INVARIANTS LateWritesKept
CHECK_DEADLOCK FALSE
