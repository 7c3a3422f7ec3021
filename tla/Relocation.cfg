\* Three directories, two of them removable, two moves, a death or restart
\* anywhere, an overview, a source and a model.
SPECIFICATION Spec
CONSTANTS
    a = a  b = b  c = c  talk = talk  doc = doc  voice = voice
    Dirs = {a, b, c}  Anchor = a  NoDir = NoDir  Removable = {b, c}
    Overviews = {talk}  Sources = {doc}  Models = {voice}
    MaxTime = 6  MaxMoves = 2  MaxBoots = 2
INVARIANTS PointerIsComplete CacheReferenced
PROPERTIES SavedSurvives
CHECK_DEADLOCK FALSE
