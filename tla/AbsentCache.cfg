\* The cache is moved to a drive, the drive is taken away, the cache is moved again.
SPECIFICATION Spec
CONSTANTS
    a = a  b = b  c = c  talk = talk  doc = doc  voice = voice
    Dirs = {a, b, c}  Anchor = a  NoDir = NoDir  Removable = {b}
    Overviews = {}  Sources = {}  Models = {voice}
    MaxTime = 3  MaxMoves = 2  MaxBoots = 1
PROPERTIES CopiedBeforePersisted
CHECK_DEADLOCK FALSE
