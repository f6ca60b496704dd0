SPECIFICATION FairSpec
CONSTANTS MaxChanges = 2
 MaxClicks = 1
 MaxItems = 1
 PlaylistIds = {1}
INVARIANTS TypeOK OneSeekTimer InSync ShownInSync
PROPERTIES HandshakeEnds Converges
CHECK_DEADLOCK FALSE
