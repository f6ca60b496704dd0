SPECIFICATION Spec
CONSTANTS MaxChanges = 2
 MaxClicks = 1
 MaxItems = 1
 PlaylistIds = {0, 1}
INVARIANT ShownDisconnected
CHECK_DEADLOCK FALSE
