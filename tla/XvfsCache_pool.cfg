SPECIFICATION FairSpec
CONSTANTS Paths = {p, q}
 NoPath = NoPath
 Threads = {t1, t2, t3}
 MaxRefreshes = 3
INVARIANTS TypeOK NoFetchForgotten PixbufPresent PictureOfItem
PROPERTIES FetchesReachServer
CHECK_DEADLOCK FALSE
