SPECIFICATION Spec
CONSTANTS movies = movies
 shows = shows
 season = season
 Dirs = {movies, shows, season}
 Root = Root
 Nowhere = Nowhere
 Children <- Tree
 MaxConnects = 2
 MaxClicks = 4
INVARIANTS TypeOK BreadcrumbsShown WayDown WayBack
PROPERTY PopsAButton
CHECK_DEADLOCK FALSE
