\* Two vehicles with tracks of up to three points, so that a cursor has a
\* middle; two reports with three fetches under way, so that one can be overtaken
\* by one and overtake another; logs of three records with room for two rows, so
\* that the list is cut.
SPECIFICATION ViewsSpec

CONSTANTS
  Vehicles = {v1, v2}
  NoVehicle = NoVehicle
  MaxPoints = 3
  Choices = {r1, r2}
  NoReport = NoReport
  MaxPending = 3
  Ranges = {1, 2}
  MinLogs = 1
  LogCap = 2
  MaxTime = 3
  MaxLoads = 2

INVARIANTS
  TypeOK
  RouteOfSelection
  DrawnIsRoute
  ReportUnderTitle

PROPERTIES
  PlaybackStops
  PollCatchesUp
