-------------------------------- MODULE Playback --------------------------------
(***************************************************************************)
(* PlaybackPage of the client: the stored track of the selected vehicle,   *)
(* a timer that moves a cursor along it, and a map that is not there when  *)
(* the page is.  Three things run at the same time: the history request,   *)
(* which a change of the selection cancels (isCancelled), the loading of   *)
(* the map, whose 'load' handler holds the empty route of the first        *)
(* render, and the interval of the animation.                              *)
(*                                                                         *)
(* A track is its vehicle and its number of points; 0 points is no track.  *)
(* The speed of the animation only sets how often Tick happens.            *)
(*                                                                         *)
(* An answer and the render that follows it are one step here.  In the     *)
(* browser the interval of the old render may fire once between the two,   *)
(* and its updater then runs on the old track: not modelled.               *)
(***************************************************************************)
EXTENDS Naturals, FiniteSets

CONSTANTS
  Vehicles,    \* the vehicles of the company
  NoVehicle,
  MaxPoints    \* bound on the length of a track

ASSUME PlaybackAssumption ==
  /\ NoVehicle \notin Vehicles
  /\ MaxPoints \in Nat \ {0}

VARIABLES
  fleet,         \* the vehicles in the store, {} while it is empty
  selected,      \* selectedVehicle
  fetches,       \* the history requests under way
  loadingRoute,  \* isLoadingRoute
  route,         \* routePoints
  cursor,        \* currentIndex
  playing,       \* isPlaying
  map,           \* "none", "loading" or "ready"
  line,          \* the data of the map's source 'route'
  marker,        \* the marker: "none", "hidden" or "shown"
  at,            \* the point it was last put on
  missed,        \* history: the request for this selection failed
  early          \* history: the track on the page came before the map

playbackVars == <<fleet, selected, fetches, loadingRoute, route, cursor, playing,
                  map, line, marker, at, missed, early>>

Track == [of : Vehicles \union {NoVehicle}, points : 0 .. MaxPoints]
NoTrack == [of |-> NoVehicle, points |-> 0]
Fetch == [for : Vehicles, cancelled : BOOLEAN]

\* A cursor always points into the track, or to 0 when there is none.
PlaybackTypeOK ==
  /\ fleet \subseteq Vehicles
  /\ selected \in Vehicles \union {NoVehicle}
  /\ fetches \subseteq Fetch
  /\ loadingRoute \in BOOLEAN /\ playing \in BOOLEAN
  /\ route \in Track /\ line \in Track
  /\ cursor \in 0 .. (IF route.points = 0 THEN 0 ELSE route.points - 1)
  /\ map \in {"none", "loading", "ready"}
  /\ marker \in {"none", "hidden", "shown"}
  /\ at \in 0 .. MaxPoints
  /\ missed \in BOOLEAN /\ early \in BOOLEAN

PlaybackInit ==
  /\ fleet = {} /\ selected = NoVehicle /\ fetches = {}
  /\ loadingRoute = FALSE /\ route = NoTrack /\ cursor = 0 /\ playing = FALSE
  /\ map = "none" /\ line = NoTrack /\ marker = "none" /\ at = 0
  /\ missed = FALSE /\ early = FALSE

-----------------------------------------------------------------------------
\* The effects of the first render: the map is created; the store may be empty.
PlaybackMount ==
  /\ map = "none"
  /\ map' = "loading"
  /\ UNCHANGED <<fleet, selected, fetches, loadingRoute, route, cursor, playing,
                 line, marker, at, missed, early>>

PlaybackLeave ==
  /\ map # "none"
  /\ fleet' = {} /\ selected' = NoVehicle /\ fetches' = {}
  /\ loadingRoute' = FALSE /\ route' = NoTrack /\ cursor' = 0 /\ playing' = FALSE
  /\ map' = "none" /\ line' = NoTrack /\ marker' = "none" /\ at' = 0
  /\ missed' = FALSE /\ early' = FALSE

\* The effect of selectedVehicle: its cleanup cancels the request before it.
Selected(v) ==
  /\ selected' = v
  /\ fetches' = {[f EXCEPT !.cancelled = TRUE] : f \in fetches}
                  \union {[for |-> v, cancelled |-> FALSE]}
  /\ loadingRoute' = TRUE

SelectVehicle(v) ==
  /\ map # "none" /\ v \in fleet \ {selected}
  /\ Selected(v)
  /\ UNCHANGED <<fleet, route, cursor, playing, map, line, marker, at, missed,
                 early>>

\* The store changes; a selection that is no longer listed moves to the first
\* vehicle of the list.
FleetChanges(f) ==
  /\ map # "none" /\ f # fleet
  /\ fleet' = f
  /\ IF f = {} \/ selected \in f
     THEN UNCHANGED <<selected, fetches, loadingRoute>>
     ELSE \E v \in f : Selected(v)
  /\ UNCHANGED <<route, cursor, playing, map, line, marker, at, missed, early>>

-----------------------------------------------------------------------------
\* Mutant: an answer without points leaves the old track on the map.
DrawPointsOnly(t) ==
  IF map = "ready" /\ t.points > 0
  THEN line' = t /\ marker' = "shown" /\ at' = 0
  ELSE UNCHANGED <<line, marker, at>>

\* What an answer puts on a map that has loaded.
DrawTrack(t) ==
  IF map = "ready"
  THEN /\ line' = t
       /\ marker' = IF t.points > 0 THEN "shown" ELSE "hidden"
       /\ at' = IF t.points > 0 THEN 0 ELSE at
  ELSE UNCHANGED <<line, marker, at>>

\* Mutant: isCancelled is not looked at.
AnyHistoryArrives(f, n) ==
  LET t == IF n = 0 THEN NoTrack ELSE [of |-> f.for, points |-> n]
  IN  /\ fetches' = fetches \ {f}
      /\ route' = t /\ cursor' = 0 /\ playing' = FALSE /\ loadingRoute' = FALSE
      /\ missed' = FALSE /\ early' = (n > 0 /\ map # "ready")
      /\ DrawTrack(t)
      /\ UNCHANGED <<fleet, selected, map>>

\* Mutant: the cursor stays where it was in the track before.
HistoryKeepsCursor(f, n) ==
  LET t == IF n = 0 THEN NoTrack ELSE [of |-> f.for, points |-> n]
  IN  /\ ~f.cancelled
      /\ fetches' = fetches \ {f}
      /\ route' = t /\ playing' = FALSE /\ loadingRoute' = FALSE
      /\ missed' = FALSE /\ early' = (n > 0 /\ map # "ready")
      /\ DrawTrack(t)
      /\ UNCHANGED <<fleet, selected, cursor, map>>

\* n points; an error with a JSON body counts as none.
HistoryArrives(f, n) ==
  LET t == IF n = 0 THEN NoTrack ELSE [of |-> f.for, points |-> n]
  IN  /\ ~f.cancelled
      /\ fetches' = fetches \ {f}
      /\ route' = t /\ cursor' = 0 /\ playing' = FALSE /\ loadingRoute' = FALSE
      /\ missed' = FALSE /\ early' = (n > 0 /\ map # "ready")
      /\ DrawTrack(t)
      /\ UNCHANGED <<fleet, selected, map>>

\* The request rejects, or its body is no JSON: the old track stays.
HistoryFails(f) ==
  /\ ~f.cancelled
  /\ fetches' = fetches \ {f}
  /\ loadingRoute' = FALSE /\ missed' = TRUE
  /\ UNCHANGED <<fleet, selected, route, cursor, playing, map, line, marker, at,
                 early>>

HistoryIgnored(f) ==
  /\ f.cancelled
  /\ fetches' = fetches \ {f}
  /\ UNCHANGED <<fleet, selected, loadingRoute, route, cursor, playing, map, line,
                 marker, at, missed, early>>

\* The 'load' handler: its routePoints are those of the first render.
MapLoads ==
  /\ map = "loading"
  /\ map' = "ready" /\ line' = NoTrack /\ marker' = "hidden" /\ at' = 0
  /\ UNCHANGED <<fleet, selected, fetches, loadingRoute, route, cursor, playing,
                 missed, early>>

-----------------------------------------------------------------------------
MoveTo(i) ==
  /\ cursor' = i
  /\ at' = IF marker = "none" THEN at ELSE i

\* Mutant: the interval is not stopped at the last point.
TickOn ==
  /\ playing /\ route.points > 0
  /\ MoveTo(IF cursor >= route.points - 1 THEN cursor ELSE cursor + 1)
  /\ UNCHANGED playing
  /\ UNCHANGED <<fleet, selected, fetches, loadingRoute, route, map, line, marker,
                 missed, early>>

\* The interval of the animation.
Tick ==
  /\ playing /\ route.points > 0
  /\ IF cursor >= route.points - 1
     THEN playing' = FALSE /\ UNCHANGED <<cursor, at>>
     ELSE MoveTo(cursor + 1) /\ UNCHANGED playing
  /\ UNCHANGED <<fleet, selected, fetches, loadingRoute, route, map, line, marker,
                 missed, early>>

\* The controls are rendered while there is a track.
TogglePlay ==
  /\ route.points > 1
  /\ playing' = ~playing
  /\ UNCHANGED <<fleet, selected, fetches, loadingRoute, route, cursor, map, line,
                 marker, at, missed, early>>

\* The slider, and with i = 0 the reset button.
HandleSliderChange(i) ==
  /\ i < route.points
  /\ MoveTo(i)
  /\ UNCHANGED <<fleet, selected, fetches, loadingRoute, route, playing, map, line,
                 marker, missed, early>>

Seek == \E i \in 0 .. MaxPoints - 1 : HandleSliderChange(i)

PlaybackStep ==
  \/ PlaybackLeave \/ MapLoads \/ Tick \/ TogglePlay \/ Seek
  \/ \E v \in Vehicles : SelectVehicle(v)
  \/ \E f \in SUBSET Vehicles : FleetChanges(f)
  \/ \E f \in fetches : \/ HistoryFails(f) \/ HistoryIgnored(f)
                        \/ \E n \in 0 .. MaxPoints : HistoryArrives(f, n)

PlaybackNext == PlaybackMount \/ PlaybackStep

PlaybackSpec ==
  /\ PlaybackInit /\ [][PlaybackNext]_playbackVars
  /\ WF_playbackVars(Tick)

-----------------------------------------------------------------------------
(***************************************************************************)
(* Once it is not "Loading route..." the track on the page is the selected *)
(* vehicle's, however often the selection changed while requests were      *)
(* under way; only after a request that failed the one before may stay.    *)
(***************************************************************************)
RouteOfSelection ==
  ~loadingRoute /\ ~missed /\ route.points > 0 => route.of = selected

(***************************************************************************)
(* The map shows the page's track, with the marker on the page's point,    *)
(* unless the track came before the map had loaded: the 'load' handler     *)
(* then draws the empty route of the first render, and no marker.          *)
(***************************************************************************)
DrawnIsRoute ==
  map = "ready" /\ ~early =>
    /\ line = route
    /\ marker = (IF route.points > 0 THEN "shown" ELSE "hidden")
    /\ marker = "shown" => at = cursor

(***************************************************************************)
(* An animation comes to its end, unless the user keeps moving the slider  *)
(* or pressing the button.                                                 *)
(***************************************************************************)
PlaybackStops ==
  \/ []<>(~playing)
  \/ []<><<Seek>>_playbackVars
=============================================================================
