----------------------------- MODULE PlaybackProofs -----------------------------
(***************************************************************************)
(* Proofs about Playback for every fleet and every length of tracks.  What *)
(* the two properties need beyond the types: a request that is not         *)
(* cancelled is for the selected vehicle, and as long as the map has not   *)
(* loaded a track on the page has been noted as early.                     *)
(***************************************************************************)
EXTENDS Playback, TLAPS

OwnFetches == \A f \in fetches : ~f.cancelled => f.for = selected

EarlyNoted == map # "ready" /\ ~early => route = NoTrack

PlaybackInv ==
  PlaybackTypeOK /\ RouteOfSelection /\ DrawnIsRoute /\ OwnFetches /\ EarlyNoted

-----------------------------------------------------------------------------
\* A cursor position of a track is a point the marker can be on.
LEMMA CursorIsPoint ==
  ASSUME PlaybackTypeOK
  PROVE  cursor \in 0 .. MaxPoints
  BY PlaybackAssumption DEF PlaybackTypeOK, Track

\* The empty track.
LEMMA NoTrackIsTrack == NoTrack \in Track /\ NoTrack.points = 0
  BY PlaybackAssumption DEF NoTrack, Track

\* A new selection cancels what is under way and is loading from then on.
LEMMA SelectedStep ==
  ASSUME PlaybackInv, NEW v \in Vehicles, Selected(v), fleet' \subseteq Vehicles,
         UNCHANGED <<route, cursor, playing, map, line, marker, at, missed, early>>
  PROVE  PlaybackInv'
  <1>1. fetches' \subseteq Fetch /\ OwnFetches'
    <2>1. fetches' = {[f EXCEPT !.cancelled = TRUE] : f \in fetches}
                       \union {[for |-> v, cancelled |-> FALSE]}
      BY DEF Selected
    <2>2. \A f \in fetches : [f EXCEPT !.cancelled = TRUE] \in Fetch
                             /\ [f EXCEPT !.cancelled = TRUE].cancelled
      BY DEF PlaybackInv, PlaybackTypeOK, Fetch
    <2>3. [for |-> v, cancelled |-> FALSE] \in Fetch
      BY DEF Fetch
    <2>4. ASSUME NEW g \in fetches'
          PROVE  g \in Fetch /\ (~g.cancelled => g.for = selected')
      <3>1. CASE g = [for |-> v, cancelled |-> FALSE]
        BY <2>3, <3>1 DEF Selected
      <3>2. CASE g \in {[f EXCEPT !.cancelled = TRUE] : f \in fetches}
        <4>1. PICK f \in fetches : g = [f EXCEPT !.cancelled = TRUE]
          BY <3>2
        <4> QED
          BY <2>2, <4>1
      <3> QED
        BY <2>1, <2>4, <3>1, <3>2
    <2> QED
      BY <2>4 DEF OwnFetches
  <1>2. PlaybackTypeOK'
    BY <1>1 DEF PlaybackInv, PlaybackTypeOK, Selected
  <1>3. RouteOfSelection'
    BY DEF RouteOfSelection, Selected
  <1>4. DrawnIsRoute' /\ EarlyNoted'
    BY DEF PlaybackInv, DrawnIsRoute, EarlyNoted
  <1> QED
    BY <1>1, <1>2, <1>3, <1>4 DEF PlaybackInv

\* An answer that is not cancelled: the track, the cursor and the map agree.
LEMMA ArrivesStep ==
  ASSUME PlaybackInv, NEW f \in fetches, NEW n \in 0 .. MaxPoints, HistoryArrives(f, n)
  PROVE  PlaybackInv'
  <1> DEFINE t == IF n = 0 THEN NoTrack ELSE [of |-> f.for, points |-> n]
  <1>1. f \in Fetch /\ f.for \in Vehicles
    BY DEF PlaybackInv, PlaybackTypeOK, Fetch
  <1>2. t \in Track /\ t.points = n
    BY <1>1, PlaybackAssumption, NoTrackIsTrack DEF Track
  <1>3. n > 0 => t.of = f.for
    OBVIOUS
  <1>4. n = 0 => t = NoTrack
    OBVIOUS
  <1>5. /\ fetches' = fetches \ {f} /\ route' = t /\ cursor' = 0 /\ playing' = FALSE
        /\ loadingRoute' = FALSE /\ missed' = FALSE /\ early' = (n > 0 /\ map # "ready")
        /\ DrawTrack(t) /\ UNCHANGED <<fleet, selected, map>> /\ ~f.cancelled
    BY DEF HistoryArrives
  <1> HIDE DEF t
  <1>6. n \in Nat /\ 0 \in 0 .. MaxPoints
    BY PlaybackAssumption
  <1>7. /\ line' \in Track /\ marker' \in {"none", "hidden", "shown"}
        /\ at' \in 0 .. MaxPoints
    BY <1>2, <1>5, <1>6 DEF DrawTrack, PlaybackInv, PlaybackTypeOK
  <1>8. early' \in BOOLEAN
    BY <1>5
  <1>9. PlaybackTypeOK'
    <2>1. cursor' \in 0 .. (IF route'.points = 0 THEN 0 ELSE route'.points - 1)
      BY <1>2, <1>5, <1>6
    <2>2. fetches' \subseteq Fetch /\ route' \in Track
      BY <1>2, <1>5 DEF PlaybackInv, PlaybackTypeOK
    <2>3. loadingRoute' \in BOOLEAN /\ playing' \in BOOLEAN /\ missed' \in BOOLEAN
      BY <1>5
    <2> QED
      BY <1>5, <1>7, <1>8, <2>1, <2>2, <2>3 DEF PlaybackInv, PlaybackTypeOK
  <1>10. OwnFetches'
    BY <1>5 DEF PlaybackInv, OwnFetches
  <1>11. RouteOfSelection'
    BY <1>2, <1>3, <1>5 DEF PlaybackInv, OwnFetches, RouteOfSelection
  <1>12. DrawnIsRoute'
    BY <1>2, <1>5, <1>6 DEF DrawTrack, DrawnIsRoute
  <1>13. EarlyNoted'
    <2>1. CASE n = 0
      BY <1>4, <1>5, <2>1 DEF EarlyNoted
    <2>2. CASE n > 0 /\ map # "ready"
      BY <1>5, <2>2, Zenon DEF EarlyNoted
    <2>3. CASE map = "ready"
      BY <1>5, <2>3 DEF EarlyNoted
    <2> QED
      BY <1>6, <2>1, <2>2, <2>3
  <1> QED
    BY <1>9, <1>10, <1>11, <1>12, <1>13 DEF PlaybackInv

\* The timer and the slider move the cursor and the marker together.
LEMMA MoveStep ==
  ASSUME PlaybackInv, NEW i \in 0 .. (IF route.points = 0 THEN 0 ELSE route.points - 1),
         MoveTo(i), playing' \in BOOLEAN,
         UNCHANGED <<fleet, selected, fetches, loadingRoute, route, map, line, marker,
                     missed, early>>
  PROVE  PlaybackInv'
  <1>1. i \in 0 .. MaxPoints
    BY PlaybackAssumption DEF PlaybackInv, PlaybackTypeOK, Track
  <1>2. PlaybackTypeOK'
    BY <1>1 DEF PlaybackInv, PlaybackTypeOK, MoveTo
  <1>3. RouteOfSelection' /\ OwnFetches' /\ EarlyNoted'
    BY DEF PlaybackInv, RouteOfSelection, OwnFetches, EarlyNoted
  <1>4. DrawnIsRoute'
    BY DEF PlaybackInv, DrawnIsRoute, MoveTo
  <1> QED
    BY <1>2, <1>3, <1>4 DEF PlaybackInv

\* Every action keeps the invariant.
LEMMA PlaybackStepKeeps ==
  ASSUME PlaybackInv, [PlaybackNext]_playbackVars
  PROVE  PlaybackInv'
  <1>1. CASE PlaybackMount
    <2>1. PlaybackTypeOK'
      BY <1>1 DEF PlaybackMount, PlaybackInv, PlaybackTypeOK
    <2>2. RouteOfSelection' /\ OwnFetches' /\ EarlyNoted'
      BY <1>1 DEF PlaybackMount, PlaybackInv, RouteOfSelection, OwnFetches, EarlyNoted
    <2>3. DrawnIsRoute'
      BY <1>1 DEF PlaybackMount, DrawnIsRoute
    <2> QED
      BY <2>1, <2>2, <2>3 DEF PlaybackInv
  <1>2. CASE PlaybackLeave
    <2>1. PlaybackTypeOK'
      <3>1. cursor' \in 0 .. (IF route'.points = 0 THEN 0 ELSE route'.points - 1)
        BY <1>2, NoTrackIsTrack DEF PlaybackLeave
      <3>2. /\ loadingRoute' \in BOOLEAN /\ playing' \in BOOLEAN
            /\ missed' \in BOOLEAN /\ early' \in BOOLEAN
        BY <1>2 DEF PlaybackLeave
      <3>3. at' \in 0 .. MaxPoints /\ route' \in Track /\ line' \in Track
        BY <1>2, NoTrackIsTrack, PlaybackAssumption DEF PlaybackLeave
      <3> QED
        BY <1>2, <3>1, <3>2, <3>3 DEF PlaybackLeave, PlaybackTypeOK
    <2>2. RouteOfSelection' /\ OwnFetches' /\ EarlyNoted' /\ DrawnIsRoute'
      BY <1>2, NoTrackIsTrack
      DEF PlaybackLeave, RouteOfSelection, OwnFetches, EarlyNoted, DrawnIsRoute
    <2> QED
      BY <2>1, <2>2 DEF PlaybackInv
  <1>3. CASE MapLoads
    <2>1. PlaybackTypeOK'
      BY <1>3, NoTrackIsTrack, PlaybackAssumption DEF MapLoads, PlaybackInv, PlaybackTypeOK
    <2>2. RouteOfSelection' /\ OwnFetches' /\ EarlyNoted'
      BY <1>3 DEF MapLoads, PlaybackInv, RouteOfSelection, OwnFetches, EarlyNoted
    <2>3. DrawnIsRoute'
      BY <1>3, NoTrackIsTrack DEF MapLoads, PlaybackInv, EarlyNoted, DrawnIsRoute
    <2> QED
      BY <2>1, <2>2, <2>3 DEF PlaybackInv
  <1>4. CASE Tick
    <2>1. CASE cursor >= route.points - 1
      <3>1. PlaybackTypeOK'
        BY <1>4, <2>1 DEF Tick, PlaybackInv, PlaybackTypeOK
      <3>2. RouteOfSelection' /\ OwnFetches' /\ EarlyNoted' /\ DrawnIsRoute'
        BY <1>4, <2>1
        DEF Tick, PlaybackInv, RouteOfSelection, OwnFetches, EarlyNoted, DrawnIsRoute
      <3> QED
        BY <3>1, <3>2 DEF PlaybackInv
    <2>2. CASE ~(cursor >= route.points - 1)
      <3>1. route.points \in Nat /\ cursor \in Nat /\ route.points > 0
        BY <1>4, CursorIsPoint, PlaybackAssumption
        DEF Tick, PlaybackInv, PlaybackTypeOK, Track
      <3>2. cursor + 1 \in 0 .. (IF route.points = 0 THEN 0 ELSE route.points - 1)
        BY <2>2, <3>1
      <3>3. MoveTo(cursor + 1) /\ playing' \in BOOLEAN
        BY <1>4, <2>2 DEF Tick, PlaybackInv, PlaybackTypeOK
      <3> QED
        BY <1>4, <3>2, <3>3, MoveStep DEF Tick
    <2> QED
      BY <2>1, <2>2
  <1>5. CASE TogglePlay
    <2>1. PlaybackTypeOK'
      BY <1>5 DEF TogglePlay, PlaybackInv, PlaybackTypeOK
    <2>2. RouteOfSelection' /\ OwnFetches' /\ EarlyNoted' /\ DrawnIsRoute'
      BY <1>5
      DEF TogglePlay, PlaybackInv, RouteOfSelection, OwnFetches, EarlyNoted, DrawnIsRoute
    <2> QED
      BY <2>1, <2>2 DEF PlaybackInv
  <1>6. CASE Seek
    <2>1. PICK i \in 0 .. MaxPoints - 1 : HandleSliderChange(i)
      BY <1>6 DEF Seek
    <2>2. route.points \in Nat /\ i \in Nat /\ i < route.points
      BY <2>1, PlaybackAssumption DEF HandleSliderChange, PlaybackInv, PlaybackTypeOK, Track
    <2>3. i \in 0 .. (IF route.points = 0 THEN 0 ELSE route.points - 1)
      BY <2>2
    <2> QED
      BY <2>1, <2>3, MoveStep DEF HandleSliderChange, PlaybackInv, PlaybackTypeOK
  <1>7. ASSUME NEW v \in Vehicles, SelectVehicle(v)
        PROVE  PlaybackInv'
    BY <1>7, SelectedStep DEF SelectVehicle, PlaybackInv, PlaybackTypeOK
  <1>8. ASSUME NEW f \in SUBSET Vehicles, FleetChanges(f)
        PROVE  PlaybackInv'
    <2>1. CASE f = {} \/ selected \in f
      <3>1. PlaybackTypeOK'
        BY <1>8, <2>1 DEF FleetChanges, PlaybackInv, PlaybackTypeOK
      <3>2. RouteOfSelection' /\ OwnFetches' /\ EarlyNoted' /\ DrawnIsRoute'
        BY <1>8, <2>1
        DEF FleetChanges, PlaybackInv, RouteOfSelection, OwnFetches, EarlyNoted, DrawnIsRoute
      <3> QED
        BY <3>1, <3>2 DEF PlaybackInv
    <2>2. CASE ~(f = {} \/ selected \in f)
      <3>1. PICK v \in f : Selected(v)
        BY <1>8, <2>2 DEF FleetChanges
      <3> QED
        BY <1>8, <3>1, SelectedStep DEF FleetChanges
    <2> QED
      BY <2>1, <2>2
  <1>9. ASSUME NEW f \in fetches, HistoryFails(f) \/ HistoryIgnored(f)
        PROVE  PlaybackInv'
    <2>1. PlaybackTypeOK'
      BY <1>9 DEF HistoryFails, HistoryIgnored, PlaybackInv, PlaybackTypeOK
    <2>2. OwnFetches' /\ EarlyNoted' /\ DrawnIsRoute'
      BY <1>9
      DEF HistoryFails, HistoryIgnored, PlaybackInv, OwnFetches, EarlyNoted, DrawnIsRoute
    <2>3. RouteOfSelection'
      BY <1>9 DEF HistoryFails, HistoryIgnored, PlaybackInv, RouteOfSelection
    <2> QED
      BY <2>1, <2>2, <2>3 DEF PlaybackInv
  <1>10. ASSUME NEW f \in fetches, NEW n \in 0 .. MaxPoints, HistoryArrives(f, n)
         PROVE  PlaybackInv'
    BY <1>10, ArrivesStep
  <1>11. CASE UNCHANGED playbackVars
    BY <1>11 DEF playbackVars, PlaybackInv, PlaybackTypeOK, RouteOfSelection, OwnFetches,
                 EarlyNoted, DrawnIsRoute
  <1> QED
    BY <1>1, <1>2, <1>3, <1>4, <1>5, <1>6, <1>7, <1>8, <1>9, <1>10, <1>11
    DEF PlaybackNext, PlaybackStep

\* A page that is not mounted.
LEMMA PlaybackStart == PlaybackInit => PlaybackInv
  <1> SUFFICES ASSUME PlaybackInit PROVE PlaybackInv
    OBVIOUS
  <1>1. PlaybackTypeOK
    <2>1. cursor \in 0 .. (IF route.points = 0 THEN 0 ELSE route.points - 1)
      BY NoTrackIsTrack DEF PlaybackInit
    <2>2. /\ loadingRoute \in BOOLEAN /\ playing \in BOOLEAN
          /\ missed \in BOOLEAN /\ early \in BOOLEAN
      BY DEF PlaybackInit
    <2>3. at \in 0 .. MaxPoints /\ route \in Track /\ line \in Track
      BY NoTrackIsTrack, PlaybackAssumption DEF PlaybackInit
    <2> QED
      BY <2>1, <2>2, <2>3 DEF PlaybackInit, PlaybackTypeOK
  <1>2. RouteOfSelection /\ OwnFetches /\ EarlyNoted /\ DrawnIsRoute
    BY NoTrackIsTrack
    DEF PlaybackInit, RouteOfSelection, OwnFetches, EarlyNoted, DrawnIsRoute
  <1> QED
    BY <1>1, <1>2 DEF PlaybackInv

(***************************************************************************)
(* The cursor always points into the track; requests that are not          *)
(* cancelled are for the selected vehicle.                                 *)
(***************************************************************************)
THEOREM PlaybackInvariant == PlaybackSpec => []PlaybackInv
  <1>1. PlaybackInit => PlaybackInv
    BY PlaybackStart
  <1>2. PlaybackInv /\ [PlaybackNext]_playbackVars => PlaybackInv'
    BY PlaybackStepKeeps
  <1> QED
    BY <1>1, <1>2, PTL DEF PlaybackSpec

(***************************************************************************)
(* isCancelled of the history effect works: with any number of requests    *)
(* under way, a track on the page is that of the selected vehicle.         *)
(***************************************************************************)
THEOREM RouteStaysSelection == PlaybackSpec => []RouteOfSelection
  <1>1. PlaybackInv => RouteOfSelection
    BY DEF PlaybackInv
  <1> QED
    BY <1>1, PlaybackInvariant, PTL

(***************************************************************************)
(* The history answer, the 'load' of the map, the timer and the slider, in *)
(* any order, leave the map with the page's track and point, except after  *)
(* a track that came before the map.                                       *)
(***************************************************************************)
THEOREM MapFollowsPage == PlaybackSpec => []DrawnIsRoute
  <1>1. PlaybackInv => DrawnIsRoute
    BY DEF PlaybackInv
  <1> QED
    BY <1>1, PlaybackInvariant, PTL
=============================================================================
