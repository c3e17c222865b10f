---------------------------------- MODULE Views ----------------------------------
(***************************************************************************)
(* The pages of the client that show what the server computes: trip        *)
(* history, reports and a tracker's log.  The router mounts one at a time. *)
(***************************************************************************)
EXTENDS Playback, Reports, Telemetry

viewsVars == <<playbackVars, reportsVars, telemetryVars>>

NothingMounted == map = "none" /\ choice = NoReport /\ ~open

ViewsInit == PlaybackInit /\ ReportsInit /\ TelemetryInit

OnPlayback(A) == A /\ UNCHANGED <<reportsVars, telemetryVars>>
OnReports(A) == A /\ UNCHANGED <<playbackVars, telemetryVars>>
OnTelemetry(A) == A /\ UNCHANGED <<playbackVars, reportsVars>>

ViewsNext ==
  \/ OnPlayback(PlaybackStep)
  \/ OnReports(ReportsStep)
  \/ OnTelemetry(TelemetryStep)
  \/ /\ NothingMounted
     /\ \/ OnPlayback(PlaybackMount)
        \/ OnReports(ReportsMount)
        \/ OnTelemetry(TelemetryMount)

(***************************************************************************)
(* Fairness: the browser runs the intervals of the animation and of the    *)
(* poll, and a server that is asked again and again answers again and      *)
(* again.  Nothing is assumed of a single request.                         *)
(***************************************************************************)
ViewsSpec ==
  /\ ViewsInit /\ [][ViewsNext]_viewsVars
  /\ WF_viewsVars(OnPlayback(Tick))
  /\ WF_viewsVars(OnTelemetry(PollLogs))
  /\ SF_viewsVars(OnTelemetry(SomeLogsRead))
  /\ SF_viewsVars(OnTelemetry(LogsAnswered))

TypeOK == PlaybackTypeOK /\ ReportsTypeOK /\ TelemetryTypeOK
=============================================================================
