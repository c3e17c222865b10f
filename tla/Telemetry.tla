-------------------------------- MODULE Telemetry --------------------------------
(***************************************************************************)
(* TeltonikaDetailsModal of the client: the log of one tracker.  Its rows  *)
(* are loaded from the server when the dialog opens, when the number of    *)
(* rows is changed, and every minute; a change of the vehicle store in     *)
(* between puts the store's position of the vehicle on top.                *)
(*                                                                         *)
(* A row is the time of its record.  Records 1 .. sent came in frames of   *)
(* which something was stored; rudra-ingest publishes all records of such  *)
(* a frame, also those that are not stored, or not until the device sends  *)
(* them again.  The store holds one of them, not always the last.  The     *)
(* server finds the vehicle by its id, registration or device id, the      *)
(* first that matches; the model has one vehicle, the one meant.           *)
(***************************************************************************)
EXTENDS Naturals, Sequences, FiniteSets

CONSTANTS
  Ranges,      \* the numbers of rows the user can choose
  MinLogs,     \* MIN_LOGS_LIMIT (60)
  LogCap,      \* rows kept when a live one is put on top (200)
  MaxTime,     \* bound on the records
  MaxLoads     \* bound on the loads under way

ASSUME TelemetryAssumption ==
  /\ Ranges \subseteq Nat \ {0}
  /\ \E m \in Ranges : \A q \in Ranges : q <= m
  /\ {MinLogs, LogCap, MaxTime, MaxLoads} \subseteq Nat \ {0}

VARIABLES
  open,         \* the dialog is mounted
  range,        \* selectedIntervalRange
  logs,         \* dbLogs, the newest first
  loads,        \* the loads under way, with the rows once the server has read them
  logsLoading,  \* isLoadingLogs
  sent,         \* the last record the tracker sent
  stored,       \* the records in the database
  inStore       \* the record of this vehicle in the store, 0 for none

tracker == <<sent, stored, inStore>>
telemetryVars == <<open, range, logs, loads, logsLoading, tracker>>

MaxOf(a, b) == IF a > b THEN a ELSE b
FetchLimit == MaxOf(range, MinLogs)
MaxRange == CHOOSE r \in Ranges : \A q \in Ranges : q <= r

Load == [limit : Nat, read : BOOLEAN, rows : Seq(1 .. MaxTime)]

\* The list is never longer than what a load may return or a push may leave.
TelemetryTypeOK ==
  /\ open \in BOOLEAN /\ logsLoading \in BOOLEAN
  /\ range \in Ranges
  /\ Len(logs) <= MaxOf(LogCap, MaxOf(MaxRange, MinLogs))
  /\ \A i \in DOMAIN logs : logs[i] \in 1 .. sent
  /\ loads \subseteq Load
  /\ sent \in 0 .. MaxTime /\ stored \subseteq 1 .. sent /\ inStore \in 0 .. sent

DialogGone ==
  /\ open' = FALSE /\ range' = MaxRange /\ logs' = << >> /\ loads' = {}
  /\ logsLoading' = FALSE /\ sent' = 0 /\ stored' = {} /\ inStore' = 0

TelemetryInit ==
  /\ open = FALSE /\ range = MaxRange /\ logs = << >> /\ loads = {}
  /\ logsLoading = FALSE /\ sent = 0 /\ stored = {} /\ inStore = 0

\* [newRec, ...prev].slice(0, 200), unless it has the time of the first row.
Prepended(t, rows) ==
  IF t = 0 \/ (rows # << >> /\ Head(rows) = t) THEN rows
  ELSE SubSeq(<<t>> \o rows, 1, IF Len(rows) < LogCap THEN Len(rows) + 1 ELSE LogCap)

\* ORDER BY time DESC LIMIT n.
Newest(n) ==
  {rows \in UNION {[1 .. k -> stored] : k \in 0 .. n} :
     /\ \A i, j \in DOMAIN rows : i < j => rows[i] > rows[j]
     /\ \A t \in stored : \/ \E i \in DOMAIN rows : rows[i] = t
                          \/ Len(rows) = n /\ \A i \in DOMAIN rows : rows[i] > t}

LoadLogs(limit) ==
  /\ Cardinality(loads) < MaxLoads
  /\ loads' = loads \union {[limit |-> limit, read |-> FALSE, rows |-> << >>]}
  /\ logsLoading' = TRUE

-----------------------------------------------------------------------------
\* The effects of the first render.  The vehicle may have a past.
TelemetryMount ==
  /\ ~open /\ open' = TRUE
  /\ LoadLogs(FetchLimit)
  /\ sent' \in 0 .. MaxTime /\ stored' \in SUBSET (1 .. sent') /\ inStore' \in 0 .. sent'
  /\ logs' = Prepended(inStore', << >>)
  /\ UNCHANGED range

TelemetryLeave ==
  /\ open /\ DialogGone

SetIntervalRange(r) ==
  /\ open /\ r # range
  /\ range' = r
  /\ LoadLogs(MaxOf(r, MinLogs))
  /\ UNCHANGED <<open, logs, tracker>>

\* Mutant: the timer only runs until there are rows.
PollWhileEmpty ==
  /\ open /\ logs = << >> /\ LoadLogs(FetchLimit)
  /\ UNCHANGED <<open, range, logs, tracker>>

\* The interval of LOGS_POLL_MS.
PollLogs ==
  /\ open /\ LoadLogs(FetchLimit)
  /\ UNCHANGED <<open, range, logs, tracker>>

\* The server reads the table.
LogsRead(l) ==
  /\ ~l.read
  /\ \E rows \in Newest(l.limit) :
       loads' = (loads \ {l}) \union {[limit |-> l.limit, read |-> TRUE, rows |-> rows]}
  /\ UNCHANGED <<open, range, logs, logsLoading, tracker>>

LogsArrive(l) ==
  /\ l.read
  /\ loads' = loads \ {l}
  /\ logs' = l.rows
  /\ logsLoading' = FALSE
  /\ UNCHANGED <<open, range, tracker>>

LogsFail(l) ==
  /\ loads' = loads \ {l}
  /\ logsLoading' = FALSE
  /\ UNCHANGED <<open, range, logs, tracker>>

\* The store changed: a position of this vehicle, stored or not, an older
\* snapshot, or another vehicle (t = inStore).
StoreChanges(t) ==
  /\ open /\ t \in 1 .. sent
  /\ inStore' = t
  /\ logs' = Prepended(t, logs)
  /\ UNCHANGED <<open, range, loads, logsLoading, sent, stored>>

\* rudra-ingest takes the next record; its chunk of the batch may fail.
RecordSent ==
  /\ open /\ sent < MaxTime
  /\ sent' = sent + 1
  /\ stored' \in {stored, stored \union {sent + 1}}
  /\ UNCHANGED <<open, range, logs, loads, logsLoading, inStore>>

\* The device sends a record again that was not acknowledged.
RecordResent(t) ==
  /\ open /\ t \in (1 .. sent) \ stored
  /\ stored' = stored \union {t}
  /\ UNCHANGED <<open, range, logs, loads, logsLoading, sent, inStore>>

SomeLogsRead == \E l \in loads : LogsRead(l)
LogsAnswered == \E l \in loads : LogsArrive(l)

TelemetryStep ==
  \/ TelemetryLeave \/ PollLogs \/ SomeLogsRead \/ LogsAnswered \/ RecordSent
  \/ \E l \in loads : LogsFail(l)
  \/ \E r \in Ranges : SetIntervalRange(r)
  \/ \E t \in 1 .. MaxTime : StoreChanges(t) \/ RecordResent(t)

(***************************************************************************)
(* "Poll while the modal is open: WebSocket pushes are not guaranteed":    *)
(* a stored record shows up in an open dialog, or a later one does, even   *)
(* if no push ever comes and however often pushes and loads interleave.    *)
(***************************************************************************)
PollCatchesUp ==
  \A t \in 1 .. MaxTime :
    (open /\ t \in stored) ~> (~open \/ \E i \in DOMAIN logs : logs[i] >= t)
=============================================================================
