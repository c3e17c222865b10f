------------------------------- MODULE ViewsProofs -------------------------------
(***************************************************************************)
(* Proofs about the three pages under one router.  A step of the router is *)
(* a step of one page and leaves the others alone, so what was proved of   *)
(* trip history and of reports alone holds here; the log of a tracker gets *)
(* its own invariant.  Its bound on the rows needs that no load asks for,  *)
(* or brings, more rows than the largest range, and its bound on the times *)
(* that what a load brings was sent by the tracker.                        *)
(***************************************************************************)
EXTENDS Views, PlaybackProofs, ReportsProofs, SequenceTheorems

\* The most rows a load asks for.
MaxLimit == MaxOf(MaxRange, MinLogs)

Rows == Seq(Nat)

\* Rows a load may bring.
Fits(rows) ==
  /\ rows \in Rows /\ Len(rows) <= MaxLimit
  /\ \A i \in DOMAIN rows : rows[i] \in 1 .. sent

LoadsBounded == \A l \in loads : l.limit <= MaxLimit /\ Fits(l.rows)

\* While the dialog is away nothing is under way for it.
ClosedIsEmpty == ~open => loads = {}

TelemetryInv == TelemetryTypeOK /\ logs \in Rows /\ LoadsBounded /\ ClosedIsEmpty

ViewsInv == PlaybackInv /\ ReportsInv /\ TelemetryInv

-----------------------------------------------------------------------------
\* The larger of two numbers.
LEMMA MaxOfProperties ==
  ASSUME NEW a \in Nat, NEW b \in Nat
  PROVE  MaxOf(a, b) \in Nat /\ a <= MaxOf(a, b) /\ b <= MaxOf(a, b)
  BY DEF MaxOf

\* The select of the dialog has a largest option.
LEMMA MaxRangeProperties ==
  MaxRange \in Ranges /\ \A q \in Ranges : q <= MaxRange
  BY TelemetryAssumption DEF MaxRange

\* No choice of the user makes a load larger than MaxLimit.
LEMMA LimitBounded ==
  ASSUME NEW r \in Ranges
  PROVE  MaxOf(r, MinLogs) \in Nat /\ MaxOf(r, MinLogs) <= MaxLimit
  <1>1. r \in Nat /\ MaxRange \in Nat /\ MinLogs \in Nat /\ r <= MaxRange
    BY MaxRangeProperties, TelemetryAssumption
  <1> QED
    BY <1>1 DEF MaxLimit, MaxOf

LEMMA CapNumbers ==
  /\ LogCap \in Nat \ {0} /\ MaxTime \in Nat \ {0} /\ MinLogs \in Nat \ {0}
  /\ MaxLimit \in Nat /\ MaxOf(LogCap, MaxLimit) \in Nat
  /\ LogCap <= MaxOf(LogCap, MaxLimit) /\ MaxLimit <= MaxOf(LogCap, MaxLimit)
  <1>1. MaxRange \in Nat /\ MinLogs \in Nat \ {0} /\ LogCap \in Nat \ {0} /\ MaxTime \in Nat \ {0}
    BY MaxRangeProperties, TelemetryAssumption
  <1>2. MaxLimit \in Nat
    BY <1>1, MaxOfProperties DEF MaxLimit
  <1> QED
    BY <1>1, <1>2, MaxOfProperties

\* slice(0, 200): a row put on top never makes the list too long, and the list
\* still holds records up to d only.
LEMMA PrependedProperties ==
  ASSUME NEW rows \in Rows, NEW t \in Nat, NEW d \in Nat, t <= d,
         Len(rows) <= MaxOf(LogCap, MaxLimit),
         \A i \in DOMAIN rows : rows[i] \in 1 .. d
  PROVE  /\ Prepended(t, rows) \in Rows
         /\ Len(Prepended(t, rows)) <= MaxOf(LogCap, MaxLimit)
         /\ \A i \in DOMAIN Prepended(t, rows) : Prepended(t, rows)[i] \in 1 .. d
  <1>1. CASE t = 0 \/ (rows # << >> /\ Head(rows) = t)
    BY <1>1 DEF Prepended
  <1>2. CASE ~(t = 0 \/ (rows # << >> /\ Head(rows) = t))
    <2> DEFINE all == <<t>> \o rows
               n == IF Len(rows) < LogCap THEN Len(rows) + 1 ELSE LogCap
    <2>1. /\ all \in Seq(Nat) /\ Len(all) = Len(rows) + 1
          /\ \A i \in 1 .. Len(all) : all[i] \in 1 .. d
      BY <1>2 DEF Rows
    <2>2. n \in Nat /\ n <= LogCap /\ n <= Len(all) /\ n \in 0 .. Len(all)
      BY <2>1, CapNumbers DEF Rows
    <2>3. Prepended(t, rows) = SubSeq(all, 1, n)
      BY <1>2 DEF Prepended
    <2> HIDE DEF all, n
    <2>4. /\ SubSeq(all, 1, n) \in Seq(Nat) /\ Len(SubSeq(all, 1, n)) = n
          /\ \A i \in 1 .. n : SubSeq(all, 1, n)[i] = all[i]
      BY <2>1, <2>2
    <2>5. DOMAIN SubSeq(all, 1, n) = 1 .. n
      BY <2>4
    <2>6. \A i \in 1 .. n : i \in 1 .. Len(all)
      BY <2>1, <2>2
    <2>7. n <= MaxOf(LogCap, MaxLimit)
      BY <2>2, CapNumbers
    <2> QED
      BY <2>1, <2>3, <2>4, <2>5, <2>6, <2>7 DEF Rows
  <1> QED
    BY <1>1, <1>2

\* An empty list is a list of anything.
LEMMA NoRows == << >> \in Rows /\ Len(<< >>) = 0 /\ \A i \in DOMAIN << >> : FALSE
  BY DEF Rows

\* The types of the tracker's records.
LEMMA TrackerFacts ==
  ASSUME TelemetryInv
  PROVE  /\ sent \in Nat /\ sent <= MaxTime /\ inStore \in Nat /\ inStore <= sent
         /\ stored \subseteq 1 .. sent /\ stored \subseteq 1 .. MaxTime
         /\ stored \subseteq Nat
  <1>1. sent \in 0 .. MaxTime /\ stored \subseteq 1 .. sent /\ inStore \in 0 .. sent
    BY DEF TelemetryInv, TelemetryTypeOK
  <1>2. sent \in Nat /\ sent <= MaxTime /\ inStore \in Nat /\ inStore <= sent
    BY <1>1, CapNumbers
  <1>3. \A t \in 1 .. sent : t \in 1 .. MaxTime /\ t \in Nat
    BY <1>2, CapNumbers
  <1> QED
    BY <1>1, <1>2, <1>3

\* The rows the server reads were sent, and are no more than asked for.
LEMMA NewestProperties ==
  ASSUME TelemetryInv, NEW n \in Nat, n <= MaxLimit, NEW rows \in Newest(n)
  PROVE  Fits(rows) /\ rows \in Seq(1 .. MaxTime)
  <1>1. PICK k \in 0 .. n : rows \in [1 .. k -> stored]
    BY DEF Newest
  <1>2. k \in Nat /\ k <= n /\ k <= MaxLimit
    BY <1>1, CapNumbers
  <1>3. rows \in [1 .. k -> Nat] /\ rows \in [1 .. k -> 1 .. MaxTime]
        /\ \A i \in 1 .. k : rows[i] \in 1 .. sent
    BY <1>1, TrackerFacts
  <1>4. rows \in Seq(Nat) /\ Len(rows) = k /\ DOMAIN rows = 1 .. k
    BY <1>2, <1>3
  <1>5. rows \in Seq(1 .. MaxTime)
    <2> DEFINE S == 1 .. MaxTime
    <2>1. rows \in [1 .. k -> S]
      BY <1>3
    <2> HIDE DEF S
    <2>2. rows \in Seq(S)
      BY <1>2, <2>1
    <2> QED
      BY <2>2 DEF S
  <1> QED
    BY <1>2, <1>3, <1>4, <1>5 DEF Fits, Rows

\* A step that leaves the tracker's records alone keeps what fits.
LEMMA FitsLater ==
  ASSUME NEW rows, Fits(rows), sent \in Nat, sent' \in Nat, sent <= sent'
  PROVE  Fits(rows)'
  <1>1. \A t \in 1 .. sent : t \in 1 .. sent'
    OBVIOUS
  <1> QED
    BY <1>1 DEF Fits

-----------------------------------------------------------------------------
\* A load that is sent.
LEMMA LoadStep ==
  ASSUME TelemetryInv, NEW r \in Ranges, LoadLogs(MaxOf(r, MinLogs)),
         sent' = sent \/ (loads = {} /\ sent' \in Nat)
  PROVE  loads' \subseteq Load /\ LoadsBounded' /\ logsLoading' \in BOOLEAN
  <1> DEFINE l == [limit |-> MaxOf(r, MinLogs), read |-> FALSE, rows |-> << >>]
  <1>1. loads' = loads \union {l} /\ logsLoading' = TRUE
    BY DEF LoadLogs
  <1>2. l \in Load /\ l.limit <= MaxLimit /\ l.rows = << >>
    <2>1. << >> \in Seq(1 .. MaxTime)
      OBVIOUS
    <2> QED
      BY <2>1, LimitBounded DEF Load
  <1> HIDE DEF l
  <1>3. Fits(<< >>)'
    BY NoRows, CapNumbers DEF Fits
  <1>4. \A m \in loads : Fits(m.rows)'
    BY DEF TelemetryInv, LoadsBounded, Fits
  <1>5. loads \subseteq Load /\ \A m \in loads : m.limit <= MaxLimit
    BY DEF TelemetryInv, TelemetryTypeOK, LoadsBounded
  <1>6. LoadsBounded'
    BY <1>1, <1>2, <1>3, <1>4, <1>5 DEF LoadsBounded
  <1> QED
    BY <1>1, <1>2, <1>5, <1>6

LEMMA InitTelemetryInv == TelemetryInit => TelemetryInv
  <1> SUFFICES ASSUME TelemetryInit PROVE TelemetryInv
    OBVIOUS
  <1>1. /\ range \in Ranges /\ loads = {} /\ logs = << >>
        /\ sent = 0 /\ stored = {} /\ inStore = 0
    BY MaxRangeProperties DEF TelemetryInit
  <1>2. open \in BOOLEAN /\ logsLoading \in BOOLEAN
    BY DEF TelemetryInit
  <1>3. 0 \in 0 .. MaxTime /\ 0 <= MaxOf(LogCap, MaxLimit)
    BY CapNumbers
  <1> QED
    BY <1>1, <1>2, <1>3, NoRows DEF TelemetryInv, TelemetryTypeOK, ClosedIsEmpty, LoadsBounded, MaxLimit

LEMMA MountStep ==
  ASSUME TelemetryInv, TelemetryMount
  PROVE  TelemetryInv'
  <1>0. /\ open' = TRUE /\ LoadLogs(MaxOf(range, MinLogs)) /\ range \in Ranges
        /\ logs' = Prepended(inStore', << >>) /\ range' = range /\ loads = {}
        /\ sent' \in 0 .. MaxTime /\ stored' \subseteq 1 .. sent' /\ inStore' \in 0 .. sent'
    BY DEF TelemetryMount, FetchLimit, TelemetryInv, TelemetryTypeOK, ClosedIsEmpty
  <1>1. sent' \in Nat /\ inStore' \in Nat /\ inStore' <= sent'
    BY <1>0, CapNumbers
  <1>2. /\ logs' \in Rows /\ Len(logs') <= MaxOf(LogCap, MaxLimit)
        /\ \A i \in DOMAIN logs' : logs'[i] \in 1 .. sent'
    <2>1. Len(<< >>) <= MaxOf(LogCap, MaxLimit)
      BY NoRows, CapNumbers
    <2>2. \A i \in DOMAIN << >> : << >>[i] \in 1 .. sent'
      BY NoRows
    <2> QED
      BY <1>0, <1>1, <2>1, <2>2, NoRows, PrependedProperties
  <1>3. loads' \subseteq Load /\ LoadsBounded' /\ logsLoading' \in BOOLEAN
    BY <1>0, <1>1, LoadStep
  <1> QED
    BY <1>0, <1>2, <1>3 DEF TelemetryInv, TelemetryTypeOK, ClosedIsEmpty, MaxLimit

LEMMA TelemetryLeaveStep ==
  ASSUME TelemetryInv, TelemetryLeave
  PROVE  TelemetryInv'
  <1>1. /\ range' \in Ranges /\ loads' = {} /\ logs' = << >>
        /\ open' \in BOOLEAN /\ logsLoading' \in BOOLEAN
        /\ sent' = 0 /\ stored' = {} /\ inStore' = 0
    BY MaxRangeProperties DEF TelemetryLeave, DialogGone
  <1>2. 0 \in 0 .. MaxTime /\ 0 <= MaxOf(LogCap, MaxLimit)
    BY CapNumbers
  <1> QED
    BY <1>1, <1>2, NoRows DEF TelemetryInv, TelemetryTypeOK, ClosedIsEmpty, LoadsBounded, MaxLimit

\* The poll and the select of the range only send a load.
LEMMA AskStep ==
  ASSUME TelemetryInv, NEW r \in Ranges, LoadLogs(MaxOf(r, MinLogs)), range' = r, open,
         UNCHANGED <<open, logs, tracker>>
  PROVE  TelemetryInv'
  <1>1. UNCHANGED <<sent, stored, inStore>>
    BY DEF tracker
  <1>2. loads' \subseteq Load /\ LoadsBounded' /\ logsLoading' \in BOOLEAN
    BY <1>1, LoadStep
  <1> QED
    BY <1>1, <1>2 DEF TelemetryInv, TelemetryTypeOK, ClosedIsEmpty

\* The server reads what a load will bring.
LEMMA ReadStep ==
  ASSUME TelemetryInv, NEW l \in loads, LogsRead(l)
  PROVE  TelemetryInv'
  <1>1. PICK rows \in Newest(l.limit) :
          loads' = (loads \ {l}) \union {[limit |-> l.limit, read |-> TRUE, rows |-> rows]}
    BY DEF LogsRead
  <1> DEFINE m == [limit |-> l.limit, read |-> TRUE, rows |-> rows]
  <1>2. l \in Load /\ l.limit \in Nat /\ l.limit <= MaxLimit
    BY DEF TelemetryInv, TelemetryTypeOK, ClosedIsEmpty, LoadsBounded, Load
  <1>3. Fits(rows) /\ rows \in Seq(1 .. MaxTime)
    BY <1>2, NewestProperties
  <1>4. m \in Load /\ m.limit <= MaxLimit /\ m.rows = rows
    BY <1>2, <1>3 DEF Load
  <1>5. loads' = (loads \ {l}) \union {m}
    BY <1>1
  <1> HIDE DEF m
  <1>6. UNCHANGED <<open, range, logs, logsLoading, sent, stored, inStore>>
    BY DEF LogsRead, tracker
  <1>7. \A x \in loads' : x \in Load /\ x.limit <= MaxLimit /\ Fits(x.rows)
    BY <1>3, <1>4, <1>5 DEF TelemetryInv, TelemetryTypeOK, ClosedIsEmpty, LoadsBounded
  <1>8. loads' \subseteq Load /\ LoadsBounded'
    BY <1>6, <1>7 DEF LoadsBounded, Fits
  <1> QED
    BY <1>6, <1>8 DEF TelemetryInv, TelemetryTypeOK, ClosedIsEmpty

\* An answer brings what the server has read.
LEMMA AnswerStep ==
  ASSUME TelemetryInv, NEW l \in loads, LogsArrive(l)
  PROVE  TelemetryInv'
  <1>1. loads' \subseteq loads /\ logs' = l.rows /\ logsLoading' = FALSE
        /\ UNCHANGED <<open, range, sent, stored, inStore>>
    BY DEF LogsArrive, tracker
  <1>2. Fits(logs')
    BY <1>1 DEF TelemetryInv, LoadsBounded
  <1>3. logs' \in Rows /\ Len(logs') <= MaxOf(LogCap, MaxLimit)
    <2>1. logs' \in Rows /\ Len(logs') \in Nat /\ Len(logs') <= MaxLimit
      BY <1>2 DEF Fits, Rows
    <2> QED
      BY <2>1, CapNumbers
  <1>4. \A i \in DOMAIN logs' : logs'[i] \in 1 .. sent'
    BY <1>1, <1>2 DEF Fits
  <1>5. LoadsBounded'
    BY <1>1 DEF TelemetryInv, LoadsBounded, Fits
  <1> QED
    BY <1>1, <1>3, <1>4, <1>5 DEF TelemetryInv, TelemetryTypeOK, ClosedIsEmpty, MaxLimit

LEMMA LogsFailStep ==
  ASSUME TelemetryInv, NEW l \in loads, LogsFail(l)
  PROVE  TelemetryInv'
  <1>1. loads' \subseteq loads /\ logsLoading' = FALSE
        /\ UNCHANGED <<open, range, logs, sent, stored, inStore>>
    BY DEF LogsFail, tracker
  <1>2. LoadsBounded'
    BY <1>1 DEF TelemetryInv, LoadsBounded, Fits
  <1> QED
    BY <1>1, <1>2 DEF TelemetryInv, TelemetryTypeOK, ClosedIsEmpty

LEMMA PushStep ==
  ASSUME TelemetryInv, NEW t \in 1 .. MaxTime, StoreChanges(t)
  PROVE  TelemetryInv'
  <1>1. /\ inStore' = t /\ logs' = Prepended(t, logs) /\ t \in 1 .. sent
        /\ UNCHANGED <<open, range, loads, logsLoading, sent, stored>>
    BY DEF StoreChanges
  <1>2. /\ sent \in Nat /\ t \in Nat /\ t <= sent /\ logs \in Rows
        /\ Len(logs) <= MaxOf(LogCap, MaxLimit)
        /\ \A i \in DOMAIN logs : logs[i] \in 1 .. sent
    BY <1>1, TrackerFacts DEF TelemetryInv, TelemetryTypeOK, ClosedIsEmpty, MaxLimit
  <1>3. /\ logs' \in Rows /\ Len(logs') <= MaxOf(LogCap, MaxLimit)
        /\ \A i \in DOMAIN logs' : logs'[i] \in 1 .. sent
    BY <1>1, <1>2, PrependedProperties
  <1>4. t \in 0 .. sent
    BY <1>2
  <1>5. LoadsBounded'
    BY <1>1 DEF TelemetryInv, LoadsBounded, Fits
  <1> QED
    BY <1>1, <1>3, <1>4, <1>5 DEF TelemetryInv, TelemetryTypeOK, ClosedIsEmpty, MaxLimit

\* A record that is sent, or stored later.
LEMMA RecordStep ==
  ASSUME TelemetryInv, RecordSent \/ \E t \in 1 .. MaxTime : RecordResent(t)
  PROVE  TelemetryInv'
  <1>1. sent \in Nat /\ stored \subseteq 1 .. sent /\ inStore \in Nat /\ inStore <= sent
    BY TrackerFacts
  <1>2. UNCHANGED <<open, range, logs, loads, logsLoading, inStore>>
    BY DEF RecordSent, RecordResent
  <1>3. sent' \in 0 .. MaxTime /\ sent <= sent' /\ stored' \subseteq 1 .. sent'
    <2>1. CASE RecordSent
      <3>1. sent' \in 0 .. MaxTime /\ sent <= sent' /\ sent' = sent + 1
        BY <1>1, <2>1, CapNumbers DEF RecordSent
      <3>2. stored' \subseteq stored \union {sent + 1}
        BY <2>1 DEF RecordSent
      <3>3. \A t \in 1 .. sent : t \in 1 .. sent + 1
        BY <1>1
      <3>4. sent + 1 \in 1 .. sent + 1
        BY <1>1
      <3> QED
        BY <1>1, <3>1, <3>2, <3>3, <3>4
    <2>2. ASSUME NEW t \in 1 .. MaxTime, RecordResent(t)
          PROVE  sent' \in 0 .. MaxTime /\ sent <= sent' /\ stored' \subseteq 1 .. sent'
      BY <1>1, <2>2 DEF RecordResent, TelemetryInv, TelemetryTypeOK
    <2> QED
      BY <2>1, <2>2
  <1>4. sent' \in Nat /\ inStore' \in 0 .. sent' /\ \A t \in 1 .. sent : t \in 1 .. sent'
    BY <1>1, <1>2, <1>3, CapNumbers
  <1>5. LoadsBounded'
    BY <1>1, <1>2, <1>3, <1>4, FitsLater DEF TelemetryInv, LoadsBounded
  <1> QED
    BY <1>2, <1>3, <1>4, <1>5 DEF TelemetryInv, TelemetryTypeOK, ClosedIsEmpty

LEMMA NextTelemetryInv ==
  ASSUME TelemetryInv, TelemetryMount \/ TelemetryStep \/ UNCHANGED telemetryVars
  PROVE  TelemetryInv'
  <1>1. CASE TelemetryMount
    BY <1>1, MountStep
  <1>2. CASE TelemetryLeave
    BY <1>2, TelemetryLeaveStep
  <1>3. CASE PollLogs
    BY <1>3, AskStep DEF PollLogs, FetchLimit, TelemetryInv, TelemetryTypeOK
  <1>4. CASE SomeLogsRead \/ LogsAnswered
    BY <1>4, ReadStep, AnswerStep DEF SomeLogsRead, LogsAnswered
  <1>5. CASE RecordSent \/ \E t \in 1 .. MaxTime : RecordResent(t)
    BY <1>5, RecordStep
  <1>6. ASSUME NEW l \in loads, LogsFail(l)
        PROVE  TelemetryInv'
    BY <1>6, LogsFailStep
  <1>7. ASSUME NEW r \in Ranges, SetIntervalRange(r)
        PROVE  TelemetryInv'
    BY <1>7, AskStep DEF SetIntervalRange
  <1>8. ASSUME NEW t \in 1 .. MaxTime, StoreChanges(t)
        PROVE  TelemetryInv'
    BY <1>8, PushStep
  <1>9. CASE UNCHANGED telemetryVars
    BY <1>9 DEF telemetryVars, tracker, TelemetryInv, TelemetryTypeOK, LoadsBounded, Fits,
                ClosedIsEmpty
  <1> QED
    BY <1>1, <1>2, <1>3, <1>4, <1>5, <1>6, <1>7, <1>8, <1>9 DEF TelemetryStep

-----------------------------------------------------------------------------
\* A step of the router is a step of each page, or leaves it alone.
LEMMA RouterStep ==
  ASSUME [ViewsNext]_viewsVars
  PROVE  /\ [PlaybackNext]_playbackVars
         /\ [ReportsNext]_reportsVars
         /\ TelemetryMount \/ TelemetryStep \/ UNCHANGED telemetryVars
  BY DEF ViewsNext, viewsVars, OnPlayback, OnReports, OnTelemetry, PlaybackNext, ReportsNext

(***************************************************************************)
(* The invariants of the three pages hold together, for every fleet, track *)
(* length, set of reports and length of the log, whichever page the router *)
(* of App.tsx mounts when.                                                 *)
(***************************************************************************)
THEOREM ViewsInvariant == ViewsSpec => []ViewsInv
  <1>1. ViewsInit => ViewsInv
    BY PlaybackStart, InitReportsInv, InitTelemetryInv DEF ViewsInit, ViewsInv
  <1>2. ViewsInv /\ [ViewsNext]_viewsVars => ViewsInv'
    BY RouterStep, PlaybackStepKeeps, NextReportsInv, NextTelemetryInv DEF ViewsInv
  <1> QED
    BY <1>1, <1>2, PTL DEF ViewsSpec

(***************************************************************************)
(* The log of a tracker holds only records the tracker has sent (not only  *)
(* stored ones: rudra-ingest publishes more) and is never longer than the  *)
(* largest load or the cut of a push, however polls, changes of the range  *)
(* and pushes interleave (TeltonikaDetailsModal.tsx); the cursor of        *)
(* PlaybackPage.tsx never leaves its track.                                *)
(***************************************************************************)
THEOREM ViewsTypes == ViewsSpec => []TypeOK
  <1>1. ViewsInv => TypeOK
    BY DEF ViewsInv, PlaybackInv, ReportsInv, TelemetryInv, TypeOK
  <1> QED
    BY <1>1, ViewsInvariant, PTL

(***************************************************************************)
(* What PlaybackPage.tsx and ReportsPage.tsx show is right under the       *)
(* router too: the three properties the run of Views checks.               *)
(***************************************************************************)
THEOREM ViewsShowTheirOwn ==
  ViewsSpec => [](RouteOfSelection /\ DrawnIsRoute /\ ReportUnderTitle)
  <1>1. ViewsInv => RouteOfSelection /\ DrawnIsRoute /\ ReportUnderTitle
    BY DEF ViewsInv, PlaybackInv, ReportsInv
  <1> QED
    BY <1>1, ViewsInvariant, PTL
=============================================================================
