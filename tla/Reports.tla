--------------------------------- MODULE Reports ---------------------------------
(***************************************************************************)
(* ReportsPage of the client: a report is fetched whenever its type or the *)
(* date range changes.  The fetches are not cancelled, so answers for an   *)
(* earlier choice may come last; the title is always that of the choice.   *)
(***************************************************************************)
EXTENDS Naturals, Sequences

CONSTANTS
  Choices,     \* pairs of report type and date range
  NoReport,
  MaxPending   \* bound on the fetches under way

ASSUME ReportsAssumption ==
  /\ NoReport \notin Choices
  /\ MaxPending \in Nat \ {0}

VARIABLES
  choice,         \* reportType and dateRange; NoReport while the page is away
  pending,        \* the fetches under way, in the order they were sent
  reportLoading,  \* loading
  shown,          \* the report whose columns and rows are in the table
  hasRows,        \* whether it has rows
  reportError,    \* error
  exporting,      \* exporting
  behind,         \* history: how many of them were sent before the fetch that was
                  \* the newest to be answered
  overtaken       \* history: one such was answered after it

history == <<behind, overtaken>>
reportsVars ==
  <<choice, pending, reportLoading, shown, hasRows, reportError, exporting, history>>

ReportsTypeOK ==
  /\ choice \in Choices \union {NoReport}
  /\ pending \in Seq(Choices) /\ Len(pending) <= MaxPending
  /\ shown \in Choices \union {NoReport}
  /\ reportLoading \in BOOLEAN /\ hasRows \in BOOLEAN /\ reportError \in BOOLEAN
  /\ exporting \in BOOLEAN /\ overtaken \in BOOLEAN
  /\ behind \in 0 .. Len(pending)

ReportsInit ==
  /\ choice = NoReport /\ pending = << >> /\ reportLoading = FALSE
  /\ shown = NoReport /\ hasRows = FALSE /\ reportError = FALSE
  /\ exporting = FALSE /\ behind = 0 /\ overtaken = FALSE

\* The effect of reportType, dateRange and the company.
FetchReport(c) ==
  /\ Len(pending) < MaxPending
  /\ pending' = Append(pending, c)
  /\ choice' = c
  /\ reportLoading' = TRUE /\ reportError' = FALSE

ReportsMount ==
  /\ choice = NoReport
  /\ \E c \in Choices : FetchReport(c)
  /\ UNCHANGED <<shown, hasRows, exporting, history>>

ChooseReport(c) ==
  /\ choice # NoReport /\ c # choice
  /\ FetchReport(c)
  /\ UNCHANGED <<shown, hasRows, exporting, history>>

\* The k-th of the fetches under way is answered; any may be.
Answered(k) ==
  /\ pending' = [i \in 1 .. Len(pending) - 1 |-> pending[IF i < k THEN i ELSE i + 1]]
  /\ reportLoading' = FALSE
  /\ overtaken' = (k <= behind)
  /\ behind' = IF k <= behind THEN behind - 1 ELSE k - 1

ReportArrives(k, some) ==
  /\ Answered(k)
  /\ shown' = pending[k] /\ hasRows' = some
  /\ UNCHANGED <<choice, reportError, exporting>>

\* Mutant: a failure leaves the last report in the table.
ReportFailsQuietly(k) ==
  /\ Answered(k)
  /\ reportError' = TRUE
  /\ UNCHANGED <<choice, shown, hasRows, exporting>>

ReportFails(k) ==
  /\ Answered(k)
  /\ shown' = NoReport /\ hasRows' = FALSE /\ reportError' = TRUE
  /\ UNCHANGED <<choice, exporting>>

\* The button is disabled while loading, exporting or without rows.
HandleExportCSV ==
  /\ choice # NoReport /\ ~reportLoading /\ ~exporting /\ hasRows
  /\ exporting' = TRUE
  /\ UNCHANGED <<choice, pending, reportLoading, shown, hasRows, reportError, history>>

Exported ==
  /\ exporting
  /\ exporting' = FALSE
  /\ reportError' \in {reportError, TRUE}
  /\ UNCHANGED <<choice, pending, reportLoading, shown, hasRows, history>>

ReportsLeave ==
  /\ choice # NoReport
  /\ choice' = NoReport /\ pending' = << >> /\ reportLoading' = FALSE
  /\ shown' = NoReport /\ hasRows' = FALSE /\ reportError' = FALSE
  /\ exporting' = FALSE /\ behind' = 0 /\ overtaken' = FALSE

ReportsStep ==
  \/ ReportsLeave \/ HandleExportCSV \/ Exported
  \/ \E c \in Choices : ChooseReport(c)
  \/ \E k \in DOMAIN pending : \/ ReportFails(k)
                               \/ \E some \in BOOLEAN : ReportArrives(k, some)

ReportsNext == ReportsMount \/ ReportsStep

ReportsSpec == ReportsInit /\ [][ReportsNext]_reportsVars

(***************************************************************************)
(* Once the fetch that was sent last is answered, the table under the      *)
(* title is that report's, or is empty with the error message, however     *)
(* many fetches were and are under way, until one of those is answered     *)
(* after it: fetchReport does not look at what is chosen by then, so that  *)
(* an answer which was overtaken fills the table.                          *)
(***************************************************************************)
ReportUnderTitle ==
  choice # NoReport /\ behind = Len(pending) /\ ~overtaken =>
    \/ shown = choice
    \/ shown = NoReport /\ reportError
=============================================================================
