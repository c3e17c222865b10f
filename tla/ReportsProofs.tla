------------------------------ MODULE ReportsProofs ------------------------------
(***************************************************************************)
(* Proofs about Reports for any number of reports and of fetches under     *)
(* way, answered in any order.  ReportUnderTitle is not inductive: it      *)
(* needs that, until it is answered, the fetch sent last is for the        *)
(* present choice.                                                         *)
(***************************************************************************)
EXTENDS Reports, TLAPS

NewestIsChoice ==
  choice # NoReport /\ behind < Len(pending) => pending[Len(pending)] = choice

ReportsInv == ReportsTypeOK /\ ReportUnderTitle /\ NewestIsChoice

-----------------------------------------------------------------------------
\* Nothing under way.
LEMMA NoFetchUnderWay ==
  /\ << >> \in Seq(Choices) /\ Len(<< >>) <= MaxPending
  /\ 0 \in 0 .. Len(<< >>)
  <1>1. << >> \in Seq(Choices) /\ Len(<< >>) = 0
    OBVIOUS
  <1> QED
    BY <1>1, ReportsAssumption

\* No page, no report.
LEMMA InitReportsInv == ReportsInit => ReportsInv
  <1> SUFFICES ASSUME ReportsInit PROVE ReportsInv
    OBVIOUS
  <1>1. ReportsTypeOK
    BY NoFetchUnderWay DEF ReportsInit, ReportsTypeOK
  <1>2. ReportUnderTitle /\ NewestIsChoice
    BY DEF ReportsInit, ReportUnderTitle, NewestIsChoice
  <1> QED
    BY <1>1, <1>2 DEF ReportsInv

\* A fetch is sent behind all others, for the new choice.
LEMMA FetchStep ==
  ASSUME ReportsInv, NEW c \in Choices, FetchReport(c),
         UNCHANGED <<shown, hasRows, exporting, history>>
  PROVE  ReportsInv'
  <1>1. /\ pending \in Seq(Choices) /\ Len(pending) \in Nat /\ Len(pending) < MaxPending
        /\ behind \in 0 .. Len(pending) /\ behind' = behind /\ overtaken' = overtaken
    BY DEF ReportsInv, ReportsTypeOK, FetchReport, history
  <1>2. /\ pending' \in Seq(Choices) /\ Len(pending') = Len(pending) + 1
        /\ pending'[Len(pending')] = c
    BY <1>1 DEF FetchReport
  <1>3. Len(pending') <= MaxPending /\ behind' \in 0 .. Len(pending')
        /\ behind' # Len(pending')
    BY <1>1, <1>2, ReportsAssumption
  <1>4. choice' = c /\ reportLoading' = TRUE /\ reportError' = FALSE
    BY DEF FetchReport
  <1>5. ReportsTypeOK'
    BY <1>1, <1>2, <1>3, <1>4 DEF ReportsInv, ReportsTypeOK
  <1>6. ReportUnderTitle'
    BY <1>3 DEF ReportUnderTitle
  <1>7. NewestIsChoice'
    BY <1>2, <1>4 DEF NewestIsChoice
  <1> QED
    BY <1>5, <1>6, <1>7 DEF ReportsInv

\* An answer ends one fetch.  If the newest is answered by now and this one did
\* not come after it, this one is the newest, and for the choice.
LEMMA AnsweredStep ==
  ASSUME ReportsInv, NEW k \in DOMAIN pending, Answered(k), choice' = choice
  PROVE  /\ pending' \in Seq(Choices) /\ Len(pending') <= MaxPending
         /\ behind' \in 0 .. Len(pending')
         /\ overtaken' \in BOOLEAN /\ reportLoading' \in BOOLEAN
         /\ NewestIsChoice'
         /\ pending[k] \in Choices
         /\ choice # NoReport /\ behind' = Len(pending') /\ ~overtaken' =>
              pending[k] = choice
  <1> DEFINE n == Len(pending)
  <1>1. /\ pending \in Seq(Choices) /\ n \in Nat /\ n <= MaxPending
        /\ k \in 1 .. n /\ behind \in 0 .. n
    BY DEF ReportsInv, ReportsTypeOK
  <1>2. \A i \in 1 .. n : pending[i] \in Choices
    BY <1>1
  <1>3. pending' = [i \in 1 .. n - 1 |-> pending[IF i < k THEN i ELSE i + 1]]
    BY DEF Answered
  <1>4. \A i \in 1 .. n - 1 : (IF i < k THEN i ELSE i + 1) \in 1 .. n
    BY <1>1
  <1>5. pending' \in [1 .. n - 1 -> Choices]
    BY <1>2, <1>3, <1>4
  <1>6. n - 1 \in Nat /\ pending' \in Seq(Choices) /\ Len(pending') = n - 1
    BY <1>1, <1>5
  <1>7. behind' = IF k <= behind THEN behind - 1 ELSE k - 1
    BY DEF Answered
  <1>8. overtaken' = (k <= behind) /\ reportLoading' = FALSE
    BY DEF Answered
  <1>9. choice # NoReport /\ behind < n => pending[n] = choice
    BY DEF ReportsInv, NewestIsChoice
  <1> HIDE DEF n
  <1>10. Len(pending') <= MaxPending /\ behind' \in 0 .. Len(pending')
    BY <1>1, <1>6, <1>7, ReportsAssumption
  <1>11. NewestIsChoice'
    <2> SUFFICES ASSUME choice # NoReport, behind' < Len(pending')
                 PROVE  pending'[Len(pending')] = choice
      BY DEF NewestIsChoice
    <2>1. behind < n /\ n - 1 \in 1 .. n - 1 /\ ~(n - 1 < k)
      BY <1>1, <1>6, <1>7
    <2>2. pending'[n - 1] = pending[n - 1 + 1]
      BY <1>3, <2>1
    <2>3. pending[n - 1 + 1] = pending[n]
      BY <1>1
    <2> QED
      BY <1>6, <1>9, <2>1, <2>2, <2>3
  <1>12. ASSUME choice # NoReport, behind' = Len(pending'), ~overtaken'
         PROVE  pending[k] = choice
    <2>1. ~(k <= behind)
      BY <1>8, <1>12
    <2>2. k = n /\ behind < n
      BY <1>1, <1>6, <1>7, <1>12, <2>1
    <2> QED
      BY <1>9, <1>12, <2>2
  <1>13. overtaken' \in BOOLEAN
    BY <1>8
  <1> QED
    BY <1>1, <1>2, <1>6, <1>8, <1>10, <1>11, <1>12, <1>13

\* The report of the answer is in the table.
LEMMA ReportArrivesStep ==
  ASSUME ReportsInv, NEW k \in DOMAIN pending, NEW some \in BOOLEAN, ReportArrives(k, some)
  PROVE  ReportsInv'
  <1>1. /\ pending' \in Seq(Choices) /\ Len(pending') <= MaxPending
        /\ behind' \in 0 .. Len(pending')
        /\ overtaken' \in BOOLEAN /\ reportLoading' \in BOOLEAN
        /\ NewestIsChoice'
        /\ pending[k] \in Choices
        /\ choice # NoReport /\ behind' = Len(pending') /\ ~overtaken' =>
             pending[k] = choice
    BY AnsweredStep DEF ReportArrives
  <1>2. ReportsTypeOK'
    BY <1>1 DEF ReportArrives, ReportsInv, ReportsTypeOK
  <1>3. ReportUnderTitle'
    BY <1>1 DEF ReportArrives, ReportUnderTitle
  <1> QED
    BY <1>1, <1>2, <1>3 DEF ReportsInv

\* The table is emptied and the error shown.
LEMMA FailsStep ==
  ASSUME ReportsInv, NEW k \in DOMAIN pending, ReportFails(k)
  PROVE  ReportsInv'
  <1>1. /\ pending' \in Seq(Choices) /\ Len(pending') <= MaxPending
        /\ behind' \in 0 .. Len(pending')
        /\ overtaken' \in BOOLEAN /\ reportLoading' \in BOOLEAN
        /\ NewestIsChoice'
    BY AnsweredStep DEF ReportFails
  <1>2. ReportsTypeOK'
    BY <1>1 DEF ReportFails, ReportsInv, ReportsTypeOK
  <1>3. ReportUnderTitle'
    BY DEF ReportFails, ReportUnderTitle
  <1> QED
    BY <1>1, <1>2, <1>3 DEF ReportsInv

\* The export button touches neither the choice nor the table.
LEMMA ExportStep ==
  ASSUME ReportsInv, HandleExportCSV \/ Exported
  PROVE  ReportsInv'
  <1> USE DEF history
  <1>1. CASE HandleExportCSV
    BY <1>1 DEF HandleExportCSV, ReportsInv, ReportsTypeOK, ReportUnderTitle, NewestIsChoice
  <1>2. CASE Exported
    <2>1. UNCHANGED <<choice, pending, reportLoading, shown, hasRows, history>>
          /\ exporting' = FALSE /\ reportError' \in BOOLEAN
          /\ (reportError => reportError')
      <3>1. reportError' = reportError \/ reportError' = TRUE
        BY <1>2 DEF Exported
      <3>2. reportError \in BOOLEAN
        BY DEF ReportsInv, ReportsTypeOK
      <3>3. reportError' \in BOOLEAN
        BY <3>1, <3>2, Zenon
      <3>4. reportError => reportError'
        BY <3>1, Zenon
      <3> QED
        BY <1>2, <3>3, <3>4 DEF Exported
    <2> QED
      BY <2>1 DEF ReportsInv, ReportsTypeOK, ReportUnderTitle, NewestIsChoice
  <1> QED
    BY <1>1, <1>2

LEMMA LeaveStep ==
  ASSUME ReportsInv, ReportsLeave
  PROVE  ReportsInv'
  <1>1. ReportsTypeOK'
    BY NoFetchUnderWay DEF ReportsLeave, ReportsTypeOK
  <1>2. ReportUnderTitle' /\ NewestIsChoice'
    BY DEF ReportsLeave, ReportUnderTitle, NewestIsChoice
  <1> QED
    BY <1>1, <1>2 DEF ReportsInv

LEMMA NextReportsInv == ReportsInv /\ [ReportsNext]_reportsVars => ReportsInv'
  <1> SUFFICES ASSUME ReportsInv, [ReportsNext]_reportsVars
               PROVE  ReportsInv'
    OBVIOUS
  <1>1. CASE ReportsMount
    BY <1>1, FetchStep DEF ReportsMount
  <1>2. CASE ReportsLeave
    BY <1>2, LeaveStep
  <1>3. CASE HandleExportCSV \/ Exported
    BY <1>3, ExportStep
  <1>4. ASSUME NEW c \in Choices, ChooseReport(c)
        PROVE  ReportsInv'
    BY <1>4, FetchStep DEF ChooseReport
  <1>5. ASSUME NEW k \in DOMAIN pending, ReportFails(k)
        PROVE  ReportsInv'
    BY <1>5, FailsStep
  <1>6. ASSUME NEW k \in DOMAIN pending, NEW some \in BOOLEAN,
               ReportArrives(k, some)
        PROVE  ReportsInv'
    BY <1>6, ReportArrivesStep
  <1>7. CASE UNCHANGED reportsVars
    BY <1>7 DEF reportsVars, history, ReportsInv, ReportsTypeOK, ReportUnderTitle,
                   NewestIsChoice
  <1> QED
    BY <1>1, <1>2, <1>3, <1>4, <1>5, <1>6, <1>7 DEF ReportsNext, ReportsStep

(***************************************************************************)
(* For any number of reports and of fetches under way, answered in any     *)
(* order: from the answer to the fetch sent last until an answer to an     *)
(* earlier one, the table under the title is that report's, or empty with  *)
(* the error (ReportsPage.tsx, fetchReport).                               *)
(***************************************************************************)
THEOREM ReportStaysUnderTitle == ReportsSpec => []ReportUnderTitle
<1>1. ReportsInv => ReportUnderTitle
  BY DEF ReportsInv
<1> QED
  BY InitReportsInv, NextReportsInv, <1>1, PTL DEF ReportsSpec
=============================================================================
