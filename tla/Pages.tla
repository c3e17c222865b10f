--------------------------------- MODULE Pages ---------------------------------
(***************************************************************************)
(* The list pages of both applications, one mounted at a time, with the    *)
(* server behind them: what must hold whatever the user clicks while       *)
(* requests are under way, whatever other users do, and whatever fails.    *)
(***************************************************************************)
EXTENDS ClientPages, AdminPages

Next ==
  \/ ClientNext \/ AdminNext \/ Leave
  \/ \E s \in Slots : Serve(s)

Spec == Init /\ [][Next]_vars

-----------------------------------------------------------------------------
\* A list on the screen, a list on its way and the table hold rows of the
\* table's ids and nothing else, also when an answer is not a list.
TypeOK ==
  /\ page \in ClientPanels \union AdminPanels \union {"Away"}
  /\ ui \in UiState
  /\ table \in Tables
  /\ reqs \in [Slots -> Request]
  /\ lapped \in BOOLEAN
  /\ stale \in BOOLEAN

Screen == IF page \in ClientPanels THEN ClientScreen ELSE AdminScreen

\* The lists a page may show.  A notification that is marked read leaves a gap
\* in the flyout until it is opened again.
Expected ==
  CASE page = "Attention" -> {OpenOnly(Selected(0))}
    [] page = "Notifications" ->
         {r \in [Ids -> {"none", "new"}] :
            Present(r) \subseteq Present(OpenOnly(Selected(0)))}
    [] OTHER -> {Selected(ui.tab)}

\* Settings typed but not saved, permissions toggled but not saved.
Unsaved ==
  \/ page = "Settings" /\ "edit" \in ui.typed
  \/ page = "Roles" /\ ChangedRoles # {}

(***************************************************************************)
(* A page at rest shows what the server would answer now: every handler    *)
(* ends in a reload or in a patch of the list that leaves on the screen    *)
(* what the server has.  Three things are excepted.  Another user changed  *)
(* the table, or a request failed, after the last SELECT (stale).  No page *)
(* orders its requests, so a load that overlapped another load or a change *)
(* the page patches in, two contrary switches of one row that overlapped,  *)
(* and a tab of the lookups left while a request of it was under way may   *)
(* leave an old list (lapped).  And what the user has not saved yet.  One  *)
(* load that runs alone repairs the first two.                             *)
(***************************************************************************)
ScreenIsCurrent ==
  page # "Away" /\ Quiet /\ ~lapped /\ ~stale /\ ~Unsaved
    => Screen \in Expected

(***************************************************************************)
(* A page never waits for nothing.  While "Loading..." is in place of the  *)
(* rows a load is under way, whose end clears the flag (finally).  A form  *)
(* with a submitting flag (dispatch, remote commands, settings, permission *)
(* matrix) is locked exactly as long as its request is under way: it never *)
(* sends two at a time and never stays locked.                             *)
(***************************************************************************)
Submitted == {s \in Slots : reqs[s].op \in {"create", "edit", "put"}}

FlagsMatchRequests ==
  /\ ui.loading => \E s \in Slots : reqs[s].op = "load"
  /\ page \in {"Passes", "Control", "Settings", "Roles"} =>
       /\ ui.busy <=> Submitted # {}
       /\ Cardinality(Submitted) <= 1

(***************************************************************************)
(* An alert or reminder shown as acknowledged is acknowledged (or deleted) *)
(* on the server, also when requests fail one by one or lists arrive late. *)
(***************************************************************************)
AckShownIsStored ==
  page \in {"Attention", "Alarms", "Reminders"} =>
    \A i \in Ids : ui.rows[i] = "done" => table[i] \in {"done", "gone"}

(***************************************************************************)
(* The flyout drops a notification only when it is acknowledged, when      *)
(* newer ones fill the flyout, or when the answer no longer reaches back   *)
(* to it, ListLimit alerts (acknowledged ones too) being newer.  Excepted  *)
(* is a load that overlaps another load, a mark-all or a mark of one item: *)
(* an older list, or the answer to a mark-all, may then empty the flyout   *)
(* of an alert that came later.                                            *)
(***************************************************************************)
Crowded(i) == Cardinality(Newer(Listed(table), i)) >= ListLimit

DroppedIsAcknowledged ==
  [][ page = "Notifications" /\ page' = page /\ ~lapped =>
        \A i \in Ids : ui.rows[i] = "new" /\ ui'.rows[i] = "none"
             => \/ table[i] # "new"
                \/ Cardinality(Present(ui'.rows)) = FlyoutSize
                \/ Crowded(i) ]_vars

(***************************************************************************)
(* Saving the permission matrix writes only roles whose rights differ from *)
(* the stored ones the page has loaded, until the last of them is written. *)
(***************************************************************************)
OnlyChangedRolesWritten ==
  page = "Roles" =>
    \A s \in Slots : reqs[s].op = "edit" => reqs[s].val # ui.rows[reqs[s].id]
=============================================================================
