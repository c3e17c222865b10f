------------------------------ MODULE ClientPages ------------------------------
(***************************************************************************)
(* The pages of the client application that show a list of the server and  *)
(* change it (frontend/apps/client/src/pages and components/shared/Header).*)
(* A page whose parts share no state is modelled as several panels, each   *)
(* mounted on its own: the alerts and the gate passes of the dashboard,    *)
(* the tabs of the fleet page, the alarms and the rules of the alert page, *)
(* the form and the devices of the settings.                               *)
(*                                                                         *)
(* A filter or a tab only decides which rows are on the screen and can be  *)
(* changed at any time, so it is not state here: a row is offered when     *)
(* some filter shows it.                                                   *)
(***************************************************************************)
EXTENDS PageCore

CONSTANT FlyoutSize    \* how many notifications the header lists (5)

ASSUME FlyoutAssumption == FlyoutSize \in Nat \ {0}

ClientPanels ==
  {"Devices", "Complaints", "Guests", "Reminders", "Zones", "Trips", "Tyres",
   "Vouchers", "Passes", "Attention", "Notifications", "Alarms", "Rules",
   "Control", "Settings", "Units"}

Loading == [Blank EXCEPT !.loading = TRUE]

-----------------------------------------------------------------------------
(* DevicesPage: the tracker registry. *)
DevicesMount == Mount("Devices", Loading)
DevicesTable == TableBody
DevicesDialog == page = "Devices" /\ DialogSteps("create")
LoadDevices(s) == page = "Devices" /\ LoadKeeps(s)

HandleRegisterSubmit ==
  page = "Devices" /\ SubmitForm("create", Ask("create", 0, "new"))
Registered(s) == page = "Devices" /\ SavedThenReload(s, "create", "create")

HandleDeleteDevice(i) ==
  page = "Devices" /\ ClickRow(DevicesTable, i, Ask("drop", i, "none"))
DeviceDeleted(s) == page = "Devices" /\ DonePatched(s, "drop", "none")

Devices ==
  \/ DevicesMount \/ DevicesDialog \/ HandleRegisterSubmit
  \/ \E i \in Ids : HandleDeleteDevice(i)
  \/ \E s \in Slots : LoadDevices(s) \/ Registered(s) \/ DeviceDeleted(s)

-----------------------------------------------------------------------------
(* ComplaintsPage: support tickets. *)
ComplaintsMount == Mount("Complaints", Loading)
ComplaintsTable == TableBody
ComplaintsDialog == page = "Complaints" /\ DialogSteps("create")
LoadComplaints(s) == page = "Complaints" /\ LoadKeeps(s)

HandleCreateTicket ==
  page = "Complaints" /\ SubmitForm("create", Ask("create", 0, "new"))
\* Mutant: the dialog is closed and the list is not loaded again.
TicketCreatedOnly(s) ==
  /\ page = "Complaints"
  /\ \/ /\ Succeeded(s, "create", Idle)
        /\ ui' = [ui EXCEPT !.dialog = Closed("create"), !.typed = {}]
     \/ Failed(s, "create") /\ UNCHANGED ui

TicketCreated(s) == page = "Complaints" /\ SavedThenReload(s, "create", "create")

Complaints ==
  \/ ComplaintsMount \/ ComplaintsDialog \/ HandleCreateTicket
  \/ \E s \in Slots : LoadComplaints(s) \/ TicketCreated(s)

-----------------------------------------------------------------------------
(* GuestAccessPage: temporary tracking links. *)
GuestsMount == Mount("Guests", Loading)
GuestsTable == TableBody
GuestsDialog == page = "Guests" /\ DialogSteps("create")
LoadTempUsers(s) == page = "Guests" /\ LoadKeeps(s)

HandleCreateGuest ==
  page = "Guests" /\ SubmitForm("create", Ask("create", 0, "new"))
GuestCreated(s) == page = "Guests" /\ SavedThenReload(s, "create", "create")

HandleRevoke(i) ==
  page = "Guests" /\ ClickRow(GuestsTable, i, Ask("remove", i, "none"))
Revoked(s) == page = "Guests" /\ DoneThenReload(s, "remove")

Guests ==
  \/ GuestsMount \/ GuestsDialog \/ HandleCreateGuest
  \/ \E i \in Ids : HandleRevoke(i)
  \/ \E s \in Slots : LoadTempUsers(s) \/ GuestCreated(s) \/ Revoked(s)

-----------------------------------------------------------------------------
(* RemindersPage: documents that expire. *)
RemindersMount == Mount("Reminders", Loading)
RemindersTable == TableBody
RemindersDialog == page = "Reminders" /\ DialogSteps("create")
LoadReminders(s) == page = "Reminders" /\ LoadKeeps(s)

HandleCreateReminder ==
  page = "Reminders" /\ SubmitForm("create", Ask("create", 0, "new"))
ReminderCreated(s) == page = "Reminders" /\ SavedThenReload(s, "create", "create")

\* The button is rendered for a row that is not acknowledged.
AcknowledgeReminder(i) ==
  page = "Reminders" /\ ClickRow(OpenOnly(RemindersTable), i, Ask("edit", i, "done"))
ReminderAcknowledged(s) == page = "Reminders" /\ DoneThenReload(s, "edit")

DeleteReminder(i) ==
  page = "Reminders" /\ ClickRow(RemindersTable, i, Ask("remove", i, "none"))
ReminderDeleted(s) == page = "Reminders" /\ DoneThenReload(s, "remove")

Reminders ==
  \/ RemindersMount \/ RemindersDialog \/ HandleCreateReminder
  \/ \E i \in Ids : AcknowledgeReminder(i) \/ DeleteReminder(i)
  \/ \E s \in Slots : \/ LoadReminders(s) \/ ReminderCreated(s)
                      \/ ReminderAcknowledged(s) \/ ReminderDeleted(s)

-----------------------------------------------------------------------------
(* GeofencesPage: the zones. *)
ZonesMount == Mount("Zones", Loading)
ZonesTable == TableBody
ZonesDialog == page = "Zones" /\ DialogSteps("create")
LoadZones(s) == page = "Zones" /\ LoadKeeps(s)

\* A form with fewer than 3 vertices is not sent; it counts as not filled in.
HandleCreateZone ==
  page = "Zones" /\ SubmitForm("create", Ask("create", 0, "new"))
ZoneCreated(s) == page = "Zones" /\ SavedThenReload(s, "create", "create")

HandleDeleteZone(i) ==
  page = "Zones" /\ ClickRow(ZonesTable, i, Ask("drop", i, "none"))
ZoneDeleted(s) == page = "Zones" /\ DonePatched(s, "drop", "none")

Zones ==
  \/ ZonesMount \/ ZonesDialog \/ HandleCreateZone
  \/ \E i \in Ids : HandleDeleteZone(i)
  \/ \E s \in Slots : LoadZones(s) \/ ZoneCreated(s) \/ ZoneDeleted(s)

-----------------------------------------------------------------------------
(* FleetPage: one loadData for every tab, a form on three of them.  The     *)
(* tables stay on the screen while a load runs, and a form saved on another *)
(* tab loads this one again.                                                *)
FleetTabs == {"Trips", "Tyres", "Vouchers"}
FleetMount(t) == Mount(t, Loading)
LoadFleet(s) == page \in FleetTabs /\ LoadKeeps(s)
OtherTabSaved == page \in FleetTabs /\ LoadAgain

TripsTable == ui.rows
TripsDialog == page = "Trips" /\ DialogSteps("create")
HandleCreateTrip ==
  page = "Trips" /\ SubmitForm("create", Ask("create", 0, "new"))
TripCreated(s) == page = "Trips" /\ SavedThenReload(s, "create", "create")

TyresTable == ui.rows
TyresDialog == page = "Tyres" /\ DialogSteps("create")
HandleCreateTyre ==
  page = "Tyres" /\ SubmitForm("create", Ask("create", 0, "new"))
TyreCreated(s) == page = "Tyres" /\ SavedThenReload(s, "create", "create")

VouchersTable == ui.rows
VouchersDialog == page = "Vouchers" /\ DialogSteps("create")
HandleCreateVoucher ==
  page = "Vouchers" /\ SubmitForm("create", Ask("create", 0, "new"))
VoucherCreated(s) == page = "Vouchers" /\ SavedThenReload(s, "create", "create")

Fleet ==
  \/ \E t \in FleetTabs : FleetMount(t)
  \/ OtherTabSaved
  \/ TripsDialog \/ TyresDialog \/ VouchersDialog
  \/ HandleCreateTrip \/ HandleCreateTyre \/ HandleCreateVoucher
  \/ \E s \in Slots : \/ LoadFleet(s) \/ TripCreated(s) \/ TyreCreated(s)
                      \/ VoucherCreated(s)

-----------------------------------------------------------------------------
(* DashboardPage: gate passes, whose form cannot be sent twice at a time.   *)
PassesMount == Mount("Passes", Blank)
PassesTable == ui.rows
PassesDialog == page = "Passes" /\ DialogSteps("create")
LoadGatePasses(s) == page = "Passes" /\ LoadKeeps(s)

\* Mutant: the button is not disabled while the pass is being sent.
DispatchUnguarded ==
  /\ page = "Passes"
  /\ ui.dialog = "create" /\ "create" \in ui.typed
  /\ Send(Ask("create", 0, "new"))
  /\ ui' = [ui EXCEPT !.busy = TRUE]

HandleDispatchSubmit ==
  /\ page = "Passes"
  /\ ~ui.busy
  /\ ui.dialog = "create" /\ "create" \in ui.typed
  /\ Send(Ask("create", 0, "new"))
  /\ ui' = [ui EXCEPT !.busy = TRUE]

Dispatched(s) ==
  /\ page = "Passes"
  /\ \/ /\ Succeeded(s, "create", Load)
        /\ ui' = [ui EXCEPT !.dialog = Closed("create"), !.typed = {},
                            !.busy = FALSE]
     \/ /\ Failed(s, "create")
        /\ ui' = [ui EXCEPT !.busy = FALSE]

Passes ==
  \/ PassesMount \/ PassesDialog \/ HandleDispatchSubmit
  \/ \E s \in Slots : LoadGatePasses(s) \/ Dispatched(s)

(* DashboardPage: the alerts that need attention. *)
AttentionMount == Mount("Attention", Blank)
AttentionAlerts == OpenOnly(ui.rows)
LoadAttention(s) == page = "Attention" /\ LoadKeeps(s)

HandleAcknowledgeAlert(i) ==
  page = "Attention" /\ ClickRow(AttentionAlerts, i, Ask("patch", i, "done"))
AttentionAcknowledged(s) == page = "Attention" /\ DonePatched(s, "patch", "done")

Attention ==
  \/ AttentionMount
  \/ \E i \in Ids : HandleAcknowledgeAlert(i)
  \/ \E s \in Slots : LoadAttention(s) \/ AttentionAcknowledged(s)

-----------------------------------------------------------------------------
(* Header: the flyout with the latest alerts nobody has acknowledged.  It   *)
(* is loaded with the page and again every time it is opened.               *)
NotificationsMount == Mount("Notifications", Blank)

\* filter(...).slice(0, 5) of a list that has the newest alert first.
Latest(rows) == Newest(FlyoutSize, rows)

LoadNotifications(s) ==
  /\ page = "Notifications"
  /\ \/ /\ Succeeded(s, "load", Idle)
        /\ ui' = [ui EXCEPT !.rows = Latest(OpenOnly(reqs[s].rows))]
     \/ Failed(s, "load") /\ UNCHANGED ui

ToggleNotifications ==
  /\ page = "Notifications"
  /\ \/ /\ ui.dialog = "none"
        /\ Send(Load)
        /\ ui' = [ui EXCEPT !.dialog = "menu"]
     \/ CancelDialog("menu")

NotificationsTable == ui.rows

MarkItemRead(i) ==
  /\ page = "Notifications" /\ ui.dialog = "menu"
  /\ NotificationsTable[i] # "none"
  /\ Send(Ask("patch", i, "done"))
  /\ UNCHANGED ui
ItemRead(s) == page = "Notifications" /\ DonePatched(s, "patch", "none")

MarkAllRead ==
  /\ page = "Notifications" /\ ui.dialog = "menu"
  /\ NotificationsTable # NoRows
  /\ Send(Ask("all", 0, "done"))
  /\ UNCHANGED ui

\* Mutant: the list is emptied whatever the answer was.
AllReadAnyway(s) ==
  /\ page = "Notifications"
  /\ Succeeded(s, "all", Idle) \/ Failed(s, "all")
  /\ ui' = [ui EXCEPT !.rows = NoRows]

AllRead(s) ==
  /\ page = "Notifications"
  /\ \/ Succeeded(s, "all", Idle) /\ ui' = [ui EXCEPT !.rows = NoRows]
     \/ Failed(s, "all") /\ UNCHANGED ui

Notifications ==
  \/ NotificationsMount \/ ToggleNotifications \/ MarkAllRead
  \/ \E i \in Ids : MarkItemRead(i)
  \/ \E s \in Slots : LoadNotifications(s) \/ ItemRead(s) \/ AllRead(s)

-----------------------------------------------------------------------------
(* AlertsPage: alarms and notification rules, loaded together on mounting   *)
(* and every 45 seconds.                                                    *)
AlertTabs == {"Alarms", "Rules"}
AlertsMount(t) == Mount(t, Loading)
LoadAlertData(s) == page \in AlertTabs /\ LoadKeeps(s)
AlertsInterval == page \in AlertTabs /\ LoadAgain

AlarmsTable == TableBody

HandleAcknowledge(i) ==
  page = "Alarms" /\ ClickRow(OpenOnly(AlarmsTable), i, Ask("patch", i, "done"))
Acknowledged(s) == page = "Alarms" /\ DonePatched(s, "patch", "done")

\* The box of a row, and the box of the header, which only compares lengths:
\* shown is what the category, the search text and the page leave over.
TickAlarm(i) ==
  /\ page = "Alarms" /\ AlarmsTable[i] # "none"
  /\ ui' = [ui EXCEPT !.sel = IF i \in @ THEN @ \ {i} ELSE @ \union {i}]
  /\ UserOnly

TickAllAlarms ==
  /\ page = "Alarms"
  /\ \E shown \in SUBSET Present(ui.rows) :
       ui' = [ui EXCEPT !.sel = IF Cardinality(@) = Cardinality(shown)
                                THEN {} ELSE shown]
  /\ UserOnly

HandleBatchAcknowledge ==
  /\ page = "Alarms" /\ ui.sel # {}
  /\ Send([Idle EXCEPT !.op = "batch",
              !.rows = [i \in Ids |-> IF i \in ui.sel THEN "new" ELSE "none"]])
  /\ UNCHANGED ui

\* Mutant: what is ticked when the answers are there is marked.
BatchMarksTicked(s) ==
  /\ page = "Alarms"
  /\ Succeeded(s, "batch", Idle)
  /\ ui' = [ui EXCEPT !.sel = {},
              !.rows = [i \in Ids |-> IF @[i] # "none" /\ i \in ui.sel
                                      THEN "done" ELSE @[i]]]

\* Promise.all is through: the granted ones are patched, the boxes cleared.
BatchAcknowledged(s) ==
  /\ page = "Alarms"
  /\ Succeeded(s, "batch", Idle)
  /\ ui' = [ui EXCEPT !.sel = {},
              !.rows = [i \in Ids |-> IF @[i] # "none" /\ reqs[s].rows[i] = "done"
                                      THEN "done" ELSE @[i]]]

RulesTable == ui.rows
Flipped(v) == IF v = "new" THEN "done" ELSE "new"

ToggleRule(i) ==
  /\ page = "Rules"
  /\ ClickRow(RulesTable, i, Ask("patch", i, Flipped(ui.rows[i])))
RuleToggled(s) == page = "Rules" /\ DonePatched(s, "patch", reqs[s].val)

Alerts ==
  \/ \E t \in AlertTabs : AlertsMount(t)
  \/ AlertsInterval \/ TickAllAlarms \/ HandleBatchAcknowledge
  \/ \E i \in Ids : HandleAcknowledge(i) \/ TickAlarm(i) \/ ToggleRule(i)
  \/ \E s \in Slots : \/ LoadAlertData(s) \/ Acknowledged(s)
                      \/ FailedInBatch(s) \/ BatchAcknowledged(s)
                      \/ RuleToggled(s)

-----------------------------------------------------------------------------
(* ControlPanelPage: remote commands.  busy is its "loading", the ledger of *)
(* the commands has a flag of its own and is polled every 10 seconds.       *)
ControlMount == Mount("Control", Loading)
ControlTable == TableBody
LoadCommandLogs(s) == page = "Control" /\ LoadKeeps(s)
LogsInterval == page = "Control" /\ LoadAgain

\* A card whose command needs a PIN opens the dialog with an empty input.
InitiateWithPin ==
  /\ page = "Control" /\ ui.dialog = "none" /\ ~ui.busy
  /\ ui' = [ui EXCEPT !.dialog = "pin", !.typed = {}]
  /\ UserOnly

ExecuteCommand ==
  /\ Send(Ask("create", 0, "new"))
  /\ ui' = [ui EXCEPT !.busy = TRUE]

InitiateCommand ==
  page = "Control" /\ ui.dialog = "none" /\ ~ui.busy /\ ExecuteCommand

HandlePinSubmit ==
  /\ page = "Control" /\ ui.dialog = "pin" /\ ~ui.busy
  /\ "pin" \in ui.typed
  /\ ExecuteCommand

PinDialog ==
  /\ page = "Control"
  /\ TypeForm("pin") \/ (~ui.busy /\ CancelDialog("pin"))

CommandAnswered(s) ==
  /\ page = "Control"
  /\ \/ /\ Succeeded(s, "create", Load)
        /\ ui' = [ui EXCEPT !.dialog = "none", !.busy = FALSE, !.loading = TRUE]
     \/ /\ Failed(s, "create")
        /\ ui' = [ui EXCEPT !.busy = FALSE]

Control ==
  \/ ControlMount \/ LogsInterval
  \/ InitiateWithPin \/ InitiateCommand \/ HandlePinSubmit \/ PinDialog
  \/ \E s \in Slots : LoadCommandLogs(s) \/ CommandAnswered(s)

-----------------------------------------------------------------------------
(* SettingsPage: the form of the organisation.  Row 1 is the stored record; *)
(* ui.rows[1] is the form: "none" is EMPTY_SETTINGS, "new" what was stored, *)
(* "done" what the user typed.                                              *)
SettingsMount ==
  /\ Mount("Settings", Blank)
  /\ table' = [NoRows EXCEPT ![1] = "new"]

LoadSettings(s) ==
  /\ page = "Settings"
  /\ \/ /\ Succeeded(s, "load", Idle)
        /\ ui' = [ui EXCEPT !.rows = reqs[s].rows, !.typed = {}]
     \/ Failed(s, "load") /\ UNCHANGED ui

EditSettings ==
  /\ page = "Settings"
  /\ ui' = [ui EXCEPT !.rows[1] = "done", !.typed = {"edit"}]
  /\ UserOnly

HandleSaveSettings ==
  /\ page = "Settings" /\ ~ui.busy
  /\ Send(Ask("put", 1, ui.rows[1]))
  /\ ui' = [ui EXCEPT !.busy = TRUE]

SettingsSaved(s) ==
  /\ page = "Settings"
  /\ Succeeded(s, "put", Load) \/ Failed(s, "put")
  /\ ui' = [ui EXCEPT !.busy = FALSE]

(* SettingsPage: the devices, in a section with a dialog of its own. *)
UnitsMount == Mount("Units", Loading)
UnitsTable == TableBody
UnitsDialog == page = "Units" /\ DialogSteps("create")
LoadUnits(s) == page = "Units" /\ LoadClears(s)
HandleAddDevice ==
  page = "Units" /\ SubmitForm("create", Ask("create", 0, "new"))
DeviceAdded(s) == page = "Units" /\ SavedThenReload(s, "create", "create")

Settings ==
  \/ SettingsMount \/ EditSettings \/ HandleSaveSettings
  \/ UnitsMount \/ UnitsDialog \/ HandleAddDevice
  \/ \E s \in Slots : \/ LoadSettings(s) \/ SettingsSaved(s)
                      \/ LoadUnits(s) \/ DeviceAdded(s)

-----------------------------------------------------------------------------
(* What other users, devices and the alert engine do to the table. *)
RowsArrive ==
  /\ page \in ClientPanels \ {"Settings"}
  /\ \E i \in Ids : Fresh(i, 0) /\ Elsewhere(i, "new")

RowsVanish ==
  /\ page \in {"Devices", "Guests", "Reminders", "Zones"}
  /\ \E i \in Ids : table[i] \in {"new", "done"} /\ Elsewhere(i, "gone")

RowsMarked ==
  /\ page \in {"Reminders", "Attention", "Notifications", "Alarms", "Control",
              "Rules", "Settings"}
  /\ \E i \in Ids : table[i] = "new" /\ Elsewhere(i, "done")

RulesEnabled ==
  /\ page = "Rules"
  /\ \E i \in Ids : table[i] = "done" /\ Elsewhere(i, "new")

ClientNext ==
  \/ Devices \/ Complaints \/ Guests \/ Reminders \/ Zones \/ Fleet
  \/ Passes \/ Attention \/ Notifications \/ Alerts \/ Control \/ Settings
  \/ RowsArrive \/ RowsVanish \/ RowsMarked \/ RulesEnabled

\* What each panel has on the screen.
ClientScreen ==
  CASE page = "Devices" -> DevicesTable
    [] page = "Complaints" -> ComplaintsTable
    [] page = "Guests" -> GuestsTable
    [] page = "Reminders" -> RemindersTable
    [] page = "Zones" -> ZonesTable
    [] page = "Trips" -> TripsTable
    [] page = "Tyres" -> TyresTable
    [] page = "Vouchers" -> VouchersTable
    [] page = "Passes" -> PassesTable
    [] page = "Attention" -> AttentionAlerts
    [] page = "Notifications" -> NotificationsTable
    [] page = "Alarms" -> AlarmsTable
    [] page = "Rules" -> RulesTable
    [] page = "Control" -> ControlTable
    [] page = "Settings" -> ui.rows
    [] page = "Units" -> UnitsTable
=============================================================================
