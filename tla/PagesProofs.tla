------------------------------ MODULE PagesProofs ------------------------------
(***************************************************************************)
(* Theorems about Pages for every set of rows, every number of requests    *)
(* under way, every LIMIT of a SELECT and every size of the flyout.        *)
(*                                                                         *)
(* The properties speak of a page at rest or of what is shown; the parts   *)
(* of the invariant speak of what is under way: which requests a page can  *)
(* have sent (Proper), what a flag stands for, what an answer holds, and   *)
(* what the list may lack while a change is on its way back (Covered).     *)
(***************************************************************************)
EXTENDS Pages, FiniteSetTheorems, WellFoundedInduction, TLAPS

--------------------------------------------------------------------------------
(* Which requests a page sends, and with what.                              *)

Panels == ClientPanels \union AdminPanels
AckPages == {"Attention", "Alarms", "Reminders", "Notifications"}
Unpolled == {"Notifications", "Settings"}      \* pages without a loading flag
BusyPages == {"Passes", "Control", "Settings", "Roles"}
Submits == {"create", "edit", "put"}
Patches == {"patch", "drop", "batch", "all"}
Reloads == {"create", "edit", "remove", "put"}

Proper(r) ==
  /\ r.op = "create" => page \notin {"Attention", "Notifications", "Alarms", "Rules",
                                     "Settings", "Roles", "RawData"}
  /\ r.op = "edit" => page \in {"Reminders", "Inventory", "Companies", "Masters", "Roles"}
  /\ r.op = "remove" => page \in {"Guests", "Reminders", "Masters"}
  /\ r.op = "patch" => page \in {"Attention", "Notifications", "Alarms", "Rules"}
  /\ r.op = "drop" => page \in {"Devices", "Zones"}
  /\ r.op = "batch" => page = "Alarms"
  /\ r.op = "all" => page = "Notifications"
  /\ r.op = "put" => page = "Settings"
  /\ r.op = "key" => page = "Companies"
  /\ r.op \in {"edit", "remove", "patch", "drop", "put", "key"} => r.id \in Ids
  /\ r.op \in {"edit", "patch"} /\ page \in AckPages => r.val = "done"
  /\ page /= "Masters" => r.tab = 0
  /\ page = "Away" => r = Idle

RequestsInv == \A s \in Slots : Proper(reqs[s]) /\ (reqs[s].op = "idle" <=> reqs[s] = Idle)

PagesTypeOK ==
  /\ TypeOK
  /\ page /= "Masters" => ui.tab = 0
  /\ page = "Masters" => ui.tab \in Ids
  /\ ui.dialog = "edit" => ui.target \in Ids

LoadingInv ==
  /\ ui.loading => \E s \in Slots : reqs[s].op = "load"
  /\ page \in Unpolled => ~ui.loading

BusyInv ==
  page \in BusyPages =>
    /\ ui.busy <=> \E s \in Slots : reqs[s].op \in Submits
    /\ \A s, t \in Slots : reqs[s].op \in Submits /\ reqs[t].op \in Submits => s = t

RolesInv ==
  page = "Roles" =>
    /\ \A s, t \in Slots : reqs[s] /= Idle /\ reqs[t] /= Idle => s = t
    /\ \A s \in Slots : reqs[s].op \in {"idle", "load", "edit"}
    /\ ui.loading <=> \E s \in Slots : reqs[s].op = "load"
    /\ \A i \in Ids : ui.rows[i] = "none" <=> ui.draft[i] = "none"
    /\ \A s \in Slots : reqs[s].op = "edit" =>
         /\ reqs[s].val /= ui.rows[reqs[s].id]
         /\ \A i \in Ids : reqs[s].rows[i] /= "none" => reqs[s].rows[i] /= ui.rows[i]

Acked(i) == table[i] \in {"done", "gone"}
AckInv ==
  page \in AckPages =>
    /\ \A i \in Ids : ui.rows[i] = "done" => Acked(i)
    /\ \A s \in Slots :
         /\ reqs[s].op \in {"load", "batch"} => \A i \in Ids : reqs[s].rows[i] = "done" => Acked(i)
         /\ reqs[s].op = "patch" /\ reqs[s].done => Acked(reqs[s].id)

OverlapInv == Overlap(reqs) => lapped
TabInv == ~lapped => \A s \in Slots : reqs[s] /= Idle => reqs[s].tab = ui.tab

Dirty == \E s \in Slots : /\ reqs[s].op \in Reloads
                          /\ reqs[s].done \/ page = "Roles"
NoLoad == \A s \in Slots : reqs[s].op /= "load"
Stored == Selected(ui.tab)
Reached(i) == page \in CutPanels => Cardinality(Newer(Listed(table), i)) < ListLimit
Covered(i) == \E s \in Slots : \/ reqs[s].op \in {"patch", "drop"} /\ reqs[s].id = i /\ reqs[s].done
                               \/ reqs[s].op = "batch" /\ reqs[s].rows[i] = "done"
Matches ==
  IF page = "Notifications"
  THEN \A i \in Ids : /\ ui.rows[i] /= "done"
                      /\ ui.rows[i] = "new" => \/ Stored[i] = "new" \/ Covered(i)
                                               \/ \E s \in Slots : reqs[s].op = "all" /\ reqs[s].done
  ELSE (page = "Settings" /\ "edit" \in ui.typed)
         \/ \A i \in Ids : \/ ui.rows[i] = Stored[i]
                           \/ ui.rows[i] /= "none" /\ Covered(i) /\ Reached(i)

LoadsCurrent ==
  \A s \in Slots : reqs[s].op = "load" /\ reqs[s].done /\ ~Dirty => reqs[s].rows = Stored
PatchesStored ==
  \A s \in Slots :
    /\ reqs[s].op = "patch" /\ reqs[s].done => table[reqs[s].id] = reqs[s].val
    /\ reqs[s].op = "drop" /\ reqs[s].done => table[reqs[s].id] = "gone"
    /\ reqs[s].op = "batch" => \A i \in Ids : reqs[s].rows[i] = "done" => table[i] = "done"

ScreenInv ==
  page /= "Away" /\ ~lapped /\ ~stale =>
    /\ LoadsCurrent
    /\ PatchesStored
    /\ NoLoad /\ ~Dirty => Matches

FlyoutInv ==
  page = "Notifications" =>
    /\ \A i \in Ids : table[i] /= "gone"
    /\ \A i \in Ids : ui.rows[i] /= "none" => table[i] /= "none"
    /\ \A s \in Slots : reqs[s].op = "load" => \A i \in Ids : reqs[s].rows[i] /= "none" => table[i] /= "none"
    /\ ~lapped =>
         \A s \in Slots :
           /\ reqs[s].op = "load" /\ reqs[s].done =>
                \A i \in Ids : ui.rows[i] /= "none" => reqs[s].rows[i] /= "none" \/ Crowded(i)
           /\ reqs[s].op = "all" /\ reqs[s].done =>
                \A i \in Ids : ui.rows[i] = "new" => table[i] /= "new"

BaseInv == PagesTypeOK /\ RequestsInv

--------------------------------------------------------------------------------
(***************************************************************************)
(* The shapes of a step.  The hundred handlers of the pages come down to   *)
(* a dozen shapes, and every invariant is proved shape by shape.           *)
(***************************************************************************)
KeepList == ui'.rows = ui.rows /\ ui'.draft = ui.draft /\ ui'.tab = ui.tab
KeepForm == ui'.dialog = ui.dialog /\ ui'.target = ui.target

MountShape ==
  /\ page = "Away" /\ page' \in Panels
  /\ ui' \in UiState
  /\ ui'.rows = NoRows /\ ui'.draft = NoRows /\ ~ui'.busy /\ ui'.dialog = "none"
  /\ ui'.tab = IF page' = "Masters" THEN 1 ELSE 0
  /\ page' \in Unpolled => ~ui'.loading
  /\ page' = "Roles" => ui'.loading
  /\ table' \in [Ids -> {"none", "new"}]
  /\ reqs' = [s \in Slots |-> IF s = 1 THEN LoadCategory(ui'.tab) ELSE Idle]
  /\ UNCHANGED <<lapped, stale>>

UserShape ==
  /\ UserOnly /\ page /= "Away" /\ ui' \in UiState
  /\ ui'.loading = ui.loading /\ ui'.busy = ui.busy /\ ui'.tab = ui.tab
  /\ IF page = "Settings" THEN "edit" \in ui'.typed ELSE ui'.rows = ui.rows
  /\ IF page = "Roles" THEN \A i \in Ids : ui'.draft[i] = "none" <=> ui.draft[i] = "none"
     ELSE ui'.draft = ui.draft
  /\ ui'.dialog = "edit" => ui'.target \in Ids

SendShape(r) ==
  /\ Send(r) /\ page /= "Away" /\ ui' \in UiState
  /\ r \in Request /\ Proper(r) /\ r.op /= "idle" /\ ~r.done /\ r.tab = ui.tab
  /\ r.op \in {"load", "batch"} => \A i \in Ids : r.rows[i] /= "done"
  /\ r.op = "load" => r.rows = NoRows
  /\ KeepList /\ ui'.target = ui.target /\ ui'.typed = ui.typed
  /\ ui'.dialog = "edit" => ui.dialog = "edit"
  /\ ui'.loading /= ui.loading => r.op = "load" /\ page \notin Unpolled
  /\ page \in BusyPages =>
       IF r.op \in Submits THEN ~ui.busy /\ ui'.busy ELSE ui'.busy = ui.busy
  /\ page = "Roles" =>
       /\ r.op = "edit" /\ ~ui.loading /\ r.val /= ui.rows[r.id]
       /\ \A i \in Ids : r.rows[i] /= "none" => r.rows[i] /= ui.rows[i]

LoadEnds ==
  /\ page /= "Away" /\ ui' \in UiState
  /\ ui'.tab = ui.tab /\ ui'.busy = ui.busy /\ KeepForm
  /\ IF page \in Unpolled THEN ui'.loading = ui.loading ELSE ~ui'.loading

LoadDone(s) ==
  /\ Succeeded(s, "load", Idle) /\ LoadEnds
  /\ ui'.rows = IF page = "Notifications" THEN Latest(OpenOnly(reqs[s].rows)) ELSE reqs[s].rows
  /\ ui'.draft = IF page = "Roles" THEN reqs[s].rows ELSE ui.draft

LoadFailed(s) ==
  /\ Failed(s, "load") /\ LoadEnds
  /\ ui'.rows = ui.rows \/ (ui'.rows = NoRows /\ page \in {"Units", "Masters"})
  /\ ui'.draft = ui.draft

ChangeDone(s) ==
  /\ page \notin {"Away", "Roles"} /\ ui' \in UiState
  /\ \E op \in Reloads \union {"key"} : Succeeded(s, op, LoadCategory(reqs[s].tab))
  /\ KeepList
  /\ page \in Unpolled => ui'.loading = ui.loading
  /\ page \in BusyPages => ~ui'.busy
  /\ page = "Settings" => ui'.typed = ui.typed
  /\ ui'.dialog = "edit" => ui.dialog = "edit" /\ ui'.target = ui.target

ChangeFailed(s) ==
  /\ page \notin {"Away", "Roles"} /\ ui' \in UiState
  /\ \E op \in Ops \ {"idle", "load", "batch"} :
        Failed(s, op) /\ (page \in BusyPages => op \in Submits)
  /\ KeepList /\ KeepForm /\ ui'.loading = ui.loading
  /\ page \in BusyPages => ~ui'.busy

Touches(s, i) ==
  \/ reqs[s].op \in {"patch", "drop"} /\ reqs[s].id = i
  \/ reqs[s].op = "batch" /\ reqs[s].rows[i] = "done"
  \/ reqs[s].op = "all"
Result(s) ==
  IF reqs[s].op = "drop" \/ page = "Notifications" THEN "none"
  ELSE IF reqs[s].op = "batch" THEN "done" ELSE reqs[s].val

PatchDone(s) ==
  /\ page \notin {"Away", "Roles", "Settings", "Companies"} \union BusyPages
  /\ ui' \in UiState
  /\ \E op \in Patches : Succeeded(s, op, Idle)
  /\ \A i \in Ids : ui'.rows[i] = IF ui.rows[i] /= "none" /\ Touches(s, i) THEN Result(s)
                                  ELSE ui.rows[i]
  /\ ui'.draft = ui.draft /\ ui'.tab = ui.tab /\ ui'.loading = ui.loading /\ KeepForm

ElseShape ==
  /\ page /= "Away"
  /\ \E i \in Ids, v \in {"new", "done", "gone"} :
       /\ Elsewhere(i, v)
       /\ \/ v = "new" /\ table[i] = "none"
          \/ v = "gone" /\ page /= "Notifications" /\ table[i] \in {"new", "done"}
          \/ v = "done" /\ table[i] = "new"
          \/ v = "new" /\ page = "Rules"

StepShape ==
  \/ MountShape \/ UserShape \/ ElseShape \/ Leave
  \/ \E r \in Request : SendShape(r)
  \/ \E i \in Ids : SetActiveType(i)
  \/ \E s \in Slots : \/ LoadDone(s) \/ LoadFailed(s) \/ ChangeDone(s) \/ ChangeFailed(s)
                      \/ PatchDone(s) \/ FailedInBatch(s) \/ RoleWritten(s) \/ Serve(s)

--------------------------------------------------------------------------------
(* Types of the operators.                                                  *)

LEMMA RowsTypes ==
  /\ NoRows \in Rows /\ NoRows \in Tables
  /\ \A i \in Ids : NoRows[i] = "none"
  /\ \A t \in Tables : Listed(t) \in Rows
  /\ \A r \in Rows, c \in Ids \union {0} : Category(r, c) \in Rows
  /\ \A r \in Rows : OpenOnly(r) \in Rows /\ Latest(r) \in Rows
  /\ \A r \in Rows : Newest(ListLimit, r) \in Rows
BY DEF NoRows, Rows, Tables, Values, Listed, Category, OpenOnly, Latest, Newest

\* An answer holds rows of the table and no others.
LEMMA SelectedType ==
  ASSUME table \in Tables, NEW c \in Ids \union {0}
  PROVE  /\ Selected(c) \in Rows
         /\ \A i \in Ids : Selected(c)[i] /= "none" => Selected(c)[i] = table[i]
<1>1. Listed(table) \in Rows /\ Newest(ListLimit, Listed(table)) \in Rows
  BY RowsTypes
<1>2. Selected(c) \in Rows
  BY <1>1, RowsTypes DEF Selected
<1>3. \A i \in Ids : /\ Listed(table)[i] /= "none" => Listed(table)[i] = table[i]
                     /\ Newest(ListLimit, Listed(table))[i] \in {"none", Listed(table)[i]}
  BY DEF Listed, Newest
<1> QED
  BY <1>2, <1>3 DEF Selected, Category

LEMMA IdleType ==
  /\ Idle \in Request /\ Idle.op = "idle" /\ Idle.tab = 0 /\ ~Idle.done /\ Idle.rows = NoRows
  /\ Idle.id = 0 /\ Idle.val = "none"
BY RowsTypes DEF Idle, Request, Ops, Values

LEMMA AskType ==
  ASSUME NEW op \in Ops, NEW id \in Ids \union {0}, NEW val \in Values
  PROVE  /\ Ask(op, id, val) \in Request
         /\ Ask(op, id, val).op = op /\ Ask(op, id, val).id = id /\ Ask(op, id, val).val = val
         /\ Ask(op, id, val).tab = 0 /\ ~Ask(op, id, val).done /\ Ask(op, id, val).rows = NoRows
BY RowsTypes DEF Ask, Idle, Request, Values

LEMMA LoadType ==
  /\ Load = LoadCategory(0)
  /\ \A c \in Ids \union {0} :
       /\ LoadCategory(c) \in Request
       /\ LoadCategory(c).op = "load" /\ LoadCategory(c).tab = c /\ ~LoadCategory(c).done
       /\ LoadCategory(c).rows = NoRows
BY RowsTypes DEF LoadCategory, Load, Request, Ops, Values

LEMMA BlankType ==
  /\ Blank \in UiState
  /\ Blank.rows = NoRows /\ Blank.draft = NoRows /\ ~Blank.busy /\ ~Blank.loading
  /\ Blank.dialog = "none" /\ Blank.tab = 0 /\ Blank.typed = {}
BY RowsTypes DEF Blank, UiState, Dialogs

\* A load is a request every page may send.
LEMMA ProperLoad ==
  ASSUME NEW c \in Ids \union {0}, page /= "Away", page /= "Masters" => c = 0
  PROVE  Proper(LoadCategory(c))
BY LoadType DEF Proper

LEMMA FieldsTyped ==
  ASSUME TypeOK
  PROVE  /\ ui.rows \in Rows /\ ui.draft \in Rows /\ ui.loading \in BOOLEAN /\ ui.busy \in BOOLEAN
         /\ ui.target \in Ids \union {0} /\ ui.key \in Ids \union {0} /\ ui.tab \in Ids \union {0}
         /\ ui.dialog \in Dialogs \union {"none"} /\ ui.typed \in SUBSET Dialogs
         /\ ui.sel \in SUBSET Ids /\ ui.auto \in BOOLEAN
         /\ \A s \in Slots : /\ reqs[s] \in Request /\ reqs[s].rows \in Rows
                             /\ reqs[s].op \in Ops /\ reqs[s].id \in Ids \union {0}
                             /\ reqs[s].val \in Values /\ reqs[s].tab \in Ids \union {0}
                             /\ reqs[s].done \in BOOLEAN
BY DEF TypeOK, UiState, Request

--------------------------------------------------------------------------------
(* The handlers many pages share have the shapes.                           *)

LEMMA LoadKeepsShape ==
  ASSUME BaseInv, NEW s \in Slots, LoadKeeps(s),
         page \notin {"Away", "Notifications", "Roles", "Settings"}
  PROVE  LoadDone(s) \/ LoadFailed(s)
<1> USE DEF LoadEnds, KeepForm
<1>1. ui \in UiState /\ reqs[s].rows \in Rows
  BY FieldsTyped DEF BaseInv, PagesTypeOK, TypeOK
<1>2. CASE Succeeded(s, "load", Idle) /\ ui' = [ui EXCEPT !.rows = reqs[s].rows, !.loading = FALSE]
  BY <1>1, <1>2 DEF LoadDone, UiState, Unpolled
<1>3. CASE Failed(s, "load") /\ ui' = [ui EXCEPT !.loading = FALSE]
  BY <1>1, <1>3 DEF LoadFailed, UiState, Unpolled
<1> QED
  BY <1>2, <1>3 DEF LoadKeeps

LEMMA LoadClearsShape ==
  ASSUME BaseInv, NEW s \in Slots, LoadClears(s), page \in {"Units", "Masters"}
  PROVE  LoadDone(s) \/ LoadFailed(s)
<1> USE DEF LoadEnds, KeepForm
<1>1. ui \in UiState /\ reqs[s].rows \in Rows
  BY FieldsTyped DEF BaseInv, PagesTypeOK, TypeOK
<1>2. CASE Succeeded(s, "load", Idle) /\ ui' = [ui EXCEPT !.rows = reqs[s].rows, !.loading = FALSE]
  BY <1>1, <1>2 DEF LoadDone, UiState, Unpolled
<1>3. CASE Failed(s, "load") /\ ui' = [ui EXCEPT !.rows = NoRows, !.loading = FALSE]
  BY <1>1, <1>3, RowsTypes DEF LoadFailed, UiState, Unpolled
<1> QED
  BY <1>2, <1>3 DEF LoadClears

\* A request of a page without tabs was sent from tab 0.
LEMMA SentFrom ==
  ASSUME BaseInv, NEW s \in Slots, page /= "Masters"
  PROVE  reqs[s].tab = 0 /\ ui.tab = 0 /\ Load = LoadCategory(reqs[s].tab) /\ Load = LoadCategory(ui.tab)
BY LoadType DEF BaseInv, PagesTypeOK, RequestsInv, Proper

LEMMA SavedShape ==
  ASSUME BaseInv, NEW s \in Slots, SavedThenReload(s, "create", "create"),
         page \notin {"Away", "Masters"} \union BusyPages \union Unpolled
  PROVE  ChangeDone(s) \/ ChangeFailed(s)
<1>1. ui \in UiState
  BY DEF BaseInv, PagesTypeOK, TypeOK
<1>2. CASE /\ Succeeded(s, "create", Load)
           /\ ui' = [ui EXCEPT !.dialog = Closed("create"), !.typed = @ \ {"create"}, !.loading = TRUE]
  <2>1. Succeeded(s, "create", LoadCategory(reqs[s].tab)) /\ reqs[s].op = "create"
    BY <1>2, SentFrom, Zenon DEF Succeeded
  <2>2. /\ ui' \in UiState /\ KeepList /\ ui'.target = ui.target /\ ui'.key = ui.key
        /\ ui'.dialog = "edit" => ui.dialog = "edit"
    BY <1>1, <1>2 DEF UiState, KeepList, Closed
  <2> QED
    BY <2>1, <2>2 DEF ChangeDone, Reloads, BusyPages, Unpolled
<1>3. CASE Failed(s, "create") /\ UNCHANGED ui
  BY <1>1, <1>3 DEF ChangeFailed, KeepList, KeepForm, Ops, BusyPages, Submits
<1> QED
  BY <1>2, <1>3 DEF SavedThenReload

LEMMA DoneShape ==
  ASSUME BaseInv, NEW s \in Slots, NEW op \in {"edit", "remove"}, DoneThenReload(s, op),
         page \notin {"Away", "Masters", "Companies"} \union BusyPages \union Unpolled
  PROVE  ChangeDone(s) \/ ChangeFailed(s)
<1>1. ui \in UiState
  BY DEF BaseInv, PagesTypeOK, TypeOK
<1>2. CASE Succeeded(s, op, Load) /\ ui' = [ui EXCEPT !.loading = TRUE]
  <2>1. Succeeded(s, op, LoadCategory(reqs[s].tab)) /\ reqs[s].op = op
    BY <1>2, SentFrom, Zenon DEF Succeeded
  <2>2. ui' \in UiState /\ KeepList /\ KeepForm
    BY <1>1, <1>2 DEF UiState, KeepList, KeepForm
  <2> QED
    BY <2>1, <2>2 DEF KeepForm, ChangeDone, Reloads, BusyPages, Unpolled
<1>3. CASE Failed(s, op) /\ UNCHANGED ui
  BY <1>1, <1>3 DEF ChangeFailed, KeepList, KeepForm, Ops, BusyPages, Submits
<1> QED
  BY <1>2, <1>3 DEF DoneThenReload

LEMMA PatchedShape ==
  ASSUME BaseInv, NEW s \in Slots, NEW op \in {"patch", "drop"}, NEW v \in Values,
         DonePatched(s, op, v), reqs[s].op = op => v = Result(s),
         page \notin {"Away", "Companies"} \union BusyPages
  PROVE  PatchDone(s) \/ ChangeFailed(s)
<1>1. ui \in UiState /\ ui.rows \in Rows
  BY FieldsTyped DEF BaseInv, PagesTypeOK, TypeOK
<1> DEFINE i == reqs[s].id
<1>2. CASE /\ Succeeded(s, op, Idle)
           /\ ui' = [ui EXCEPT !.rows = IF @[i] = "none" THEN @ ELSE [@ EXCEPT ![i] = v]]
  <2>1. reqs[s].op = op /\ v = Result(s) /\ i \in Ids
    BY <1>2 DEF Succeeded, BaseInv, RequestsInv, Proper
  <2>2. (IF ui.rows[i] = "none" THEN ui.rows ELSE [ui.rows EXCEPT ![i] = v]) \in Rows
    BY <1>1, <2>1 DEF Rows
  <2>3. ui' \in UiState /\ ui'.draft = ui.draft /\ ui'.tab = ui.tab /\ ui'.loading = ui.loading /\ KeepForm
        /\ ui'.rows = IF ui.rows[i] = "none" THEN ui.rows ELSE [ui.rows EXCEPT ![i] = v]
    BY <1>1, <1>2, <2>2 DEF UiState, KeepForm
  <2>4. \A j \in Ids : ui'.rows[j] = IF ui.rows[j] /= "none" /\ Touches(s, j) THEN Result(s) ELSE ui.rows[j]
    BY <1>1, <2>1, <2>3 DEF Touches, Rows
  <2> QED
    BY <1>2, <2>1, <2>3, <2>4 DEF PatchDone, Patches, BusyPages
<1>3. CASE Failed(s, op) /\ UNCHANGED ui
  BY <1>1, <1>3 DEF ChangeFailed, KeepList, KeepForm, Ops, BusyPages, Submits
<1> QED
  BY <1>2, <1>3 DEF DonePatched

LEMMA AskedShape ==
  ASSUME BaseInv, NEW r \in Request, Send(r), UNCHANGED ui, Proper(r), ~r.done, r.tab = ui.tab,
         r.op \notin {"idle", "load", "batch"}, page \notin {"Away"} \union BusyPages
  PROVE  \E q \in Request : SendShape(q)
<1>1. ui' \in UiState
  BY DEF BaseInv, PagesTypeOK, TypeOK
<1>2. SendShape(r)
  BY <1>1 DEF SendShape, KeepList, BusyPages
<1> QED
  BY <1>2

LEMMA RowAskedShape ==
  ASSUME BaseInv, NEW op \in {"edit", "remove", "patch", "drop", "key"}, NEW i \in Ids, NEW v \in Values,
         Send(Ask(op, i, v)), UNCHANGED ui, Proper(Ask(op, i, v)),
         page \notin {"Away", "Masters"} \union BusyPages
  PROVE  \E q \in Request : SendShape(q)
<1> DEFINE r == Ask(op, i, v)
<1>1. r \in Request /\ r.op = op /\ r.id = i /\ r.tab = 0 /\ ~r.done
  BY AskType DEF Ops
<1>2. Send(r) /\ Proper(r)
  OBVIOUS
<1> HIDE DEF r
<1>3. ui.tab = 0
  BY DEF BaseInv, PagesTypeOK
<1> QED
  BY <1>1, <1>2, <1>3, AskedShape, Zenon

LEMMA CreateShape ==
  ASSUME BaseInv, SubmitForm("create", Ask("create", 0, "new")),
         page \notin {"Away", "Masters", "Attention", "Notifications", "Alarms", "Rules", "RawData"}
                     \union BusyPages
  PROVE  \E q \in Request : SendShape(q)
<1> DEFINE r == Ask("create", 0, "new")
<1>1. r \in Request /\ r.op = "create" /\ r.id = 0 /\ r.tab = 0 /\ ~r.done
  BY AskType DEF Ops, Values
<1>2. Send(r) /\ UNCHANGED ui
  BY DEF SubmitForm
<1> HIDE DEF r
<1>3. ui.tab = 0
  BY DEF BaseInv, PagesTypeOK
<1>4. Proper(r)
  BY <1>1 DEF Proper, BusyPages, AckPages
<1> QED
  BY <1>1, <1>2, <1>3, <1>4, AskedShape, Zenon

\* The requests of a page with tabs remember theirs.
LEMMA TabbedType ==
  ASSUME NEW op \in Ops, NEW id \in Ids \union {0}, NEW val \in Values, NEW c \in Ids \union {0}
  PROVE  LET r == [Ask(op, id, val) EXCEPT !.tab = c]
         IN  r \in Request /\ r.op = op /\ r.id = id /\ r.val = val /\ r.tab = c /\ ~r.done
BY RowsTypes DEF Ask, Idle, Request, Values

LEMMA TabbedShape ==
  ASSUME BaseInv, NEW op \in {"create", "edit", "remove"}, NEW id \in Ids \union {0}, NEW val \in Values,
         Send([Ask(op, id, val) EXCEPT !.tab = ui.tab]), UNCHANGED ui, page = "Masters",
         op \in {"edit", "remove"} => id \in Ids
  PROVE  \E q \in Request : SendShape(q)
<1> DEFINE r == [Ask(op, id, val) EXCEPT !.tab = ui.tab]
<1>0. ui.tab \in Ids \union {0}
  BY FieldsTyped DEF BaseInv, PagesTypeOK
<1>1. r \in Request /\ r.op = op /\ r.id = id /\ r.val = val /\ r.tab = ui.tab /\ ~r.done
  BY TabbedType, <1>0 DEF Ops
<1>2. Send(r)
  OBVIOUS
<1> HIDE DEF r
<1>3. Proper(r)
  BY <1>1 DEF Proper, AckPages
<1>4. page \notin {"Away"} \union BusyPages /\ r.op \notin {"idle", "load", "batch", "key"}
  BY <1>1 DEF BusyPages
<1> QED
  BY <1>1, <1>2, <1>3, <1>4, AskedShape

LEMMA DialogShape ==
  ASSUME BaseInv, NEW d \in {"create", "pin"}, DialogSteps(d), page \notin {"Away", "Settings"}
  PROVE  UserShape
<1>1. ui \in UiState
  BY DEF BaseInv, PagesTypeOK, TypeOK
<1> USE DEF UserShape, Dialogs
<1>2. CASE OpenDialog(d)
  BY <1>1, <1>2 DEF OpenDialog, UiState
<1>3. CASE TypeForm(d)
  BY <1>1, <1>3 DEF TypeForm, UiState
<1>4. CASE CancelDialog(d)
  BY <1>1, <1>4 DEF CancelDialog, UiState
<1> QED
  BY <1>2, <1>3, <1>4 DEF DialogSteps

LEMMA CloseEditShape ==
  ASSUME BaseInv, CloseEdit, page \notin {"Away", "Settings"}
  PROVE  UserShape
<1>1. ui \in UiState
  BY DEF BaseInv, PagesTypeOK, TypeOK
<1> QED
  BY <1>1 DEF UserShape, CloseEdit, EditClosed, Closed, UiState

\* Every page is mounted with a blank list.
LEMMA MountIsShape ==
  ASSUME NEW q \in Panels \ {"Masters"}, NEW u \in UiState, Mount(q, u),
         u.rows = NoRows, u.draft = NoRows, ~u.busy, u.dialog = "none", u.tab = 0,
         q \in Unpolled => ~u.loading, q = "Roles" => u.loading
  PROVE  MountShape
BY LoadType DEF Mount, MountWith, MountShape, MountTables

LEMMA LoadingType ==
  /\ Loading = [Blank EXCEPT !.loading = TRUE]
  /\ Loading \in UiState /\ Loading.rows = NoRows /\ Loading.draft = NoRows /\ ~Loading.busy
  /\ Loading.dialog = "none" /\ Loading.tab = 0 /\ Loading.loading
BY BlankType, RowsTypes DEF Loading, UiState, Blank

LEMMA MountLoadingShape ==
  ASSUME NEW q \in Panels \ ({"Masters"} \union Unpolled), Mount(q, Loading)
  PROVE  MountShape
BY MountIsShape, LoadingType, Zenon

LEMMA MountBlankShape ==
  ASSUME NEW q \in Panels \ {"Masters", "Roles"}, Mount(q, Blank)
  PROVE  MountShape
BY MountIsShape, BlankType, Zenon

LEMMA LoadAgainShape ==
  ASSUME BaseInv, LoadAgain, page \notin {"Away", "Masters", "Roles"} \union Unpolled
  PROVE  \E q \in Request : SendShape(q)
<1>1. ui \in UiState /\ ui.tab = 0
  BY DEF BaseInv, PagesTypeOK, TypeOK
<1>2. /\ Load \in Request /\ Load.op = "load" /\ Load.tab = 0 /\ ~Load.done /\ Load.rows = NoRows
      /\ Proper(Load)
  BY LoadType, ProperLoad
<1>3. ui' \in UiState /\ KeepList /\ KeepForm /\ ui'.typed = ui.typed /\ ui'.busy = ui.busy
  BY <1>1 DEF LoadAgain, UiState, KeepList, KeepForm
<1>4. SendShape(Load)
  BY <1>1, <1>2, <1>3, RowsTypes DEF SendShape, LoadAgain, KeepForm, Submits
<1> QED
  BY <1>2, <1>4

--------------------------------------------------------------------------------
(* Page by page, every handler has one of the shapes.                       *)

\* The part that every page with a form for a new row has.
LEMMA FormShape ==
  ASSUME BaseInv, page \notin {"Away", "Masters"} \union AckPages \union BusyPages \union {"Rules", "RawData"} \/ page = "Reminders",
         NEW s \in Slots,
         \/ DialogSteps("create") \/ SubmitForm("create", Ask("create", 0, "new"))
         \/ LoadKeeps(s) \/ SavedThenReload(s, "create", "create")
  PROVE  StepShape
<1>0. page \notin {"Away", "Masters", "Attention", "Notifications", "Alarms", "Rules", "RawData"} \union BusyPages
                  \union Unpolled \union {"Roles", "Settings"}
  BY DEF AckPages, BusyPages, Unpolled
<1>1. CASE DialogSteps("create")
  BY <1>0, <1>1, DialogShape DEF StepShape
<1>2. CASE SubmitForm("create", Ask("create", 0, "new"))
  BY <1>0, <1>2, CreateShape DEF StepShape
<1>3. CASE LoadKeeps(s)
  BY <1>0, <1>3, LoadKeepsShape DEF StepShape
<1>4. CASE SavedThenReload(s, "create", "create")
  BY <1>0, <1>4, SavedShape DEF StepShape
<1> QED
  BY <1>1, <1>2, <1>3, <1>4

LEMMA DevicesShape ==
  ASSUME BaseInv, Devices
  PROVE  StepShape
<1>0. 1 \in Slots
  BY PageAssumption DEF Slots
<1>1. CASE DevicesMount
  BY <1>1, MountLoadingShape, LoadingType DEF DevicesMount, StepShape, Panels, ClientPanels, AdminPanels, Unpolled
<1>2. CASE DevicesDialog \/ HandleRegisterSubmit
  BY <1>0, <1>2, FormShape DEF DevicesDialog, HandleRegisterSubmit, AckPages, BusyPages
<1>3. ASSUME NEW s \in Slots, LoadDevices(s) \/ Registered(s)
      PROVE  StepShape
  BY <1>3, FormShape DEF LoadDevices, Registered, AckPages, BusyPages
<1>4. ASSUME NEW i \in Ids, HandleDeleteDevice(i)
      PROVE  StepShape
  <2>1. Send(Ask("drop", i, "none")) /\ UNCHANGED ui /\ page = "Devices"
    BY <1>4 DEF HandleDeleteDevice, ClickRow
  <2>2. Proper(Ask("drop", i, "none"))
    BY <2>1, AskType DEF Proper, Ops, Values, AckPages
  <2> QED
    BY <2>1, <2>2, RowAskedShape DEF StepShape, BusyPages, Values
<1>5. ASSUME NEW s \in Slots, DeviceDeleted(s)
      PROVE  StepShape
  BY <1>5, PatchedShape DEF DeviceDeleted, StepShape, BusyPages, Result, Values
<1> QED
  BY <1>1, <1>2, <1>3, <1>4, <1>5 DEF Devices

LEMMA ComplaintsShape ==
  ASSUME BaseInv, Complaints
  PROVE  StepShape
<1>0. 1 \in Slots
  BY PageAssumption DEF Slots
<1>1. CASE ComplaintsMount
  BY <1>1, MountLoadingShape, LoadingType DEF ComplaintsMount, StepShape, Panels, ClientPanels, AdminPanels, Unpolled
<1>2. CASE ComplaintsDialog \/ HandleCreateTicket
  BY <1>0, <1>2, FormShape DEF ComplaintsDialog, HandleCreateTicket, AckPages, BusyPages
<1>3. ASSUME NEW s \in Slots, LoadComplaints(s) \/ TicketCreated(s)
      PROVE  StepShape
  BY <1>3, FormShape DEF LoadComplaints, TicketCreated, AckPages, BusyPages
<1> QED
  BY <1>1, <1>2, <1>3 DEF Complaints

LEMMA GuestsShape ==
  ASSUME BaseInv, Guests
  PROVE  StepShape
<1>0. 1 \in Slots
  BY PageAssumption DEF Slots
<1>1. CASE GuestsMount
  BY <1>1, MountLoadingShape, LoadingType DEF GuestsMount, StepShape, Panels, ClientPanels, AdminPanels, Unpolled
<1>2. CASE GuestsDialog \/ HandleCreateGuest
  BY <1>0, <1>2, FormShape DEF GuestsDialog, HandleCreateGuest, AckPages, BusyPages
<1>3. ASSUME NEW s \in Slots, LoadTempUsers(s) \/ GuestCreated(s)
      PROVE  StepShape
  BY <1>3, FormShape DEF LoadTempUsers, GuestCreated, AckPages, BusyPages
<1>4. ASSUME NEW i \in Ids, HandleRevoke(i)
      PROVE  StepShape
  <2>1. Send(Ask("remove", i, "none")) /\ UNCHANGED ui /\ page = "Guests"
    BY <1>4 DEF HandleRevoke, ClickRow
  <2>2. Proper(Ask("remove", i, "none"))
    BY <2>1, AskType DEF Proper, Ops, Values, AckPages
  <2> QED
    BY <2>1, <2>2, RowAskedShape DEF StepShape, BusyPages, Values
<1>5. ASSUME NEW s \in Slots, Revoked(s)
      PROVE  StepShape
  BY <1>5, DoneShape DEF Revoked, StepShape, BusyPages, Unpolled
<1> QED
  BY <1>1, <1>2, <1>3, <1>4, <1>5 DEF Guests

LEMMA RemindersShape ==
  ASSUME BaseInv, Reminders
  PROVE  StepShape
<1>0. 1 \in Slots
  BY PageAssumption DEF Slots
<1>1. CASE RemindersMount
  BY <1>1, MountLoadingShape, LoadingType DEF RemindersMount, StepShape, Panels, ClientPanels, AdminPanels, Unpolled
<1>2. CASE RemindersDialog \/ HandleCreateReminder
  BY <1>0, <1>2, FormShape DEF RemindersDialog, HandleCreateReminder, AckPages, BusyPages
<1>3. ASSUME NEW s \in Slots, LoadReminders(s) \/ ReminderCreated(s)
      PROVE  StepShape
  BY <1>3, FormShape DEF LoadReminders, ReminderCreated, AckPages, BusyPages
<1>4. ASSUME NEW i \in Ids, AcknowledgeReminder(i)
      PROVE  StepShape
  <2>1. Send(Ask("edit", i, "done")) /\ UNCHANGED ui /\ page = "Reminders"
    BY <1>4 DEF AcknowledgeReminder, ClickRow
  <2>2. Proper(Ask("edit", i, "done"))
    BY <2>1, AskType DEF Proper, Ops, Values, AckPages
  <2> QED
    BY <2>1, <2>2, RowAskedShape DEF StepShape, BusyPages, Values
<1>5. ASSUME NEW i \in Ids, DeleteReminder(i)
      PROVE  StepShape
  <2>1. Send(Ask("remove", i, "none")) /\ UNCHANGED ui /\ page = "Reminders"
    BY <1>5 DEF DeleteReminder, ClickRow
  <2>2. Proper(Ask("remove", i, "none"))
    BY <2>1, AskType DEF Proper, Ops, Values, AckPages
  <2> QED
    BY <2>1, <2>2, RowAskedShape DEF StepShape, BusyPages, Values
<1>6. ASSUME NEW s \in Slots, ReminderAcknowledged(s)
      PROVE  StepShape
  BY <1>6, DoneShape DEF ReminderAcknowledged, StepShape, BusyPages, Unpolled
<1>7. ASSUME NEW s \in Slots, ReminderDeleted(s)
      PROVE  StepShape
  BY <1>7, DoneShape DEF ReminderDeleted, StepShape, BusyPages, Unpolled
<1> QED
  BY <1>1, <1>2, <1>3, <1>4, <1>5, <1>6, <1>7 DEF Reminders

LEMMA ZonesShape ==
  ASSUME BaseInv, Zones
  PROVE  StepShape
<1>0. 1 \in Slots
  BY PageAssumption DEF Slots
<1>1. CASE ZonesMount
  BY <1>1, MountLoadingShape, LoadingType DEF ZonesMount, StepShape, Panels, ClientPanels, AdminPanels, Unpolled
<1>2. CASE ZonesDialog \/ HandleCreateZone
  BY <1>0, <1>2, FormShape DEF ZonesDialog, HandleCreateZone, AckPages, BusyPages
<1>3. ASSUME NEW s \in Slots, LoadZones(s) \/ ZoneCreated(s)
      PROVE  StepShape
  BY <1>3, FormShape DEF LoadZones, ZoneCreated, AckPages, BusyPages
<1>4. ASSUME NEW i \in Ids, HandleDeleteZone(i)
      PROVE  StepShape
  <2>1. Send(Ask("drop", i, "none")) /\ UNCHANGED ui /\ page = "Zones"
    BY <1>4 DEF HandleDeleteZone, ClickRow
  <2>2. Proper(Ask("drop", i, "none"))
    BY <2>1, AskType DEF Proper, Ops, Values, AckPages
  <2> QED
    BY <2>1, <2>2, RowAskedShape DEF StepShape, BusyPages, Values
<1>5. ASSUME NEW s \in Slots, ZoneDeleted(s)
      PROVE  StepShape
  BY <1>5, PatchedShape DEF ZoneDeleted, StepShape, BusyPages, Result, Values
<1> QED
  BY <1>1, <1>2, <1>3, <1>4, <1>5 DEF Zones

LEMMA BillingShape ==
  ASSUME BaseInv, Billing
  PROVE  StepShape
<1>0. 1 \in Slots
  BY PageAssumption DEF Slots
<1>1. CASE BillingMount
  BY <1>1, MountLoadingShape, LoadingType DEF BillingMount, StepShape, Panels, ClientPanels, AdminPanels, Unpolled
<1>2. CASE BillingDialog \/ CreateInvoice
  BY <1>0, <1>2, FormShape DEF BillingDialog, CreateInvoice, AckPages, BusyPages
<1>3. ASSUME NEW s \in Slots, LoadBilling(s) \/ InvoiceCreated(s)
      PROVE  StepShape
  BY <1>3, FormShape DEF LoadBilling, InvoiceCreated, AckPages, BusyPages
<1> QED
  BY <1>1, <1>2, <1>3 DEF Billing

LEMMA ExtensionsShape ==
  ASSUME BaseInv, Extensions
  PROVE  StepShape
<1>0. 1 \in Slots
  BY PageAssumption DEF Slots
<1>1. CASE ExtensionsMount
  BY <1>1, MountLoadingShape, LoadingType DEF ExtensionsMount, StepShape, Panels, ClientPanels, AdminPanels, Unpolled
<1>2. CASE ExtensionsDialog \/ CreateExtension
  BY <1>0, <1>2, FormShape DEF ExtensionsDialog, CreateExtension, AckPages, BusyPages
<1>3. ASSUME NEW s \in Slots, LoadExtensions(s) \/ ExtensionCreated(s)
      PROVE  StepShape
  BY <1>3, FormShape DEF LoadExtensions, ExtensionCreated, AckPages, BusyPages
<1> QED
  BY <1>1, <1>2, <1>3 DEF Extensions

LEMMA TollsShape ==
  ASSUME BaseInv, Tolls
  PROVE  StepShape
<1>0. 1 \in Slots
  BY PageAssumption DEF Slots
<1>1. CASE TollsMount
  BY <1>1, MountLoadingShape, LoadingType DEF TollsMount, StepShape, Panels, ClientPanels, AdminPanels, Unpolled
<1>2. CASE TollsDialog \/ CreateToll
  BY <1>0, <1>2, FormShape DEF TollsDialog, CreateToll, AckPages, BusyPages
<1>3. ASSUME NEW s \in Slots, LoadTolls(s) \/ TollCreated(s)
      PROVE  StepShape
  BY <1>3, FormShape DEF LoadTolls, TollCreated, AckPages, BusyPages
<1> QED
  BY <1>1, <1>2, <1>3 DEF Tolls

LEMMA WarrantyShape ==
  ASSUME BaseInv, Warranty
  PROVE  StepShape
<1>0. 1 \in Slots
  BY PageAssumption DEF Slots
<1>1. CASE WarrantyMount
  BY <1>1, MountLoadingShape, LoadingType DEF WarrantyMount, StepShape, Panels, ClientPanels, AdminPanels, Unpolled
<1>2. CASE WarrantyDialog \/ CreateWarranty
  BY <1>0, <1>2, FormShape DEF WarrantyDialog, CreateWarranty, AckPages, BusyPages
<1>3. ASSUME NEW s \in Slots, LoadWarranties(s) \/ WarrantyCreated(s)
      PROVE  StepShape
  BY <1>3, FormShape DEF LoadWarranties, WarrantyCreated, AckPages, BusyPages
<1> QED
  BY <1>1, <1>2, <1>3 DEF Warranty

LEMMA FleetShape ==
  ASSUME BaseInv, Fleet
  PROVE  StepShape
<1>0. 1 \in Slots
  BY PageAssumption DEF Slots
<1> USE DEF FleetTabs
<1>1. ASSUME NEW t \in FleetTabs, FleetMount(t)
      PROVE  StepShape
  BY <1>1, MountLoadingShape DEF FleetMount, StepShape, Panels, ClientPanels, Unpolled
<1>2. CASE OtherTabSaved
  BY <1>2, LoadAgainShape DEF OtherTabSaved, StepShape, Unpolled
<1>3. CASE TripsDialog \/ TyresDialog \/ VouchersDialog
  BY <1>0, <1>3, FormShape DEF TripsDialog, TyresDialog, VouchersDialog, AckPages, BusyPages
<1>4. CASE HandleCreateTrip \/ HandleCreateTyre \/ HandleCreateVoucher
  BY <1>0, <1>4, FormShape
     DEF HandleCreateTrip, HandleCreateTyre, HandleCreateVoucher, AckPages, BusyPages
<1>5. ASSUME NEW s \in Slots, LoadFleet(s) \/ TripCreated(s) \/ TyreCreated(s) \/ VoucherCreated(s)
      PROVE  StepShape
  BY <1>5, FormShape DEF LoadFleet, TripCreated, TyreCreated, VoucherCreated, AckPages, BusyPages
<1> QED
  BY <1>1, <1>2, <1>3, <1>4, <1>5 DEF Fleet

\* A form with a submitting flag sends its create and locks itself.
LEMMA LockedCreateShape ==
  ASSUME BaseInv, ~ui.busy, Send(Ask("create", 0, "new")), ui' = [ui EXCEPT !.busy = TRUE],
         page \in {"Passes", "Control"}
  PROVE  StepShape
<1> DEFINE r == Ask("create", 0, "new")
<1>1. r \in Request /\ r.op = "create" /\ r.id = 0 /\ r.tab = 0 /\ ~r.done
  BY AskType DEF Ops, Values
<1>2. Send(r)
  OBVIOUS
<1> HIDE DEF r
<1>3. Proper(r)
  BY <1>1 DEF Proper, AckPages
<1>4. ui \in UiState /\ ui.tab = 0
  BY DEF BaseInv, PagesTypeOK, TypeOK
<1>5. ui' \in UiState /\ KeepList /\ KeepForm /\ ui'.typed = ui.typed /\ ui'.busy /\ ui'.loading = ui.loading
  BY <1>4 DEF UiState, KeepList, KeepForm
<1>6. SendShape(r)
  BY <1>1, <1>2, <1>3, <1>4, <1>5 DEF SendShape, KeepForm, Submits
<1> QED
  BY <1>1, <1>6 DEF StepShape

LEMMA PassesShape ==
  ASSUME BaseInv, Passes
  PROVE  StepShape
<1>0. ui \in UiState
  BY DEF BaseInv, PagesTypeOK, TypeOK
<1>1. CASE PassesMount
  BY <1>1, MountBlankShape DEF PassesMount, StepShape, Panels, ClientPanels
<1>2. CASE PassesDialog
  BY <1>2, DialogShape DEF PassesDialog, StepShape
<1>3. CASE HandleDispatchSubmit
  BY <1>3, LockedCreateShape DEF HandleDispatchSubmit
<1>4. ASSUME NEW s \in Slots, LoadGatePasses(s)
      PROVE  StepShape
  BY <1>4, LoadKeepsShape DEF LoadGatePasses, StepShape
<1>5. ASSUME NEW s \in Slots, Dispatched(s)
      PROVE  StepShape
  <2>1. page = "Passes"
    BY <1>5 DEF Dispatched
  <2>2. CASE /\ Succeeded(s, "create", Load)
             /\ ui' = [ui EXCEPT !.dialog = Closed("create"), !.typed = {}, !.busy = FALSE]
    <3>1. Succeeded(s, "create", LoadCategory(reqs[s].tab))
      BY <2>1, <2>2, SentFrom, Zenon
    <3>2. ui' \in UiState /\ KeepList /\ ~ui'.busy /\ (ui'.dialog = "edit" => KeepForm)
      BY <1>0, <2>2 DEF UiState, KeepList, KeepForm, Closed
    <3> QED
      BY <2>1, <3>1, <3>2 DEF KeepForm, Succeeded, ChangeDone, StepShape, Reloads, Unpolled
  <2>3. CASE Failed(s, "create") /\ ui' = [ui EXCEPT !.busy = FALSE]
    <3>1. ui' \in UiState /\ KeepList /\ KeepForm /\ ~ui'.busy /\ ui'.loading = ui.loading
      BY <1>0, <2>3 DEF UiState, KeepList, KeepForm
    <3> QED
      BY <2>1, <2>3, <3>1 DEF ChangeFailed, StepShape, Ops, Submits
  <2> QED
    BY <1>5, <2>2, <2>3 DEF Dispatched
<1> QED
  BY <1>1, <1>2, <1>3, <1>4, <1>5 DEF Passes

LEMMA AttentionShape ==
  ASSUME BaseInv, Attention
  PROVE  StepShape
<1>1. CASE AttentionMount
  BY <1>1, MountBlankShape DEF AttentionMount, StepShape, Panels, ClientPanels
<1>2. ASSUME NEW i \in Ids, HandleAcknowledgeAlert(i)
      PROVE  StepShape
  <2>1. Send(Ask("patch", i, "done")) /\ UNCHANGED ui /\ page = "Attention"
    BY <1>2 DEF HandleAcknowledgeAlert, ClickRow
  <2>2. Proper(Ask("patch", i, "done"))
    BY <2>1, AskType DEF Proper, Ops, Values, AckPages
  <2> QED
    BY <2>1, <2>2, RowAskedShape DEF StepShape, BusyPages, Values
<1>3. ASSUME NEW s \in Slots, LoadAttention(s)
      PROVE  StepShape
  BY <1>3, LoadKeepsShape DEF LoadAttention, StepShape
<1>4. ASSUME NEW s \in Slots, AttentionAcknowledged(s)
      PROVE  StepShape
  <2>1. reqs[s].op = "patch" => Result(s) = "done"
    BY <1>4 DEF AttentionAcknowledged, Result, BaseInv, RequestsInv, Proper, AckPages
  <2> QED
    BY <1>4, <2>1, PatchedShape DEF AttentionAcknowledged, StepShape, BusyPages, Values
<1> QED
  BY <1>1, <1>2, <1>3, <1>4 DEF Attention

LEMMA NotificationsShape ==
  ASSUME BaseInv, Notifications
  PROVE  StepShape
<1>0. ui \in UiState /\ ui.rows \in Rows /\ (ui.tab = 0 \/ page = "Away")
  BY FieldsTyped DEF BaseInv, PagesTypeOK, TypeOK, Notifications, NotificationsMount, Mount, MountWith,
     ToggleNotifications, MarkAllRead, MarkItemRead, LoadNotifications, ItemRead, AllRead
<1>1. CASE NotificationsMount
  BY <1>1, MountBlankShape DEF NotificationsMount, StepShape, Panels, ClientPanels
<1>2. CASE ToggleNotifications
  <2>0. page = "Notifications"
    BY <1>2 DEF ToggleNotifications
  <2>1. CASE ui.dialog = "none" /\ Send(Load) /\ ui' = [ui EXCEPT !.dialog = "menu"]
    <3>1. /\ Load \in Request /\ Load.op = "load" /\ Load.tab = 0 /\ ~Load.done /\ Load.rows = NoRows
          /\ Proper(Load)
      BY <2>0, LoadType, ProperLoad
    <3>2. /\ ui' \in UiState /\ KeepList /\ ui'.target = ui.target /\ ui'.key = ui.key
          /\ ui'.typed = ui.typed /\ ui'.loading = ui.loading
      BY <1>0, <2>0, <2>1 DEF UiState, KeepList, Dialogs
    <3>3. SendShape(Load)
      BY <1>0, <2>0, <2>1, <3>1, <3>2, RowsTypes DEF SendShape, BusyPages
    <3> QED
      BY <3>1, <3>3 DEF StepShape
  <2>2. CASE CancelDialog("menu")
    BY <1>0, <2>0, <2>2 DEF CancelDialog, UserShape, StepShape, UiState
  <2> QED
    BY <1>2, <2>1, <2>2 DEF ToggleNotifications
<1>3. CASE MarkAllRead
  <2>1. page = "Notifications" /\ Send(Ask("all", 0, "done")) /\ UNCHANGED ui
    BY <1>3 DEF MarkAllRead
  <2> DEFINE r == Ask("all", 0, "done")
  <2>2. r \in Request /\ r.op = "all" /\ r.id = 0 /\ r.tab = 0 /\ ~r.done
    BY AskType DEF Ops, Values
  <2>3. Send(r)
    BY <2>1
  <2> HIDE DEF r
  <2>4. Proper(r)
    BY <2>1, <2>2 DEF Proper
  <2> QED
    BY <1>0, <2>1, <2>2, <2>3, <2>4, AskedShape DEF StepShape, BusyPages
<1>4. ASSUME NEW i \in Ids, MarkItemRead(i)
      PROVE  StepShape
  <2>1. Send(Ask("patch", i, "done")) /\ UNCHANGED ui /\ page = "Notifications"
    BY <1>4 DEF MarkItemRead
  <2>2. Proper(Ask("patch", i, "done"))
    BY <2>1, AskType DEF Proper, Ops, Values, AckPages
  <2> QED
    BY <2>1, <2>2, RowAskedShape DEF StepShape, BusyPages, Values
<1>5. ASSUME NEW s \in Slots, LoadNotifications(s)
      PROVE  StepShape
  <2>0. page = "Notifications" /\ reqs[s].rows \in Rows
    BY <1>5, FieldsTyped DEF LoadNotifications, BaseInv, PagesTypeOK
  <2>1. CASE Succeeded(s, "load", Idle) /\ ui' = [ui EXCEPT !.rows = Latest(OpenOnly(reqs[s].rows))]
    <3>1. Latest(OpenOnly(reqs[s].rows)) \in Rows
      BY <2>0, RowsTypes
    <3>2. /\ ui' \in UiState /\ ui'.rows = Latest(OpenOnly(reqs[s].rows)) /\ ui'.draft = ui.draft
          /\ ui'.tab = ui.tab /\ ui'.busy = ui.busy /\ KeepForm /\ ui'.loading = ui.loading
      BY <1>0, <2>0, <2>1, <3>1 DEF UiState, KeepForm
    <3> QED
      BY <2>0, <2>1, <3>2 DEF LoadDone, LoadEnds, StepShape, Unpolled
  <2>2. CASE Failed(s, "load") /\ UNCHANGED ui
    BY <1>0, <2>0, <2>2 DEF LoadFailed, LoadEnds, KeepForm, StepShape, Unpolled
  <2> QED
    BY <1>5, <2>1, <2>2 DEF LoadNotifications
<1>6. ASSUME NEW s \in Slots, ItemRead(s)
      PROVE  StepShape
  BY <1>6, PatchedShape DEF ItemRead, StepShape, BusyPages, Result, Values
<1>7. ASSUME NEW s \in Slots, AllRead(s)
      PROVE  StepShape
  <2>0. page = "Notifications"
    BY <1>7 DEF AllRead
  <2>1. CASE Succeeded(s, "all", Idle) /\ ui' = [ui EXCEPT !.rows = NoRows]
    <3>1. /\ ui' \in UiState /\ ui'.rows = NoRows /\ ui'.draft = ui.draft /\ ui'.tab = ui.tab
          /\ ui'.loading = ui.loading /\ KeepForm
      BY <1>0, <2>0, <2>1, RowsTypes DEF UiState, KeepForm
    <3>2. reqs[s].op = "all"
      BY <2>1 DEF Succeeded
    <3>3. \A i \in Ids : ui'.rows[i] = IF ui.rows[i] /= "none" /\ Touches(s, i) THEN Result(s) ELSE ui.rows[i]
      BY <2>0, <3>1, <3>2, RowsTypes DEF Touches, Result
    <3> QED
      BY <2>0, <2>1, <3>1, <3>3 DEF PatchDone, StepShape, Patches, BusyPages
  <2>2. CASE Failed(s, "all") /\ UNCHANGED ui
    BY <1>0, <2>0, <2>2 DEF ChangeFailed, KeepList, KeepForm, StepShape, Ops, BusyPages
  <2> QED
    BY <1>7, <2>1, <2>2 DEF AllRead
<1> QED
  BY <1>1, <1>2, <1>3, <1>4, <1>5, <1>6, <1>7 DEF Notifications

LEMMA AlertsShape ==
  ASSUME BaseInv, Alerts
  PROVE  StepShape
<1>0. ui \in UiState /\ ui.rows \in Rows /\ ui.sel \in SUBSET Ids /\ \A s \in Slots : reqs[s].rows \in Rows
  BY FieldsTyped DEF BaseInv, PagesTypeOK, TypeOK
<1> USE DEF AlertTabs
<1>1. ASSUME NEW t \in AlertTabs, AlertsMount(t)
      PROVE  StepShape
  BY <1>1, MountLoadingShape DEF AlertsMount, StepShape, Panels, ClientPanels, Unpolled
<1>2. CASE AlertsInterval
  BY <1>2, LoadAgainShape DEF AlertsInterval, StepShape, Unpolled
<1>3. CASE TickAllAlarms
  <2>1. PICK shown \in SUBSET Present(ui.rows) :
          ui' = [ui EXCEPT !.sel = IF Cardinality(@) = Cardinality(shown) THEN {} ELSE shown]
    BY <1>3 DEF TickAllAlarms
  <2>2. (IF Cardinality(ui.sel) = Cardinality(shown) THEN {} ELSE shown) \in SUBSET Ids
    BY DEF Present
  <2>3. ui' \in UiState /\ ui'.loading = ui.loading /\ ui'.busy = ui.busy /\ KeepList /\ KeepForm
    BY <1>0, <2>1, <2>2 DEF UiState, KeepList, KeepForm
  <2> QED
    BY <1>3, <2>3 DEF TickAllAlarms, UserShape, StepShape, KeepList, KeepForm, BaseInv, PagesTypeOK
<1>4. CASE HandleBatchAcknowledge
  <2> DEFINE ticked == [i \in Ids |-> IF i \in ui.sel THEN "new" ELSE "none"]
             r == [Idle EXCEPT !.op = "batch", !.rows = ticked]
  <2>1. page = "Alarms" /\ Send(r) /\ UNCHANGED ui
    BY <1>4 DEF HandleBatchAcknowledge
  <2>2. ticked \in Rows /\ \A i \in Ids : ticked[i] /= "done"
    BY DEF Rows, Values
  <2> HIDE DEF ticked
  <2>3. r \in Request /\ r.op = "batch" /\ r.tab = 0 /\ ~r.done /\ r.rows = ticked
    BY <2>2 DEF Idle, Request, Ops, Values
  <2> HIDE DEF r
  <2>4. Proper(r)
    BY <2>1, <2>3 DEF Proper
  <2>5. ui.tab = 0
    BY <2>1 DEF BaseInv, PagesTypeOK
  <2>6. SendShape(r)
    BY <1>0, <2>1, <2>2, <2>3, <2>4, <2>5 DEF SendShape, KeepList, BusyPages
  <2> QED
    BY <2>3, <2>6 DEF StepShape
<1>5. ASSUME NEW i \in Ids, HandleAcknowledge(i)
      PROVE  StepShape
  <2>1. Send(Ask("patch", i, "done")) /\ UNCHANGED ui /\ page = "Alarms"
    BY <1>5 DEF HandleAcknowledge, ClickRow
  <2>2. Proper(Ask("patch", i, "done"))
    BY <2>1, AskType DEF Proper, Ops, Values, AckPages
  <2> QED
    BY <2>1, <2>2, RowAskedShape DEF StepShape, BusyPages, Values
<1>6. ASSUME NEW i \in Ids, TickAlarm(i)
      PROVE  StepShape
  <2>1. ui' \in UiState /\ ui'.loading = ui.loading /\ ui'.busy = ui.busy /\ KeepList /\ KeepForm
    BY <1>0, <1>6 DEF TickAlarm, UiState, KeepList, KeepForm
  <2> QED
    BY <1>6, <2>1 DEF TickAlarm, UserShape, StepShape, KeepList, KeepForm, BaseInv, PagesTypeOK
<1>7. ASSUME NEW i \in Ids, ToggleRule(i)
      PROVE  StepShape
  <2>0. Flipped(ui.rows[i]) \in Values
    BY DEF Flipped, Values
  <2>1. Send(Ask("patch", i, Flipped(ui.rows[i]))) /\ UNCHANGED ui /\ page = "Rules"
    BY <1>7 DEF ToggleRule, ClickRow
  <2>2. Proper(Ask("patch", i, Flipped(ui.rows[i])))
    BY <2>0, <2>1, AskType DEF Proper, Ops, AckPages
  <2> QED
    BY <2>0, <2>1, <2>2, RowAskedShape DEF StepShape, BusyPages
<1>8. ASSUME NEW s \in Slots, LoadAlertData(s)
      PROVE  StepShape
  BY <1>8, LoadKeepsShape DEF LoadAlertData, StepShape
<1>9. ASSUME NEW s \in Slots, Acknowledged(s)
      PROVE  StepShape
  <2>1. reqs[s].op = "patch" => Result(s) = "done"
    BY <1>9 DEF Acknowledged, Result, BaseInv, RequestsInv, Proper, AckPages
  <2> QED
    BY <1>9, <2>1, PatchedShape DEF Acknowledged, StepShape, BusyPages, Values
<1>10. ASSUME NEW s \in Slots, FailedInBatch(s)
       PROVE  StepShape
  BY <1>10 DEF StepShape
<1>11. ASSUME NEW s \in Slots, BatchAcknowledged(s)
       PROVE  StepShape
  <2> DEFINE rows == [i \in Ids |-> IF ui.rows[i] /= "none" /\ reqs[s].rows[i] = "done"
                                    THEN "done" ELSE ui.rows[i]]
  <2>1. page = "Alarms" /\ Succeeded(s, "batch", Idle) /\ reqs[s].op = "batch"
    BY <1>11 DEF BatchAcknowledged, Succeeded
  <2>2. ui' = [ui EXCEPT !.sel = {}, !.rows = rows]
    BY <1>11 DEF BatchAcknowledged
  <2>3. rows \in Rows
    BY <1>0 DEF Rows, Values
  <2>4. \A i \in Ids : rows[i] = IF ui.rows[i] /= "none" /\ Touches(s, i) THEN Result(s) ELSE ui.rows[i]
    BY <2>1 DEF Touches, Result
  <2> HIDE DEF rows
  <2>5. /\ ui' \in UiState /\ ui'.rows = rows /\ ui'.draft = ui.draft /\ ui'.tab = ui.tab
        /\ ui'.loading = ui.loading /\ KeepForm
    BY <1>0, <2>2, <2>3 DEF UiState, KeepForm
  <2> QED
    BY <2>1, <2>4, <2>5 DEF PatchDone, StepShape, Patches, BusyPages
<1>12. ASSUME NEW s \in Slots, RuleToggled(s)
       PROVE  StepShape
  <2>1. reqs[s].val \in Values
    BY FieldsTyped DEF BaseInv, PagesTypeOK
  <2>2. reqs[s].op = "patch" => Result(s) = reqs[s].val
    BY <1>12 DEF RuleToggled, Result
  <2> QED
    BY <1>12, <2>1, <2>2, PatchedShape DEF RuleToggled, StepShape, BusyPages
<1> QED
  BY <1>1, <1>2, <1>3, <1>4, <1>5, <1>6, <1>7, <1>8, <1>9, <1>10, <1>11, <1>12 DEF Alerts

LEMMA ControlShape ==
  ASSUME BaseInv, Control
  PROVE  StepShape
<1>0. ui \in UiState
  BY DEF BaseInv, PagesTypeOK, TypeOK
<1>1. CASE ControlMount
  BY <1>1, MountLoadingShape DEF ControlMount, StepShape, Panels, ClientPanels, Unpolled
<1>2. CASE LogsInterval
  BY <1>2, LoadAgainShape DEF LogsInterval, StepShape, Unpolled
<1>3. CASE InitiateWithPin
  <2>1. ui' \in UiState /\ ui'.loading = ui.loading /\ ui'.busy = ui.busy /\ KeepList
    BY <1>0, <1>3 DEF InitiateWithPin, UiState, KeepList, Dialogs
  <2> QED
    BY <1>3, <2>1 DEF InitiateWithPin, UserShape, StepShape, KeepList
<1>4. CASE InitiateCommand \/ HandlePinSubmit
  BY <1>4, LockedCreateShape DEF InitiateCommand, HandlePinSubmit, ExecuteCommand
<1>5. CASE PinDialog
  BY <1>5, DialogShape DEF PinDialog, DialogSteps, StepShape
<1>6. ASSUME NEW s \in Slots, LoadCommandLogs(s)
      PROVE  StepShape
  BY <1>6, LoadKeepsShape DEF LoadCommandLogs, StepShape
<1>7. ASSUME NEW s \in Slots, CommandAnswered(s)
      PROVE  StepShape
  <2>1. page = "Control"
    BY <1>7 DEF CommandAnswered
  <2>2. CASE /\ Succeeded(s, "create", Load)
             /\ ui' = [ui EXCEPT !.dialog = "none", !.busy = FALSE, !.loading = TRUE]
    <3>1. Succeeded(s, "create", LoadCategory(reqs[s].tab))
      BY <2>1, <2>2, SentFrom, Zenon
    <3>2. ui' \in UiState /\ KeepList /\ ~ui'.busy /\ ui'.dialog = "none"
      BY <1>0, <2>2 DEF UiState, KeepList
    <3> QED
      BY <2>1, <3>1, <3>2 DEF ChangeDone, StepShape, Reloads, Unpolled
  <2>3. CASE Failed(s, "create") /\ ui' = [ui EXCEPT !.busy = FALSE]
    <3>1. ui' \in UiState /\ KeepList /\ KeepForm /\ ~ui'.busy /\ ui'.loading = ui.loading
      BY <1>0, <2>3 DEF UiState, KeepList, KeepForm
    <3> QED
      BY <2>1, <2>3, <3>1 DEF ChangeFailed, StepShape, Ops, Submits
  <2> QED
    BY <1>7, <2>2, <2>3 DEF CommandAnswered
<1> QED
  BY <1>1, <1>2, <1>3, <1>4, <1>5, <1>6, <1>7 DEF Control

LEMMA SettingsShape ==
  ASSUME BaseInv, Settings
  PROVE  StepShape
<1>0. /\ ui \in UiState /\ ui.rows \in Rows /\ 1 \in Slots /\ 1 \in Ids
      /\ \A s \in Slots : reqs[s].rows \in Rows
  BY FieldsTyped, PageAssumption DEF BaseInv, PagesTypeOK, TypeOK, Slots
<1>1. CASE SettingsMount
  BY <1>1, MountBlankShape DEF SettingsMount, StepShape, Panels, ClientPanels
<1>2. CASE EditSettings
  <2>1. [ui.rows EXCEPT ![1] = "done"] \in Rows
    BY <1>0 DEF Rows, Values
  <2>2. ui' = [ui EXCEPT !.rows = [ui.rows EXCEPT ![1] = "done"], !.typed = {"edit"}]
    BY <1>2 DEF EditSettings
  <2>3. /\ ui' \in UiState /\ ui'.loading = ui.loading /\ ui'.busy = ui.busy /\ ui'.tab = ui.tab
        /\ ui'.draft = ui.draft /\ ui'.typed = {"edit"} /\ KeepForm
    BY <1>0, <2>1, <2>2 DEF UiState, Dialogs, KeepForm
  <2> QED
    BY <1>2, <2>3 DEF EditSettings, UserShape, StepShape, KeepForm, BaseInv, PagesTypeOK
<1>3. CASE HandleSaveSettings
  <2> DEFINE r == Ask("put", 1, ui.rows[1])
  <2>0. page = "Settings" /\ ~ui.busy /\ Send(r) /\ ui.rows[1] \in Values /\ ui' = [ui EXCEPT !.busy = TRUE]
    BY <1>0, <1>3 DEF HandleSaveSettings, Rows
  <2>1. r \in Request /\ r.op = "put" /\ r.id = 1 /\ r.tab = 0 /\ ~r.done
    BY <1>0, <2>0, AskType DEF Ops
  <2> HIDE DEF r
  <2>2. Proper(r) /\ ui.tab = 0
    BY <1>0, <2>0, <2>1 DEF Proper, AckPages, BaseInv, PagesTypeOK
  <2>3. ui' \in UiState /\ KeepList /\ KeepForm /\ ui'.typed = ui.typed /\ ui'.busy /\ ui'.loading = ui.loading
    BY <1>0, <2>0 DEF UiState, KeepList, KeepForm
  <2>4. SendShape(r)
    BY <2>0, <2>1, <2>2, <2>3 DEF SendShape, KeepForm, Submits
  <2> QED
    BY <2>1, <2>4 DEF StepShape
<1>4. CASE UnitsMount
  BY <1>4, MountLoadingShape DEF UnitsMount, StepShape, Panels, ClientPanels, Unpolled
<1>5. CASE UnitsDialog \/ HandleAddDevice
  BY <1>0, <1>5, FormShape DEF UnitsDialog, HandleAddDevice, AckPages, BusyPages
<1>6. ASSUME NEW s \in Slots, LoadSettings(s)
      PROVE  StepShape
  <2>0. page = "Settings" /\ reqs[s].rows \in Rows
    BY <1>0, <1>6 DEF LoadSettings
  <2>1. CASE Succeeded(s, "load", Idle) /\ ui' = [ui EXCEPT !.rows = reqs[s].rows, !.typed = {}]
    <3>1. /\ ui' \in UiState /\ ui'.rows = reqs[s].rows /\ ui'.draft = ui.draft
          /\ ui'.tab = ui.tab /\ ui'.busy = ui.busy /\ KeepForm /\ ui'.loading = ui.loading
      BY <1>0, <2>0, <2>1 DEF UiState, KeepForm
    <3> QED
      BY <2>0, <2>1, <3>1 DEF LoadDone, LoadEnds, StepShape, Unpolled
  <2>2. CASE Failed(s, "load") /\ UNCHANGED ui
    BY <1>0, <2>0, <2>2 DEF LoadFailed, LoadEnds, KeepForm, StepShape, Unpolled
  <2> QED
    BY <1>6, <2>1, <2>2 DEF LoadSettings
<1>7. ASSUME NEW s \in Slots, SettingsSaved(s)
      PROVE  StepShape
  <2>1. page = "Settings" /\ ui' = [ui EXCEPT !.busy = FALSE]
    BY <1>7 DEF SettingsSaved
  <2>2. /\ ui' \in UiState /\ KeepList /\ KeepForm /\ ~ui'.busy /\ ui'.loading = ui.loading
        /\ ui'.typed = ui.typed
    BY <1>0, <2>1 DEF UiState, KeepList, KeepForm
  <2>3. CASE Succeeded(s, "put", Load)
    <3>1. Succeeded(s, "put", LoadCategory(reqs[s].tab))
      BY <2>1, <2>3, SentFrom, Zenon
    <3> QED
      BY <2>1, <2>2, <3>1 DEF ChangeDone, StepShape, Reloads, KeepForm, Succeeded
  <2>4. CASE Failed(s, "put")
    BY <2>1, <2>2, <2>4 DEF ChangeFailed, StepShape, Ops, Submits
  <2> QED
    BY <1>7, <2>3, <2>4 DEF SettingsSaved
<1>8. ASSUME NEW s \in Slots, LoadUnits(s)
      PROVE  StepShape
  BY <1>8, LoadClearsShape DEF LoadUnits, StepShape
<1>9. ASSUME NEW s \in Slots, DeviceAdded(s)
      PROVE  StepShape
  BY <1>9, FormShape DEF DeviceAdded, AckPages, BusyPages
<1> QED
  BY <1>1, <1>2, <1>3, <1>4, <1>5, <1>6, <1>7, <1>8, <1>9 DEF Settings

LEMMA InventoryShape ==
  ASSUME BaseInv, Inventory
  PROVE  StepShape
<1>0. /\ ui \in UiState /\ 1 \in Slots /\ (page /= "Masters" => ui.tab = 0)
      /\ ui.dialog = "edit" => ui.target \in Ids
  BY PageAssumption DEF BaseInv, PagesTypeOK, TypeOK, Slots
<1>1. CASE InventoryMount
  BY <1>1, MountLoadingShape, LoadingType DEF InventoryMount, StepShape, Panels, AdminPanels, Unpolled
<1>2. CASE InventoryDialog \/ ProvisionTracker
  BY <1>0, <1>2, FormShape DEF InventoryDialog, ProvisionTracker, AckPages, BusyPages
<1>3. CASE InventoryEditDialog
  BY <1>3, CloseEditShape DEF InventoryEditDialog, StepShape
<1>4. CASE HandleUpdate
  <2>1. Send(Ask("edit", ui.target, "done")) /\ UNCHANGED ui /\ page = "Inventory" /\ ui.target \in Ids
    BY <1>0, <1>4 DEF HandleUpdate
  <2>2. Proper(Ask("edit", ui.target, "done"))
    BY <2>1, AskType DEF Proper, Ops, Values, AckPages
  <2> QED
    BY <2>1, <2>2, RowAskedShape DEF StepShape, BusyPages, Values
<1>5. ASSUME NEW i \in Ids, HandleOpenEdit(i)
      PROVE  StepShape
  BY <1>0, <1>5 DEF HandleOpenEdit, UserShape, StepShape, UiState, Dialogs
<1>6. ASSUME NEW s \in Slots, LoadInventory(s) \/ TrackerProvisioned(s)
      PROVE  StepShape
  BY <1>6, FormShape DEF LoadInventory, TrackerProvisioned, AckPages, BusyPages
<1>7. ASSUME NEW s \in Slots, TrackerUpdated(s)
      PROVE  StepShape
  <2>1. page = "Inventory"
    BY <1>7 DEF TrackerUpdated
  <2>2. CASE Succeeded(s, "edit", Load) /\ ui' = [EditClosed EXCEPT !.loading = TRUE]
    <3>1. Succeeded(s, "edit", LoadCategory(reqs[s].tab))
      BY <2>1, <2>2, SentFrom, Zenon
    <3>2. ui' \in UiState /\ KeepList /\ ui'.dialog /= "edit"
      BY <1>0, <2>2 DEF UiState, KeepList, EditClosed, Closed
    <3> QED
      BY <2>1, <3>1, <3>2 DEF ChangeDone, StepShape, Reloads, Unpolled, BusyPages
  <2>3. CASE Failed(s, "edit") /\ UNCHANGED ui
    BY <1>0, <2>1, <2>3 DEF ChangeFailed, KeepList, KeepForm, StepShape, Ops, BusyPages
  <2> QED
    BY <1>7, <2>2, <2>3 DEF TrackerUpdated
<1> QED
  BY <1>1, <1>2, <1>3, <1>4, <1>5, <1>6, <1>7 DEF Inventory

LEMMA CompaniesShape ==
  ASSUME BaseInv, Companies
  PROVE  StepShape
<1>0. /\ ui \in UiState /\ 1 \in Slots /\ (page /= "Masters" => ui.tab = 0)
      /\ ui.dialog = "edit" => ui.target \in Ids
      /\ \A s \in Slots : reqs[s].id \in Ids \union {0}
  BY PageAssumption, FieldsTyped DEF BaseInv, PagesTypeOK, TypeOK, Slots
<1>1. CASE CompaniesMount
  BY <1>1, MountLoadingShape, LoadingType DEF CompaniesMount, StepShape, Panels, AdminPanels, Unpolled
<1>2. CASE CompaniesDialog \/ HandleCreateCompany
  BY <1>0, <1>2, FormShape DEF CompaniesDialog, HandleCreateCompany, AckPages, BusyPages
<1>3. CASE ManageDialog
  BY <1>3, CloseEditShape DEF ManageDialog, StepShape
<1>4. CASE HandleSaveManage
  <2>1. Send(Ask("edit", ui.target, "done")) /\ UNCHANGED ui /\ page = "Companies" /\ ui.target \in Ids
    BY <1>0, <1>4 DEF HandleSaveManage
  <2>2. Proper(Ask("edit", ui.target, "done"))
    BY <2>1, AskType DEF Proper, Ops, Values, AckPages
  <2> QED
    BY <2>1, <2>2, RowAskedShape DEF StepShape, BusyPages, Values
<1>5. CASE HandleRegenerateKey
  <2>1. Send(Ask("key", ui.target, "none")) /\ UNCHANGED ui /\ page = "Companies" /\ ui.target \in Ids
    BY <1>0, <1>5 DEF HandleRegenerateKey
  <2>2. Proper(Ask("key", ui.target, "none"))
    BY <2>1, AskType DEF Proper, Ops, Values, AckPages
  <2> QED
    BY <2>1, <2>2, RowAskedShape DEF StepShape, BusyPages, Values
<1>6. ASSUME NEW i \in Ids, HandleOpenManage(i)
      PROVE  StepShape
  BY <1>0, <1>6 DEF HandleOpenManage, UserShape, StepShape, UiState, Dialogs
<1>7. ASSUME NEW s \in Slots, LoadCompanies(s) \/ CompanyCreated(s)
      PROVE  StepShape
  BY <1>7, FormShape DEF LoadCompanies, CompanyCreated, AckPages, BusyPages
<1>8. ASSUME NEW s \in Slots, ManageSaved(s)
      PROVE  StepShape
  <2>1. page = "Companies"
    BY <1>8 DEF ManageSaved
  <2>2. CASE Succeeded(s, "edit", Load) /\ ui' = [EditClosed EXCEPT !.loading = TRUE]
    <3>1. Succeeded(s, "edit", LoadCategory(reqs[s].tab))
      BY <2>1, <2>2, SentFrom, Zenon
    <3>2. ui' \in UiState /\ KeepList /\ ui'.dialog /= "edit"
      BY <1>0, <2>2 DEF UiState, KeepList, EditClosed, Closed
    <3> QED
      BY <2>1, <3>1, <3>2 DEF ChangeDone, StepShape, Reloads, Unpolled, BusyPages
  <2>3. CASE Failed(s, "edit") /\ UNCHANGED ui
    BY <1>0, <2>1, <2>3 DEF ChangeFailed, KeepList, KeepForm, StepShape, Ops, BusyPages
  <2> QED
    BY <1>8, <2>2, <2>3 DEF ManageSaved
<1>9. ASSUME NEW s \in Slots, KeyRegenerated(s)
      PROVE  StepShape
  <2>1. page = "Companies"
    BY <1>9 DEF KeyRegenerated
  <2>2. CASE /\ Succeeded(s, "key", Load)
             /\ ui' = [ui EXCEPT !.key = IF ui.dialog = "edit" THEN reqs[s].id ELSE @, !.loading = TRUE]
    <3>1. Succeeded(s, "key", LoadCategory(reqs[s].tab)) /\ reqs[s].op = "key"
      BY <2>1, <2>2, SentFrom, Zenon DEF Succeeded
    <3>2. /\ ui' \in UiState /\ KeepList /\ ui'.dialog = ui.dialog /\ ui'.target = ui.target
      BY <1>0, <2>2 DEF UiState, KeepList
    <3> QED
      BY <2>1, <3>1, <3>2 DEF ChangeDone, StepShape, Reloads, Unpolled, BusyPages
  <2>3. CASE Failed(s, "key") /\ UNCHANGED ui
    BY <1>0, <2>1, <2>3 DEF ChangeFailed, KeepList, KeepForm, StepShape, Ops, BusyPages
  <2> QED
    BY <1>9, <2>2, <2>3 DEF KeyRegenerated
<1> QED
  BY <1>1, <1>2, <1>3, <1>4, <1>5, <1>6, <1>7, <1>8, <1>9 DEF Companies

LEMMA MasterChangedShape ==
  ASSUME BaseInv, NEW s \in Slots, NEW op \in {"create", "edit", "remove"}, NEW after \in UiState,
         MasterChanged(s, op, after), after.rows = ui.rows, after.draft = ui.draft, after.tab = ui.tab,
         after.dialog = "edit" => /\ ui.dialog = "edit" /\ after.target = ui.target
                                  /\ after.key = ui.key
  PROVE  StepShape
<1>0. page = "Masters" /\ ui \in UiState
  BY DEF MasterChanged, BaseInv, PagesTypeOK, TypeOK
<1>1. CASE Succeeded(s, op, LoadCategory(reqs[s].tab)) /\ ui' = [after EXCEPT !.loading = TRUE]
  <2>1. /\ ui' \in UiState /\ KeepList
        /\ ui'.dialog = after.dialog /\ ui'.target = after.target /\ ui'.key = after.key
    BY <1>1 DEF UiState, KeepList
  <2>2. reqs[s].op = op
    BY <1>1 DEF Succeeded
  <2>3. ChangeDone(s)
    BY <1>0, <1>1, <2>1, <2>2 DEF ChangeDone, Reloads, Unpolled, BusyPages
  <2> QED
    BY <2>3 DEF StepShape
<1>2. CASE Failed(s, op) /\ UNCHANGED ui
  BY <1>0, <1>2 DEF ChangeFailed, KeepList, KeepForm, StepShape, Ops, BusyPages
<1> QED
  BY <1>1, <1>2 DEF MasterChanged

LEMMA MastersShape ==
  ASSUME BaseInv, Masters
  PROVE  StepShape
<1>0. /\ ui \in UiState /\ 1 \in Ids
      /\ ui.dialog = "edit" => ui.target \in Ids
  BY PageAssumption DEF BaseInv, PagesTypeOK, TypeOK
<1>1. CASE MastersMount
  <2> DEFINE u == [Blank EXCEPT !.loading = TRUE, !.tab = 1]
  <2>1. MountWith("Masters", u, LoadCategory(1))
    BY <1>1 DEF MastersMount
  <2>2. u \in UiState /\ u.rows = NoRows /\ u.draft = NoRows /\ ~u.busy /\ u.dialog = "none" /\ u.tab = 1
    BY <1>0, RowsTypes DEF Blank, UiState, Dialogs
  <2> HIDE DEF u
  <2> QED
    BY <2>1, <2>2 DEF MountWith, MountShape, MountTables, StepShape, Panels, AdminPanels, Unpolled
<1>2. CASE MastersDialog
  BY <1>2, DialogShape DEF MastersDialog, StepShape
<1>3. CASE CreateMaster
  BY <1>3, TabbedShape DEF CreateMaster, SubmitForm, StepShape, Values
<1>4. CASE MasterEditDialog
  BY <1>4, CloseEditShape DEF MasterEditDialog, StepShape
<1>5. CASE UpdateMaster
  BY <1>0, <1>5, TabbedShape DEF UpdateMaster, StepShape, Values
<1>6. ASSUME NEW i \in Ids, SetActiveType(i)
      PROVE  StepShape
  BY <1>6 DEF StepShape
<1>7. ASSUME NEW i \in Ids, OpenEditMaster(i)
      PROVE  StepShape
  BY <1>0, <1>7 DEF OpenEditMaster, UserShape, StepShape, UiState, Dialogs
<1>8. ASSUME NEW i \in Ids, DeleteMaster(i)
      PROVE  StepShape
  BY <1>8, TabbedShape DEF DeleteMaster, ClickRow, StepShape, Values
<1>9. ASSUME NEW s \in Slots, LoadMasters(s)
      PROVE  StepShape
  BY <1>9, LoadClearsShape DEF LoadMasters, StepShape
<1>10. ASSUME NEW s \in Slots, MasterCreated(s)
       PROVE  StepShape
  <2> DEFINE u == [ui EXCEPT !.dialog = Closed("create"), !.typed = @ \ {"create"}]
  <2>1. /\ u \in UiState /\ u.rows = ui.rows /\ u.draft = ui.draft /\ u.tab = ui.tab
        /\ u.target = ui.target /\ u.key = ui.key /\ (u.dialog = "edit" => ui.dialog = "edit")
    BY <1>0 DEF UiState, Closed
  <2>2. MasterChanged(s, "create", u)
    BY <1>10 DEF MasterCreated
  <2> HIDE DEF u
  <2> QED
    BY <2>1, <2>2, MasterChangedShape
<1>11. ASSUME NEW s \in Slots, MasterUpdated(s)
       PROVE  StepShape
  <2>1. /\ EditClosed \in UiState /\ EditClosed.rows = ui.rows /\ EditClosed.draft = ui.draft
        /\ EditClosed.tab = ui.tab /\ EditClosed.dialog /= "edit"
    BY <1>0 DEF UiState, Closed, EditClosed
  <2> QED
    BY <1>11, <2>1, MasterChangedShape DEF MasterUpdated
<1>12. ASSUME NEW s \in Slots, MasterDeleted(s)
       PROVE  StepShape
  BY <1>0, <1>12, MasterChangedShape DEF MasterDeleted
<1> QED
  BY <1>1, <1>2, <1>3, <1>4, <1>5, <1>6, <1>7, <1>8, <1>9, <1>10, <1>11, <1>12 DEF Masters

\* Every set of numbers that is not empty has a least one.
LEMMA LeastNumber ==
  ASSUME NEW T \in SUBSET Nat, T /= {}
  PROVE  \E x \in T : \A y \in T : x <= y
<1> DEFINE R == OpToRel(<, Nat)
<1>1. IsWellFoundedOn(R, Nat)
  BY NatLessThanWellFounded
<1>2. \E x \in T : \A y \in T : ~(<<y, x>> \in R)
  BY <1>1, WFMin
<1>3. \A x, y \in Nat : y < x => <<y, x>> \in R
  BY DEF OpToRel
<1> HIDE DEF R
<1>4. \E x \in T : \A y \in T : ~(y < x)
  BY <1>2, <1>3
<1> QED
  BY <1>4

\* The first role of a set that is not empty.
LEMMA FirstRole ==
  ASSUME NEW todo \in SUBSET Ids, todo /= {}
  PROVE  (CHOOSE i \in todo : \A j \in todo : i <= j) \in todo
<1>1. todo \in SUBSET Nat
  BY PageAssumption
<1>2. \E x \in todo : \A y \in todo : x <= y
  BY <1>1, LeastNumber
<1> QED
  BY <1>2

\* The PUT of a role, with the roles that are still to come.
LEMMA PutRoleType ==
  ASSUME NEW todo \in SUBSET Ids, todo /= {}, NEW values \in Rows
  PROVE  LET r == PutRole(todo, values)
         IN  /\ r \in Request /\ r.op = "edit" /\ r.id \in todo /\ r.val = values[r.id]
             /\ r.tab = 0 /\ ~r.done
             /\ r.rows = [j \in Ids |-> IF j \in todo \ {r.id} THEN values[j] ELSE "none"]
<1> DEFINE i == CHOOSE i \in todo : \A j \in todo : i <= j
           rest == [j \in Ids |-> IF j \in todo \ {i} THEN values[j] ELSE "none"]
           a == Ask("edit", i, values[i])
<1>1. i \in todo /\ i \in Ids /\ values[i] \in Values
  BY FirstRole DEF Rows
<1>2. PutRole(todo, values) = [a EXCEPT !.rows = rest]
  BY DEF PutRole
<1> HIDE DEF i
<1>3. rest \in Rows
  BY DEF Rows, Values
<1>4. a \in Request /\ a.op = "edit" /\ a.id = i /\ a.val = values[i] /\ a.tab = 0 /\ ~a.done
  BY <1>1, AskType DEF Ops
<1> HIDE DEF a
<1>5. LET r == [a EXCEPT !.rows = rest]
      IN  /\ r \in Request /\ r.op = "edit" /\ r.id = i /\ r.val = values[i]
          /\ r.tab = 0 /\ ~r.done /\ r.rows = rest
  BY <1>3, <1>4 DEF Request
<1> QED
  BY <1>1, <1>2, <1>5

LEMMA RolesShape ==
  ASSUME BaseInv, Roles
  PROVE  StepShape
<1>0. /\ ui \in UiState /\ ui.draft \in Rows /\ \A s \in Slots : reqs[s].rows \in Rows
      /\ ui.dialog = "edit" => ui.target \in Ids
  BY FieldsTyped DEF BaseInv, PagesTypeOK, TypeOK
<1>1. CASE RolesMount
  BY <1>1, MountLoadingShape, LoadingType DEF RolesMount, StepShape, Panels, AdminPanels, Unpolled
<1>2. CASE HandleSaveRoles
  <2> DEFINE r == PutRole(ChangedRoles, ui.draft)
  <2>1. /\ page = "Roles" /\ ~ui.busy /\ ~ui.loading /\ Send(r) /\ ui' = [ui EXCEPT !.busy = TRUE]
        /\ ui.tab = 0
    BY <1>2 DEF HandleSaveRoles, BaseInv, PagesTypeOK
  <2>2. ChangedRoles \in SUBSET Ids /\ ChangedRoles /= {}
    BY <1>2 DEF HandleSaveRoles, ChangedRoles, Present
  <2>3. /\ r \in Request /\ r.op = "edit" /\ r.id \in ChangedRoles /\ r.val = ui.draft[r.id]
        /\ r.tab = 0 /\ ~r.done
        /\ r.rows = [j \in Ids |-> IF j \in ChangedRoles \ {r.id} THEN ui.draft[j] ELSE "none"]
    BY <1>0, <2>2, PutRoleType
  <2> HIDE DEF r
  <2>4. Proper(r)
    BY <2>1, <2>2, <2>3 DEF Proper, AckPages
  <2>5. ui' \in UiState /\ KeepList /\ KeepForm /\ ui'.typed = ui.typed /\ ui'.busy /\ ui'.loading = ui.loading
    BY <1>0, <2>1 DEF UiState, KeepList, KeepForm
  <2>6. /\ r.val /= ui.rows[r.id]
        /\ \A i \in Ids : r.rows[i] /= "none" => r.rows[i] /= ui.rows[i]
    BY <2>3 DEF ChangedRoles
  <2>7. SendShape(r)
    BY <2>1, <2>3, <2>4, <2>5, <2>6 DEF SendShape, KeepForm, Submits
  <2> QED
    BY <2>3, <2>7 DEF StepShape
<1>3. ASSUME NEW i \in Ids, TogglePermission(i)
      PROVE  StepShape
  <2> DEFINE d == [ui.draft EXCEPT ![i] = IF @ = "new" THEN "done" ELSE "new"]
  <2>1. page = "Roles" /\ UserOnly /\ ui' = [ui EXCEPT !.draft = d]
    BY <1>3 DEF TogglePermission
  <2>2. ui.draft[i] /= "none"
    BY <1>3, RowsTypes DEF TogglePermission, RolesTable
  <2>3. d \in Rows /\ \A j \in Ids : d[j] = "none" <=> ui.draft[j] = "none"
    BY <1>0, <2>2 DEF Rows, Values
  <2> HIDE DEF d
  <2>4. /\ ui' \in UiState /\ ui'.draft = d /\ ui'.rows = ui.rows /\ ui'.tab = ui.tab /\ KeepForm
        /\ ui'.loading = ui.loading /\ ui'.busy = ui.busy
    BY <1>0, <2>1, <2>3 DEF UiState, KeepForm
  <2> QED
    BY <1>0, <2>1, <2>3, <2>4 DEF UserShape, StepShape, KeepForm
<1>4. ASSUME NEW s \in Slots, LoadRoles(s)
      PROVE  StepShape
  <2>0. page = "Roles" /\ reqs[s].rows \in Rows
    BY <1>0, <1>4 DEF LoadRoles
  <2>1. CASE /\ Succeeded(s, "load", Idle)
             /\ ui' = [ui EXCEPT !.rows = reqs[s].rows, !.draft = reqs[s].rows, !.loading = FALSE]
    <3>1. /\ ui' \in UiState /\ ui'.rows = reqs[s].rows /\ ui'.draft = reqs[s].rows
          /\ ui'.tab = ui.tab /\ ui'.busy = ui.busy /\ KeepForm /\ ~ui'.loading
      BY <1>0, <2>0, <2>1 DEF UiState, KeepForm
    <3> QED
      BY <2>0, <2>1, <3>1 DEF LoadDone, LoadEnds, StepShape, Unpolled
  <2>2. CASE Failed(s, "load") /\ ui' = [ui EXCEPT !.loading = FALSE]
    <3>1. /\ ui' \in UiState /\ ui'.rows = ui.rows /\ ui'.draft = ui.draft
          /\ ui'.tab = ui.tab /\ ui'.busy = ui.busy /\ KeepForm /\ ~ui'.loading
      BY <1>0, <2>0, <2>2 DEF UiState, KeepForm
    <3> QED
      BY <2>0, <2>2, <3>1 DEF LoadFailed, LoadEnds, StepShape, Unpolled
  <2> QED
    BY <1>4, <2>1, <2>2 DEF LoadRoles
<1>5. ASSUME NEW s \in Slots, RoleWritten(s)
      PROVE  StepShape
  BY <1>5 DEF StepShape
<1> QED
  BY <1>1, <1>2, <1>3, <1>4, <1>5 DEF Roles

LEMMA RawDataShape ==
  ASSUME BaseInv, RawData
  PROVE  StepShape
<1>0. /\ ui \in UiState /\ (page /= "Masters" => ui.tab = 0) /\ (ui.dialog = "edit" => ui.target \in Ids)
      /\ ui.auto \in BOOLEAN
  BY FieldsTyped DEF BaseInv, PagesTypeOK, TypeOK
<1>1. CASE RawDataMount
  <2> DEFINE u == [Blank EXCEPT !.loading = TRUE, !.auto = TRUE]
  <2>1. Mount("RawData", u)
    BY <1>1 DEF RawDataMount
  <2>2. u \in UiState /\ u.rows = NoRows /\ u.draft = NoRows /\ ~u.busy /\ u.dialog = "none" /\ u.tab = 0
    BY RowsTypes DEF Blank, UiState, Dialogs
  <2> HIDE DEF u
  <2>3. MountShape
    BY <2>1, <2>2, MountIsShape DEF Panels, AdminPanels, Unpolled
  <2> QED
    BY <2>3 DEF StepShape
<1>2. CASE RefreshPackets \/ PacketsInterval
  <2>1. page = "RawData" /\ Send(Load) /\ UNCHANGED ui
    BY <1>2 DEF RefreshPackets, PacketsInterval
  <2>2. /\ Load \in Request /\ Load.op = "load" /\ Load.tab = 0 /\ ~Load.done /\ Load.rows = NoRows
        /\ Proper(Load)
    BY <2>1, LoadType, ProperLoad
  <2>3. SendShape(Load)
    BY <1>0, <2>1, <2>2, RowsTypes DEF SendShape, KeepList, BusyPages
  <2> QED
    BY <2>2, <2>3 DEF StepShape
<1>3. CASE SetAutoRefresh
  <2>1. /\ ui' \in UiState /\ ui'.loading = ui.loading /\ ui'.busy = ui.busy /\ KeepList /\ KeepForm
    BY <1>0, <1>3 DEF SetAutoRefresh, UiState, KeepList, KeepForm
  <2> QED
    BY <1>0, <1>3, <2>1 DEF SetAutoRefresh, UserShape, StepShape, KeepList, KeepForm
<1>4. ASSUME NEW s \in Slots, LoadPackets(s)
      PROVE  StepShape
  BY <1>4, LoadKeepsShape DEF LoadPackets, StepShape
<1> QED
  BY <1>1, <1>2, <1>3, <1>4 DEF RawData

LEMMA ElsewhereShape ==
  ASSUME RowsArrive \/ RowsVanish \/ RowsMarked \/ RulesEnabled \/ AdminRowsArrive \/ AdminRowsChange
  PROVE  StepShape
<1>1. CASE RowsArrive
  BY <1>1 DEF RowsArrive, Fresh, ClientPanels, ElseShape, StepShape
<1>2. CASE RowsVanish
  BY <1>2 DEF RowsVanish, ElseShape, StepShape
<1>3. CASE RowsMarked
  BY <1>3 DEF RowsMarked, ElseShape, StepShape
<1>4. CASE RulesEnabled
  BY <1>4 DEF RulesEnabled, ElseShape, StepShape
<1>5. CASE AdminRowsArrive
  BY <1>5 DEF AdminRowsArrive, Fresh, AdminPanels, ElseShape, StepShape
<1>6. CASE AdminRowsChange
  BY <1>6 DEF AdminRowsChange, ElseShape, StepShape
<1> QED
  BY <1>1, <1>2, <1>3, <1>4, <1>5, <1>6

LEMMA NextShaped ==
  ASSUME BaseInv, Next
  PROVE  StepShape
<1>1. CASE ClientNext
  BY <1>1, DevicesShape, ComplaintsShape, GuestsShape, RemindersShape, ZonesShape, FleetShape,
     PassesShape, AttentionShape, NotificationsShape, AlertsShape, ControlShape, SettingsShape,
     ElsewhereShape DEF ClientNext
<1>2. CASE AdminNext
  BY <1>2, BillingShape, ExtensionsShape, TollsShape, WarrantyShape, InventoryShape, CompaniesShape,
     MastersShape, RolesShape, RawDataShape, ElsewhereShape DEF AdminNext
<1>3. CASE Leave \/ \E s \in Slots : Serve(s)
  BY <1>3 DEF StepShape
<1> QED
  BY <1>1, <1>2, <1>3 DEF Next

--------------------------------------------------------------------------------
(***************************************************************************)
(* The types, and which requests a page may have under way.                *)
(***************************************************************************)
Changes(s, r) == s \in Slots /\ r \in Request /\ reqs' = [reqs EXCEPT ![s] = r]

\* What the server does with the request of a slot, whose record becomes r.
Served(s, r) ==
  /\ Changes(s, r) /\ UNCHANGED <<page, ui, lapped>> /\ stale' = (stale /\ r.op /= "load")
  /\ page /= "Away" /\ ~reqs[s].done /\ table' \in Tables
  /\ r.op = reqs[s].op /\ r.id = reqs[s].id /\ r.val = reqs[s].val /\ r.tab = reqs[s].tab
  /\ r.op /= "idle"
  /\ r.op /= "batch" => r.done
  /\ r.op \notin {"load", "batch"} => r.rows = reqs[s].rows
  /\ r.op = "load" => table' = table /\ r.rows = Selected(r.tab)
  /\ r.op = "key" => table' = table
  /\ r.op = "create" => \E i \in Ids : /\ table[i] = "none" /\ r.tab \in {0, i}
                                       /\ table' = [table EXCEPT ![i] = "new"]
  /\ r.op \in {"edit", "patch"} => /\ table[r.id] \in {"new", "done"}
                                   /\ table' = [table EXCEPT ![r.id] = r.val]
  /\ r.op \in {"remove", "drop"} => table' = [table EXCEPT ![r.id] = "gone"]
  /\ r.op = "all" => table' = [i \in Ids |-> IF table[i] = "new" THEN "done" ELSE table[i]]
  /\ r.op = "batch" => \E i \in Ids : /\ reqs[s].rows[i] = "new" /\ table[i] \in {"new", "done"}
                                      /\ table' = [table EXCEPT ![i] = "done"]
                                      /\ r.rows = [reqs[s].rows EXCEPT ![i] = "done"]

LEMMA ResolvedType ==
  ASSUME NEW r \in Request, NEW i \in Ids, NEW v \in Values
  PROVE  LET q == Resolved(r, i, v)
         IN  /\ q \in Request /\ q.op = r.op /\ q.id = r.id /\ q.val = r.val /\ q.tab = r.tab
             /\ q.rows = [r.rows EXCEPT ![i] = v]
<1> DEFINE left == [r.rows EXCEPT ![i] = v]
           d == \A j \in Ids : left[j] /= "new"
<1>1. left \in Rows /\ d \in BOOLEAN
  BY DEF Request, Rows
<1>2. Resolved(r, i, v) = [r EXCEPT !.rows = left, !.done = d]
  BY DEF Resolved
<1> HIDE DEF left, d
<1>3. LET q == [r EXCEPT !.rows = left, !.done = d]
      IN  q \in Request /\ q.op = r.op /\ q.id = r.id /\ q.val = r.val /\ q.tab = r.tab /\ q.rows = left
  BY <1>1 DEF Request
<1> QED
  BY <1>2, <1>3 DEF left

LEMMA ServeServed ==
  ASSUME BaseInv, NEW s \in Slots, Serve(s)
  PROVE  \E r \in Request : Served(s, r)
<1>0. /\ reqs[s] \in Request /\ table \in Tables /\ reqs \in [Slots -> Request]
      /\ reqs[s].val \in Values /\ reqs[s].tab \in Ids \union {0} /\ reqs[s].done = FALSE
      /\ UNCHANGED <<page, ui, lapped>> /\ stale' = (stale /\ reqs[s].op /= "load")
  BY FieldsTyped DEF BaseInv, PagesTypeOK, TypeOK, Serve
<1>1. /\ reqs[s].op /= "idle" => page /= "Away"
      /\ reqs[s].op \in {"edit", "remove", "patch", "drop", "put", "key"} => reqs[s].id \in Ids
  BY IdleType DEF BaseInv, RequestsInv, Proper
<1> DEFINE d == [reqs[s] EXCEPT !.done = TRUE]
<1>2. /\ d \in Request /\ d.op = reqs[s].op /\ d.id = reqs[s].id /\ d.val = reqs[s].val
      /\ d.tab = reqs[s].tab /\ d.done /\ d.rows = reqs[s].rows
  BY <1>0 DEF Request
<1>3. CASE ServeLoad(s)
  <2> DEFINE list == Selected(reqs[s].tab)
             r == [reqs[s] EXCEPT !.done = TRUE, !.rows = list]
  <2>1. list \in Rows
    BY <1>0, SelectedType
  <2>2. reqs' = [reqs EXCEPT ![s] = r] /\ reqs[s].op = "load" /\ table' = table
    BY <1>3 DEF ServeLoad
  <2> HIDE DEF list
  <2>3. /\ r \in Request /\ r.op = reqs[s].op /\ r.id = reqs[s].id /\ r.val = reqs[s].val
        /\ r.tab = reqs[s].tab /\ r.done /\ r.rows = list
    BY <1>0, <2>1 DEF Request
  <2> HIDE DEF r
  <2>4. Served(s, r)
    BY <1>0, <1>1, <2>2, <2>3 DEF Served, Changes, list
  <2> QED
    BY <2>3, <2>4
<1>4. CASE ServeCreate(s)
  <2>1. reqs' = [reqs EXCEPT ![s] = d] /\ reqs[s].op = "create"
    BY <1>4 DEF ServeCreate
  <2>2. \E i \in Ids : table[i] = "none" /\ reqs[s].tab \in {0, i} /\ table' = [table EXCEPT ![i] = "new"]
    BY <1>4 DEF ServeCreate, Fresh
  <2>3. table' \in Tables
    BY <1>0, <2>2 DEF Tables, Values
  <2> HIDE DEF d
  <2> QED
    BY <1>0, <1>1, <1>2, <2>1, <2>2, <2>3 DEF Served, Changes
<1>5. CASE ServeEdit(s)
  <2>1. reqs' = [reqs EXCEPT ![s] = d] /\ reqs[s].op \in {"edit", "patch"}
        /\ table[reqs[s].id] \in {"new", "done"} /\ table' = [table EXCEPT ![reqs[s].id] = reqs[s].val]
    BY <1>5 DEF ServeEdit
  <2>2. table' \in Tables
    BY <1>0, <1>1, <2>1 DEF Tables
  <2> HIDE DEF d
  <2> QED
    BY <1>0, <1>1, <1>2, <2>1, <2>2 DEF Served, Changes
<1>6. CASE ServeRemove(s)
  <2>1. reqs' = [reqs EXCEPT ![s] = d] /\ reqs[s].op \in {"remove", "drop"}
        /\ table' = [table EXCEPT ![reqs[s].id] = "gone"]
    BY <1>6 DEF ServeRemove
  <2>2. table' \in Tables
    BY <1>0, <1>1, <2>1 DEF Tables
  <2> HIDE DEF d
  <2> QED
    BY <1>0, <1>1, <1>2, <2>1, <2>2 DEF Served, Changes
<1>7. CASE ServePut(s)
  <2>1. reqs' = [reqs EXCEPT ![s] = d] /\ reqs[s].op = "put"
        /\ table' = [table EXCEPT ![reqs[s].id] = IF reqs[s].val = "none" THEN @ ELSE reqs[s].val]
    BY <1>7 DEF ServePut
  <2>2. table' \in Tables
    BY <1>0, <1>1, <2>1 DEF Tables
  <2> HIDE DEF d
  <2> QED
    BY <1>0, <1>1, <1>2, <2>1, <2>2 DEF Served, Changes
<1>8. CASE ServeAll(s)
  <2>1. reqs' = [reqs EXCEPT ![s] = d] /\ reqs[s].op = "all"
        /\ table' = [i \in Ids |-> IF table[i] = "new" THEN "done" ELSE table[i]]
    BY <1>8 DEF ServeAll
  <2>2. table' \in Tables
    BY <1>0, <2>1 DEF Tables, Values
  <2> HIDE DEF d
  <2> QED
    BY <1>0, <1>1, <1>2, <2>1, <2>2 DEF Served, Changes
<1>9. CASE ServeBatch(s)
  <2>1. PICK i \in Ids : /\ reqs[s].rows[i] = "new" /\ table[i] \in {"new", "done"}
                         /\ table' = [table EXCEPT ![i] = "done"]
                         /\ reqs' = [reqs EXCEPT ![s] = Resolved(reqs[s], i, "done")]
    BY <1>9 DEF ServeBatch
  <2> DEFINE r == Resolved(reqs[s], i, "done")
  <2>2. /\ r \in Request /\ r.op = reqs[s].op /\ r.id = reqs[s].id /\ r.val = reqs[s].val
        /\ r.tab = reqs[s].tab /\ r.rows = [reqs[s].rows EXCEPT ![i] = "done"]
    BY <1>0, ResolvedType DEF Values
  <2>3. table' \in Tables /\ reqs[s].op = "batch" /\ reqs' = [reqs EXCEPT ![s] = r]
    BY <1>0, <1>9, <2>1 DEF Tables, Values, ServeBatch
  <2> HIDE DEF r
  <2> QED
    BY <1>0, <1>1, <2>1, <2>2, <2>3 DEF Served, Changes
<1>10. CASE ServeKey(s)
  <2>1. reqs' = [reqs EXCEPT ![s] = d] /\ reqs[s].op = "key" /\ table' = table
    BY <1>10 DEF ServeKey
  <2> HIDE DEF d
  <2> QED
    BY <1>0, <1>1, <1>2, <2>1 DEF Served, Changes
<1> QED
  BY <1>3, <1>4, <1>5, <1>6, <1>7, <1>8, <1>9, <1>10 DEF Serve

\* One role of the matrix has been written, or its PUT has failed.
RoleStep(s, r) ==
  /\ Changes(s, r) /\ page = "Roles" /\ reqs[s].op = "edit" /\ UNCHANGED <<page, table>>
  /\ lapped' = Lapped(reqs') /\ (stale' = stale \/ stale' = TRUE)
  /\ ui' \in UiState /\ KeepList /\ KeepForm
  /\ \/ r = Load /\ ~ui'.busy /\ ui'.loading /\ \A i \in Ids : reqs[s].rows[i] = "none"
     \/ /\ ui' = ui /\ r.op = "edit" /\ r.id \in Ids /\ r.tab = 0 /\ ~r.done
        /\ reqs[s].rows[r.id] /= "none" /\ r.val = reqs[s].rows[r.id]
        /\ \A i \in Ids : r.rows[i] \in {"none", reqs[s].rows[i]}

LEMMA RoleWrittenStep ==
  ASSUME BaseInv, NEW s \in Slots, RoleWritten(s)
  PROVE  \E r \in Request : RoleStep(s, r)
<1> DEFINE todo == Present(reqs[s].rows)
           next == IF todo = {} THEN Load ELSE PutRole(todo, reqs[s].rows)
<1>0. ui \in UiState /\ reqs[s].rows \in Rows
  BY FieldsTyped DEF BaseInv, PagesTypeOK, TypeOK
<1>1. /\ page = "Roles" /\ reqs[s].op = "edit" /\ UNCHANGED <<page, table>>
      /\ reqs' = [reqs EXCEPT ![s] = next] /\ lapped' = Lapped(reqs') /\ (stale' = stale \/ stale' = TRUE)
      /\ ui' = IF todo = {} THEN [ui EXCEPT !.busy = FALSE, !.loading = TRUE] ELSE ui
  BY DEF RoleWritten, Succeeded, FailedThen
<1>2. CASE todo = {}
  <2>1. next = Load /\ Load \in Request
    BY <1>2, LoadType
  <2>2. \A i \in Ids : reqs[s].rows[i] = "none"
    BY <1>2 DEF Present
  <2>3. ui' \in UiState /\ KeepList /\ KeepForm /\ ~ui'.busy /\ ui'.loading
    BY <1>0, <1>1, <1>2 DEF UiState, KeepList, KeepForm
  <2> HIDE DEF next, todo
  <2>4. RoleStep(s, Load)
    BY <1>1, <2>1, <2>2, <2>3 DEF RoleStep, Changes
  <2> QED
    BY <2>1, <2>4
<1>3. CASE todo /= {}
  <2>1. todo \in SUBSET Ids /\ next = PutRole(todo, reqs[s].rows)
    BY <1>3 DEF Present
  <2>2. /\ next \in Request /\ next.op = "edit" /\ next.id \in todo /\ next.val = reqs[s].rows[next.id]
        /\ next.tab = 0 /\ ~next.done
        /\ next.rows = [j \in Ids |-> IF j \in todo \ {next.id} THEN reqs[s].rows[j] ELSE "none"]
    <3> HIDE DEF next, todo
    <3> QED
      BY <1>0, <1>3, <2>1, PutRoleType
  <2>3. ui' = ui /\ KeepList /\ KeepForm
    BY <1>1, <1>3 DEF KeepList, KeepForm
  <2>4. next.id \in Ids /\ reqs[s].rows[next.id] /= "none"
    BY <2>2 DEF Present
  <2> HIDE DEF next, todo
  <2>5. \A i \in Ids : next.rows[i] \in {"none", reqs[s].rows[i]}
    BY <2>2
  <2>6. RoleStep(s, next)
    BY <1>0, <1>1, <2>2, <2>3, <2>4, <2>5 DEF RoleStep, Changes
  <2> QED
    BY <2>2, <2>6
<1> QED
  BY <1>2, <1>3

LEMMA LappedType ==
  ASSUME NEW rq, lapped \in BOOLEAN
  PROVE  /\ Lapped(rq) \in BOOLEAN
         /\ ~Lapped(rq) => ~Overlap(rq) /\ (Alone(rq) \/ ~lapped)
BY DEF Lapped

\* A step that changes one request keeps the requests proper.
LEMMA OneRequest ==
  ASSUME BaseInv, NEW s \in Slots, NEW r \in Request, Changes(s, r), UNCHANGED page, Proper(r),
         r.op = "idle" <=> r = Idle
  PROVE  /\ reqs' \in [Slots -> Request] /\ reqs'[s] = r
         /\ \A t \in Slots \ {s} : reqs'[t] = reqs[t]
         /\ RequestsInv'
<1>1. reqs \in [Slots -> Request]
  BY DEF BaseInv, PagesTypeOK, TypeOK
<1>2. reqs' \in [Slots -> Request] /\ reqs'[s] = r /\ \A t \in Slots \ {s} : reqs'[t] = reqs[t]
  BY <1>1 DEF Changes
<1>3. ASSUME NEW t \in Slots
      PROVE  (Proper(reqs[t]) /\ (reqs[t].op = "idle" <=> reqs[t] = Idle))'
  <2>1. CASE t = s
    <3>1. Proper(r)'
      BY DEF Proper
    <3> QED
      BY <1>2, <2>1, <3>1
  <2>2. CASE t /= s
    <3>1. Proper(reqs[t]) /\ (reqs[t].op = "idle" <=> reqs[t] = Idle)
      BY DEF BaseInv, RequestsInv
    <3>2. reqs'[t] = reqs[t]
      BY <1>2, <2>2
    <3> QED
      BY <3>1, <3>2 DEF Proper
  <2> QED
    BY <2>1, <2>2
<1> QED
  BY <1>2, <1>3 DEF RequestsInv

LEMMA BaseInit ==
  Init => BaseInv
<1> SUFFICES ASSUME Init PROVE BaseInv
  OBVIOUS
<1>1. PagesTypeOK
  BY RowsTypes, BlankType, IdleType DEF Init, PagesTypeOK, TypeOK, Panels
<1>2. RequestsInv
  BY IdleType DEF Init, RequestsInv, Proper
<1> QED
  BY <1>1, <1>2 DEF BaseInv

\* A step that sends, serves or ends one request.
LEMMA BaseOneRequest ==
  ASSUME BaseInv, NEW s \in Slots, NEW r \in Request, Changes(s, r), UNCHANGED page, Proper(r),
         r.op = "idle" <=> r = Idle,
         ui' \in UiState, page = "Masters" => ui'.tab \in Ids, page /= "Masters" => ui'.tab = ui.tab,
         ui'.dialog = "edit" => ui'.target \in Ids,
         table' \in Tables, lapped' \in BOOLEAN, stale' \in BOOLEAN
  PROVE  BaseInv'
<1>1. reqs' \in [Slots -> Request] /\ RequestsInv'
  BY OneRequest
<1>2. PagesTypeOK'
  BY <1>1 DEF BaseInv, PagesTypeOK, TypeOK
<1> QED
  BY <1>1, <1>2 DEF BaseInv

LEMMA ProperIdle ==
  ASSUME page /= "Away"
  PROVE  Proper(Idle)
BY IdleType DEF Proper

LEMMA BaseStep ==
  ASSUME BaseInv, StepShape
  PROVE  BaseInv'
<1>0. /\ TypeOK /\ ui \in UiState /\ table \in Tables /\ lapped \in BOOLEAN /\ stale \in BOOLEAN
      /\ (page = "Masters" => ui.tab \in Ids) /\ (page /= "Masters" => ui.tab = 0)
      /\ ui.dialog = "edit" => ui.target \in Ids
  BY DEF BaseInv, PagesTypeOK, TypeOK
<1>l. /\ \A rq : Lapped(rq) \in BOOLEAN
      /\ Idle \in Request /\ Idle.op = "idle"
      /\ page /= "Away" => Proper(Idle)
  BY <1>0, LappedType, ProperIdle, IdleType
<1>1. CASE MountShape
  <2>1. PagesTypeOK'
    <3>1. ui'.tab \in Ids \union {0} /\ 1 \in Ids
      BY <1>1, PageAssumption DEF MountShape
    <3>2. reqs' \in [Slots -> Request]
      BY <1>1, <3>1, <1>l, LoadType DEF MountShape
    <3>3. table' \in Tables
      BY <1>1 DEF MountShape, Tables, Values
    <3> QED
      BY <1>0, <1>1, <3>1, <3>2, <3>3 DEF MountShape, PagesTypeOK, TypeOK, Panels
  <2>2. RequestsInv'
    <3>1. ui'.tab \in Ids \union {0} /\ (page' /= "Masters" => ui'.tab = 0) /\ page' /= "Away"
      BY <1>1, PageAssumption DEF MountShape, Panels, ClientPanels, AdminPanels
    <3>2. Proper(Idle)' /\ Proper(LoadCategory(ui.tab))'
      BY <3>1, LoadType, IdleType DEF Proper
    <3>3. LoadCategory(ui'.tab).op = "load"
      BY <3>1, LoadType
    <3> QED
      BY <1>1, <1>l, <3>2, <3>3 DEF MountShape, RequestsInv
  <2> QED
    BY <2>1, <2>2 DEF BaseInv
<1>2. CASE UserShape
  <2>1. PagesTypeOK'
    BY <1>0, <1>2 DEF UserShape, UserOnly, BaseInv, PagesTypeOK, TypeOK
  <2>2. RequestsInv'
    BY <1>2 DEF UserShape, UserOnly, BaseInv, RequestsInv, Proper
  <2> QED
    BY <2>1, <2>2 DEF BaseInv
<1>3. CASE ElseShape
  <2>1. UNCHANGED <<page, ui, reqs, lapped>> /\ stale' = TRUE
    BY <1>3 DEF ElseShape, Elsewhere
  <2>2. table' \in Tables
    BY <1>0, <1>3 DEF ElseShape, Elsewhere, Tables, Values
  <2>3. PagesTypeOK'
    BY <2>1, <2>2 DEF BaseInv, PagesTypeOK, TypeOK
  <2>4. RequestsInv'
    BY <2>1 DEF BaseInv, RequestsInv, Proper
  <2> QED
    BY <2>3, <2>4 DEF BaseInv
<1>4. CASE Leave
  <2>1. PagesTypeOK'
    BY <1>4, RowsTypes, BlankType, IdleType DEF Leave, PagesTypeOK, TypeOK, Panels
  <2>2. RequestsInv'
    BY <1>4, IdleType DEF Leave, RequestsInv, Proper
  <2> QED
    BY <2>1, <2>2 DEF BaseInv
<1>5. ASSUME NEW r \in Request, SendShape(r)
      PROVE  BaseInv'
  <2>1. PICK s \in Slots : Changes(s, r)
    BY <1>5 DEF SendShape, Send, Changes
  <2>2. UNCHANGED <<page, table, stale>> /\ lapped' \in BOOLEAN
    BY <1>5, <1>l DEF SendShape, Send
  <2>3. Proper(r) /\ r.op /= "idle" /\ r /= Idle
    BY <1>5, <1>l DEF SendShape
  <2>4. ui' \in UiState /\ ui'.tab = ui.tab /\ (ui'.dialog = "edit" => ui'.target \in Ids)
    BY <1>0, <1>5 DEF SendShape, KeepList
  <2> QED
    BY <1>0, <2>1, <2>2, <2>3, <2>4, BaseOneRequest
<1>7. ASSUME NEW i \in Ids, SetActiveType(i)
      PROVE  BaseInv'
  <2>1. LoadCategory(i) \in Request /\ LoadCategory(i).op = "load" /\ Proper(LoadCategory(i))
    BY <1>7, LoadType, ProperLoad DEF SetActiveType
  <2>2. PICK s \in Slots : Changes(s, LoadCategory(i))
    BY <1>7, <2>1 DEF SetActiveType, Changes
  <2>3. UNCHANGED <<page, table, stale>> /\ lapped' \in BOOLEAN
    BY <1>0, <1>7 DEF SetActiveType
  <2>4. ui' \in UiState /\ ui'.tab = i /\ ui'.dialog = ui.dialog /\ ui'.target = ui.target /\ page = "Masters"
    BY <1>0, <1>7 DEF SetActiveType, UiState
  <2>5. LoadCategory(i) /= Idle
    BY <1>l, <2>1
  <2> HIDE DEF LoadCategory
  <2> QED
    BY <1>0, <2>1, <2>2, <2>3, <2>4, <2>5, BaseOneRequest
<1>8. ASSUME NEW s \in Slots, LoadDone(s) \/ LoadFailed(s)
      PROVE  BaseInv'
  <2>1. Changes(s, Idle) /\ UNCHANGED <<page, table>> /\ lapped' \in BOOLEAN /\ stale' \in BOOLEAN
    BY <1>0, <1>8, <1>l DEF LoadDone, LoadFailed, Succeeded, Failed, FailedThen, Changes
  <2>2. /\ page /= "Away" /\ ui' \in UiState /\ ui'.tab = ui.tab /\ (ui'.dialog = "edit" => ui'.target \in Ids)
    BY <1>0, <1>8 DEF LoadDone, LoadFailed, LoadEnds, KeepForm
  <2> QED
    BY <1>0, <1>l, <2>1, <2>2, BaseOneRequest
<1>9. ASSUME NEW s \in Slots, ChangeDone(s)
      PROVE  BaseInv'
  <2> DEFINE r == LoadCategory(reqs[s].tab)
  <2>0. page /= "Away" /\ reqs[s].tab \in Ids \union {0} /\ (page /= "Masters" => reqs[s].tab = 0)
    BY <1>0, <1>9, FieldsTyped DEF ChangeDone, BaseInv, RequestsInv, Proper
  <2>1. r \in Request /\ r.op = "load" /\ Proper(r) /\ r /= Idle
    BY <1>l, <2>0, LoadType, ProperLoad
  <2>2. Changes(s, r) /\ UNCHANGED <<page, table, stale>> /\ lapped' \in BOOLEAN
    BY <1>9, <1>l, <2>1 DEF ChangeDone, Succeeded, Changes
  <2>3. ui' \in UiState /\ ui'.tab = ui.tab /\ (ui'.dialog = "edit" => ui'.target \in Ids)
    BY <1>0, <1>9 DEF ChangeDone, KeepList
  <2> HIDE DEF r
  <2> QED
    BY <1>0, <2>1, <2>2, <2>3, BaseOneRequest
<1>10. ASSUME NEW s \in Slots, ChangeFailed(s) \/ PatchDone(s)
       PROVE  BaseInv'
  <2>1. Changes(s, Idle) /\ UNCHANGED <<page, table>> /\ lapped' \in BOOLEAN /\ stale' \in BOOLEAN
    BY <1>0, <1>10, <1>l DEF ChangeFailed, PatchDone, Succeeded, Failed, FailedThen, Changes
  <2>2. /\ page /= "Away" /\ ui' \in UiState /\ ui'.tab = ui.tab /\ (ui'.dialog = "edit" => ui'.target \in Ids)
    BY <1>0, <1>10 DEF ChangeFailed, PatchDone, KeepForm, KeepList
  <2> QED
    BY <1>0, <1>l, <2>1, <2>2, BaseOneRequest
<1>11. ASSUME NEW s \in Slots, FailedInBatch(s)
       PROVE  BaseInv'
  <2>1. PICK i \in Ids : reqs' = [reqs EXCEPT ![s] = Resolved(reqs[s], i, "none")]
    BY <1>11 DEF FailedInBatch
  <2> DEFINE r == Resolved(reqs[s], i, "none")
  <2>2. r \in Request /\ r.op = "batch" /\ r.tab = reqs[s].tab
    <3>1. reqs[s] \in Request /\ reqs[s].op = "batch" /\ "none" \in Values
      BY <1>0, <1>11, FieldsTyped DEF Values, FailedInBatch
    <3> QED
      BY <3>1, ResolvedType
  <2>3. UNCHANGED <<page, ui, table, lapped>> /\ stale' = TRUE /\ Changes(s, r)
    BY <1>11, <2>1, <2>2 DEF FailedInBatch, Changes
  <2> HIDE DEF r
  <2>4. Proper(r) /\ r /= Idle
    <3>1. reqs[s].op = "batch" /\ Proper(reqs[s]) /\ reqs[s] /= Idle
      BY <1>11, <1>l DEF FailedInBatch, BaseInv, RequestsInv
    <3> QED
      BY <1>l, <2>2, <3>1 DEF Proper
  <2> QED
    BY <1>0, <2>2, <2>3, <2>4, BaseOneRequest
<1>12. ASSUME NEW s \in Slots, RoleWritten(s)
       PROVE  BaseInv'
  <2>1. PICK r \in Request : RoleStep(s, r)
    BY <1>12, RoleWrittenStep
  <2>2. Proper(r) /\ r.op /= "idle"
    <3>1. CASE r = Load
      BY <2>1, <3>1, LoadType, ProperLoad DEF RoleStep
    <3>2. CASE r.op = "edit" /\ r.id \in Ids /\ r.tab = 0
      BY <2>1, <3>2 DEF RoleStep, Proper, AckPages
    <3> QED
      BY <2>1, <3>1, <3>2 DEF RoleStep
  <2>3. Changes(s, r) /\ UNCHANGED <<page, table>> /\ lapped' \in BOOLEAN /\ stale' \in BOOLEAN
    BY <1>0, <1>l, <2>1 DEF RoleStep
  <2>4. ui' \in UiState /\ ui'.tab = ui.tab /\ (ui'.dialog = "edit" => ui'.target \in Ids)
    BY <1>0, <2>1 DEF RoleStep, KeepForm, KeepList
  <2> QED
    BY <1>0, <1>l, <2>2, <2>3, <2>4, BaseOneRequest
<1>13. ASSUME NEW s \in Slots, Serve(s)
       PROVE  BaseInv'
  <2>1. PICK r \in Request : Served(s, r)
    BY <1>13, ServeServed
  <2>2. /\ Changes(s, r) /\ UNCHANGED <<page, ui, lapped>> /\ table' \in Tables /\ stale' \in BOOLEAN
        /\ r.op = reqs[s].op /\ r.id = reqs[s].id /\ r.val = reqs[s].val /\ r.tab = reqs[s].tab
        /\ r.op /= "idle" /\ page /= "Away"
    BY <1>0, <2>1 DEF Served
  <2>3. Proper(r)
    BY <2>2 DEF BaseInv, RequestsInv, Proper
  <2> QED
    BY <1>0, <1>l, <2>2, <2>3, BaseOneRequest
<1> QED
  BY <1>1, <1>2, <1>3, <1>4, <1>5, <1>7, <1>8, <1>9, <1>10, <1>11, <1>12, <1>13 DEF StepShape

\* Every list, dialog and request of the pages of both applications is what its
\* type says, after every answer and every failure (useState of each page).
THEOREM PagesTypes ==
  Spec => []TypeOK
<1>1. BaseInv /\ [Next]_vars => BaseInv'
  <2> SUFFICES ASSUME BaseInv, [Next]_vars PROVE BaseInv'
    OBVIOUS
  <2>1. CASE Next
    BY <2>1, NextShaped, BaseStep
  <2>2. CASE UNCHANGED vars
    BY <2>2 DEF vars, BaseInv, PagesTypeOK, TypeOK, RequestsInv, Proper
  <2> QED
    BY <2>1, <2>2
<1>2. BaseInv => TypeOK
  BY DEF BaseInv, PagesTypeOK
<1> QED
  BY <1>1, <1>2, BaseInit, PTL DEF Spec

--------------------------------------------------------------------------------
(* What each shape does to the requests.                                    *)

Slot(s, r) == /\ s \in Slots /\ reqs'[s] = r
              /\ \A t \in Slots : t /= s => reqs'[t] = reqs[t]
Ends(s, op) == /\ Slot(s, Idle) /\ reqs[s].op = op /\ UNCHANGED <<page, table>>
               /\ lapped' = Lapped(reqs')

LEMMA SlotChanged ==
  ASSUME BaseInv, NEW s \in Slots, NEW r, reqs' = [reqs EXCEPT ![s] = r]
  PROVE  Slot(s, r)
BY DEF Slot, BaseInv, PagesTypeOK, TypeOK

LEMMA SendSlot ==
  ASSUME BaseInv, NEW r \in Request, SendShape(r)
  PROVE  /\ UNCHANGED <<page, table, stale>> /\ lapped' = Lapped(reqs')
         /\ \E s \in Slots : Slot(s, r) /\ reqs[s] = Idle
BY SlotChanged DEF SendShape, Send

LEMMA TabSlot ==
  ASSUME BaseInv, NEW i \in Ids, SetActiveType(i)
  PROVE  /\ UNCHANGED <<page, table, stale>> /\ page = "Masters"
         /\ \E s \in Slots : Slot(s, LoadCategory(i)) /\ reqs[s] = Idle
         /\ ui'.tab = i /\ ui'.loading /\ ui'.rows = ui.rows
         /\ lapped' = ~Quiet
BY SlotChanged DEF SetActiveType, BaseInv, PagesTypeOK, TypeOK, UiState

LEMMA LoadSlot ==
  ASSUME BaseInv, NEW s \in Slots
  PROVE  /\ LoadDone(s) => Ends(s, "load") /\ reqs[s].done /\ stale' = stale
         /\ LoadFailed(s) => Ends(s, "load") /\ stale'
BY SlotChanged DEF LoadDone, LoadFailed, Succeeded, Failed, FailedThen, Ends

LEMMA ChangeDoneSlot ==
  ASSUME BaseInv, NEW s \in Slots, ChangeDone(s)
  PROVE  /\ Slot(s, LoadCategory(reqs[s].tab)) /\ reqs[s].op \in Reloads \union {"key"} /\ reqs[s].done
         /\ UNCHANGED <<page, table, stale>> /\ lapped' = Lapped(reqs')
         /\ LoadCategory(reqs[s].tab).op = "load"
<1>1. reqs[s].tab \in Ids \union {0}
  BY FieldsTyped DEF BaseInv, PagesTypeOK
<1> QED
  BY <1>1, SlotChanged, LoadType DEF ChangeDone, Succeeded

LEMMA ChangeFailedSlot ==
  ASSUME BaseInv, NEW s \in Slots, ChangeFailed(s)
  PROVE  /\ Ends(s, reqs[s].op) /\ reqs[s].op \notin {"idle", "load", "batch"} /\ stale'
         /\ page \in BusyPages => reqs[s].op \in Submits
BY SlotChanged DEF ChangeFailed, Failed, FailedThen, Ends

LEMMA PatchDoneSlot ==
  ASSUME BaseInv, NEW s \in Slots, PatchDone(s)
  PROVE  Ends(s, reqs[s].op) /\ reqs[s].op \in Patches /\ reqs[s].done /\ stale' = stale
BY SlotChanged DEF PatchDone, Succeeded, Ends

LEMMA BatchSlot ==
  ASSUME BaseInv, NEW s \in Slots, FailedInBatch(s)
  PROVE  /\ UNCHANGED <<page, ui, table, lapped>> /\ stale' /\ page = "Alarms"
         /\ reqs[s].op = "batch"
         /\ \E r \in Request : /\ Slot(s, r) /\ r.op = "batch" /\ r.tab = reqs[s].tab
                               /\ \A j \in Ids : r.rows[j] \in {"none", reqs[s].rows[j]}
<1>1. PICK i \in Ids : reqs' = [reqs EXCEPT ![s] = Resolved(reqs[s], i, "none")]
  BY DEF FailedInBatch
<1> DEFINE r == Resolved(reqs[s], i, "none")
<1>2. reqs[s] \in Request /\ reqs[s].op = "batch" /\ "none" \in Values /\ reqs[s].rows \in Rows
  BY FieldsTyped DEF FailedInBatch, BaseInv, PagesTypeOK, Values
<1>3. r \in Request /\ r.op = "batch" /\ r.tab = reqs[s].tab /\ r.rows = [reqs[s].rows EXCEPT ![i] = "none"]
  BY <1>2, ResolvedType
<1>4. Slot(s, r)
  BY <1>1, SlotChanged
<1> HIDE DEF r
<1>5. \A j \in Ids : r.rows[j] \in {"none", reqs[s].rows[j]}
  BY <1>2, <1>3 DEF Rows
<1> QED
  BY <1>2, <1>3, <1>4, <1>5 DEF FailedInBatch, BaseInv, RequestsInv, Proper

LEMMA RoleSlot ==
  ASSUME BaseInv, NEW s \in Slots, RoleWritten(s)
  PROVE  \E r \in Request : RoleStep(s, r) /\ Slot(s, r)
BY RoleWrittenStep, SlotChanged DEF RoleStep, Changes

LEMMA ServeSlot ==
  ASSUME BaseInv, NEW s \in Slots, Serve(s)
  PROVE  \E r \in Request : Served(s, r) /\ Slot(s, r)
<1>1. PICK r \in Request : Served(s, r)
  BY ServeServed
<1>2. Changes(s, r)
  BY <1>1 DEF Served
<1> QED
  BY <1>1, <1>2, SlotChanged DEF Changes

--------------------------------------------------------------------------------
(* Flags and requests.                                                      *)

LEMMA LoadingStep ==
  ASSUME BaseInv, LoadingInv, StepShape
  PROVE  LoadingInv'
<1> USE DEF LoadingInv, Slot
<1>0. Idle.op = "idle"
  BY IdleType
<1>1. CASE MountShape
  <2>1. 1 \in Slots /\ LoadCategory(ui'.tab).op = "load"
    BY <1>1, PageAssumption, LoadType DEF MountShape, Slots
  <2> QED
    BY <1>1, <2>1 DEF MountShape
<1>2. CASE UserShape \/ ElseShape
  BY <1>2 DEF UserShape, UserOnly, ElseShape, Elsewhere, BaseInv, PagesTypeOK, TypeOK, UiState
<1>3. CASE Leave
  BY <1>3, BlankType DEF Leave, Unpolled
<1>4. ASSUME NEW r \in Request, SendShape(r)
      PROVE  LoadingInv'
  BY <1>0, <1>4, SendSlot DEF SendShape
<1>5. ASSUME NEW i \in Ids, SetActiveType(i)
      PROVE  LoadingInv'
  BY <1>5, TabSlot, LoadType DEF Unpolled
<1>6. ASSUME NEW s \in Slots, LoadDone(s) \/ LoadFailed(s)
      PROVE  LoadingInv'
  BY <1>6, LoadSlot DEF LoadDone, LoadFailed, LoadEnds, Ends
<1>7. ASSUME NEW s \in Slots, ChangeDone(s)
      PROVE  LoadingInv'
  BY <1>7, ChangeDoneSlot DEF ChangeDone
<1>8. ASSUME NEW s \in Slots, ChangeFailed(s)
      PROVE  LoadingInv'
  BY <1>8, ChangeFailedSlot DEF ChangeFailed, Ends
<1>9. ASSUME NEW s \in Slots, PatchDone(s)
      PROVE  LoadingInv'
  BY <1>9, PatchDoneSlot DEF PatchDone, Ends, Patches
<1>10. ASSUME NEW s \in Slots, FailedInBatch(s)
       PROVE  LoadingInv'
  BY <1>10, BatchSlot
<1>11. ASSUME NEW s \in Slots, RoleWritten(s)
       PROVE  LoadingInv'
  <2>1. PICK r \in Request : RoleStep(s, r) /\ Slot(s, r)
    BY <1>11, RoleSlot
  <2>2. page' = "Roles" /\ reqs[s].op = "edit"
    BY <2>1 DEF RoleStep
  <2>3. CASE r = Load
    BY <2>1, <2>2, <2>3, LoadType DEF Unpolled
  <2>4. CASE ui' = ui
    BY <2>1, <2>2, <2>4 DEF Unpolled
  <2> QED
    BY <2>1, <2>3, <2>4 DEF RoleStep
<1>12. ASSUME NEW s \in Slots, Serve(s)
       PROVE  LoadingInv'
  BY <1>12, ServeSlot DEF Served
<1> QED
  BY <1>1, <1>2, <1>3, <1>4, <1>5, <1>6, <1>7, <1>8, <1>9, <1>10, <1>11, <1>12 DEF StepShape

LEMMA BusyStep ==
  ASSUME BaseInv, BusyInv, StepShape
  PROVE  BusyInv'
<1> USE DEF BusyInv, Slot, Submits, BusyPages
<1>0. Idle.op = "idle"
  BY IdleType
<1>1. CASE MountShape
  <2>1. \A s \in Slots : reqs'[s].op \in {"idle", "load"}
    <3>1. LoadCategory(ui'.tab).op = "load"
      BY <1>1, PageAssumption, LoadType DEF MountShape
    <3> QED
      BY <1>0, <1>1, <3>1 DEF MountShape
  <2>2. ~ui'.busy
    BY <1>1 DEF MountShape
  <2> QED
    BY <2>1, <2>2
<1>2. CASE UserShape \/ ElseShape
  BY <1>2 DEF UserShape, UserOnly, ElseShape, Elsewhere
<1>3. CASE Leave
  BY <1>3 DEF Leave
<1>4. ASSUME NEW r \in Request, SendShape(r)
      PROVE  BusyInv'
  BY <1>0, <1>4, SendSlot DEF SendShape
<1>5. ASSUME NEW i \in Ids, SetActiveType(i)
      PROVE  BusyInv'
  BY <1>5, TabSlot
<1>6. ASSUME NEW s \in Slots, LoadDone(s) \/ LoadFailed(s)
      PROVE  BusyInv'
  BY <1>0, <1>6, LoadSlot DEF LoadDone, LoadFailed, LoadEnds, Ends
<1>7. ASSUME NEW s \in Slots, ChangeDone(s)
      PROVE  BusyInv'
  <2>1. page \in BusyPages => reqs[s].op \in Submits
    BY <1>7, ChangeDoneSlot DEF Reloads, BaseInv, RequestsInv, Proper
  <2> QED
    BY <1>7, <2>1, ChangeDoneSlot DEF ChangeDone
<1>8. ASSUME NEW s \in Slots, ChangeFailed(s)
      PROVE  BusyInv'
  BY <1>0, <1>8, ChangeFailedSlot DEF ChangeFailed, Ends
<1>9. ASSUME NEW s \in Slots, PatchDone(s)
      PROVE  BusyInv'
  BY <1>9, PatchDoneSlot DEF PatchDone, Ends
<1>10. ASSUME NEW s \in Slots, FailedInBatch(s)
       PROVE  BusyInv'
  BY <1>10, BatchSlot
<1>11. ASSUME NEW s \in Slots, RoleWritten(s)
       PROVE  BusyInv'
  <2>1. PICK r \in Request : RoleStep(s, r) /\ Slot(s, r)
    BY <1>11, RoleSlot
  <2>2. CASE r = Load /\ ~ui'.busy
    BY <2>1, <2>2, LoadType DEF RoleStep
  <2>3. CASE r.op = "edit" /\ ui' = ui
    BY <2>1, <2>3 DEF RoleStep
  <2> QED
    BY <2>1, <2>2, <2>3 DEF RoleStep
<1>12. ASSUME NEW s \in Slots, Serve(s)
       PROVE  BusyInv'
  BY <1>12, ServeSlot DEF Served
<1> QED
  BY <1>1, <1>2, <1>3, <1>4, <1>5, <1>6, <1>7, <1>8, <1>9, <1>10, <1>11, <1>12 DEF StepShape

--------------------------------------------------------------------------------
(* Permission matrix, acknowledgements.                                     *)

LEMMA RolesStep ==
  ASSUME BaseInv, BusyInv, RolesInv, StepShape
  PROVE  RolesInv'
<1> USE DEF Slot
<1>0. Idle.op = "idle" /\ \A s \in Slots : reqs[s].op = "idle" <=> reqs[s] = Idle
  BY IdleType DEF BaseInv, RequestsInv
<1>1. CASE MountShape
  <2>1. LoadCategory(0).op = "load" /\ 1 \in Slots
    BY LoadType, PageAssumption DEF Slots
  <2>2. page' = "Roles" => reqs' = [s \in Slots |-> IF s = 1 THEN LoadCategory(0) ELSE Idle] /\ ui'.loading
    BY <1>1 DEF MountShape
  <2>3. ui'.rows = NoRows /\ ui'.draft = NoRows
    BY <1>1 DEF MountShape
  <2> HIDE DEF LoadCategory
  <2> QED
    BY <1>0, <2>1, <2>2, <2>3, RowsTypes DEF RolesInv
<1>2. CASE UserShape
  BY <1>2 DEF UserShape, UserOnly, RolesInv
<1>3. CASE ElseShape
  BY <1>3 DEF ElseShape, Elsewhere, RolesInv
<1>4. CASE Leave
  BY <1>4 DEF Leave, RolesInv
<1>5. ASSUME NEW r \in Request, SendShape(r)
      PROVE  RolesInv'
  <2> SUFFICES ASSUME page = "Roles" PROVE RolesInv'
    BY <1>5, SendSlot DEF RolesInv
  <2>1. PICK s \in Slots : Slot(s, r) /\ reqs[s] = Idle
    BY <1>5, SendSlot
  <2>2. /\ r.op = "edit" /\ ~ui.loading /\ r.val /= ui.rows[r.id] /\ ~ui.busy
        /\ \A i \in Ids : r.rows[i] /= "none" => r.rows[i] /= ui.rows[i]
        /\ ui'.rows = ui.rows /\ ui'.draft = ui.draft /\ ui'.loading = ui.loading /\ page' = page
    BY <1>5, SendSlot DEF SendShape, KeepList, BusyPages, Submits
  <2>3. \A t \in Slots : reqs[t] = Idle
    BY <1>0, <2>2 DEF RolesInv, BusyInv, BusyPages, Submits
  <2> QED
    BY <1>0, <2>1, <2>2, <2>3 DEF RolesInv
<1>6. ASSUME NEW i \in Ids, SetActiveType(i)
      PROVE  RolesInv'
  BY <1>6 DEF SetActiveType, RolesInv
<1>7. ASSUME NEW s \in Slots, LoadDone(s) \/ LoadFailed(s)
      PROVE  RolesInv'
  <2> SUFFICES ASSUME page = "Roles" PROVE RolesInv'
    BY <1>7, LoadSlot DEF RolesInv, Ends
  <2>1. Ends(s, "load") /\ ~ui'.loading
    BY <1>7, LoadSlot DEF LoadDone, LoadFailed, LoadEnds, Unpolled
  <2>2. \A t \in Slots : reqs'[t] = Idle
    BY <1>0, <2>1 DEF Ends, RolesInv
  <2>3. \A i \in Ids : ui'.rows[i] = "none" <=> ui'.draft[i] = "none"
    BY <1>7 DEF LoadDone, LoadFailed, RolesInv
  <2> QED
    BY <1>0, <2>1, <2>2, <2>3 DEF RolesInv
<1>8. ASSUME NEW s \in Slots, ChangeDone(s) \/ ChangeFailed(s) \/ PatchDone(s) \/ FailedInBatch(s)
      PROVE  RolesInv'
  <2>1. page /= "Roles" /\ page' = page
    BY <1>8, ChangeDoneSlot, ChangeFailedSlot, PatchDoneSlot, BatchSlot
       DEF ChangeDone, ChangeFailed, PatchDone, Ends
  <2> QED
    BY <2>1 DEF RolesInv
<1>9. ASSUME NEW s \in Slots, RoleWritten(s)
      PROVE  RolesInv'
  <2>1. PICK r \in Request : RoleStep(s, r) /\ Slot(s, r)
    BY <1>9, RoleSlot
  <2>2. page = "Roles" /\ page' = "Roles" /\ reqs[s].op = "edit" /\ ui'.rows = ui.rows /\ ui'.draft = ui.draft
    BY <2>1 DEF RoleStep, KeepList
  <2>3. \A t \in Slots : t /= s => reqs'[t] = Idle /\ reqs[t] = Idle
    BY <1>0, <2>1, <2>2 DEF RolesInv
  <2>4. CASE r = Load /\ ui'.loading
    BY <1>0, <2>1, <2>2, <2>3, <2>4, LoadType DEF RolesInv
  <2>5. CASE /\ ui' = ui /\ r.op = "edit" /\ reqs[s].rows[r.id] /= "none" /\ r.val = reqs[s].rows[r.id]
             /\ r.id \in Ids /\ \A i \in Ids : r.rows[i] \in {"none", reqs[s].rows[i]}
    <3>1. ~ui.loading
      BY <1>0, <2>2, <2>3 DEF RolesInv
    <3>2. r.val /= ui.rows[r.id] /\ \A i \in Ids : r.rows[i] /= "none" => r.rows[i] /= ui.rows[i]
      BY <2>2, <2>5 DEF RolesInv
    <3> QED
      BY <1>0, <2>1, <2>2, <2>3, <2>5, <3>1, <3>2 DEF RolesInv
  <2> QED
    BY <2>1, <2>4, <2>5 DEF RoleStep
<1>10. ASSUME NEW s \in Slots, Serve(s)
       PROVE  RolesInv'
  <2>1. PICK r \in Request : Served(s, r) /\ Slot(s, r)
    BY <1>10, ServeSlot
  <2>2. /\ UNCHANGED <<page, ui>> /\ r.op = reqs[s].op /\ r.id = reqs[s].id /\ r.val = reqs[s].val
        /\ r.op /= "idle" /\ (r.op = "edit" => r.rows = reqs[s].rows)
    BY <2>1 DEF Served
  <2>3. reqs[s] /= Idle
    BY <1>0, <2>2
  <2> QED
    BY <2>1, <2>2, <2>3 DEF RolesInv
<1> QED
  BY <1>1, <1>2, <1>3, <1>4, <1>5, <1>6, <1>7, <1>8, <1>9, <1>10 DEF StepShape

\* No statement and no other user takes an acknowledgement back.
LEMMA AckedServed ==
  ASSUME BaseInv, NEW s \in Slots, NEW r \in Request, Served(s, r), page \in AckPages, NEW i \in Ids, Acked(i)
  PROVE  Acked(i)'
<1>1. /\ table \in Tables /\ r.op \in Ops /\ r.op /= "idle"
      /\ r.op \in {"edit", "patch", "remove", "drop"} => r.id \in Ids
      /\ r.op \in {"edit", "patch"} => r.val = "done"
      /\ r.op /= "put"
  BY FieldsTyped DEF BaseInv, PagesTypeOK, TypeOK, RequestsInv, Proper, Served, AckPages, Request
<1>2. CASE r.op \in {"load", "key"}
  BY <1>2 DEF Served, Acked
<1>3. CASE r.op = "create"
  BY <1>1, <1>3 DEF Served, Acked, Tables
<1>4. CASE r.op \in {"edit", "patch"}
  BY <1>1, <1>4 DEF Served, Acked, Tables
<1>5. CASE r.op \in {"remove", "drop"}
  BY <1>1, <1>5 DEF Served, Acked, Tables
<1>6. CASE r.op = "all"
  BY <1>1, <1>6 DEF Served, Acked
<1>7. CASE r.op = "batch"
  BY <1>1, <1>7 DEF Served, Acked, Tables
<1> QED
  BY <1>1, <1>2, <1>3, <1>4, <1>5, <1>6, <1>7 DEF Ops

LEMMA AckStep ==
  ASSUME BaseInv, AckInv, StepShape
  PROVE  AckInv'
<1> USE DEF Slot
<1>0. /\ Idle.op = "idle" /\ table \in Tables /\ ui.rows \in Rows /\ \A s \in Slots : reqs[s].rows \in Rows
  BY IdleType, FieldsTyped DEF BaseInv, PagesTypeOK, TypeOK
<1>1. CASE MountShape
  <2>1. LoadCategory(0).op = "load" /\ LoadCategory(0).rows = NoRows
    BY LoadType
  <2>2. page' \in AckPages => reqs' = [s \in Slots |-> IF s = 1 THEN LoadCategory(0) ELSE Idle]
    BY <1>1 DEF MountShape, AckPages
  <2>3. ui'.rows = NoRows
    BY <1>1 DEF MountShape
  <2> HIDE DEF LoadCategory
  <2> QED
    BY <1>0, <2>1, <2>2, <2>3, RowsTypes DEF AckInv
<1>2. CASE UserShape
  BY <1>2 DEF UserShape, UserOnly, AckInv, AckPages, Acked
<1>3. CASE ElseShape
  <2>1. UNCHANGED <<page, ui, reqs>>
    BY <1>3 DEF ElseShape, Elsewhere
  <2>2. page \in AckPages => \A i \in Ids : Acked(i) => Acked(i)'
    BY <1>0, <1>3 DEF ElseShape, Elsewhere, Acked, AckPages, Tables
  <2>3. SUFFICES ASSUME page \in AckPages PROVE AckInv'
    BY <2>1 DEF AckInv
  <2>4. \A s \in Slots : reqs[s].op = "patch" => reqs[s].id \in Ids
    BY DEF BaseInv, RequestsInv, Proper
  <2> QED
    BY <2>1, <2>2, <2>3, <2>4 DEF AckInv
<1>4. CASE Leave
  BY <1>4 DEF Leave, AckInv, AckPages
<1>5. ASSUME NEW r \in Request, SendShape(r)
      PROVE  AckInv'
  <2>1. PICK s \in Slots : Slot(s, r)
    BY <1>5, SendSlot
  <2>2. /\ UNCHANGED <<page, table>> /\ ui'.rows = ui.rows /\ ~r.done
        /\ r.op \in {"load", "batch"} => \A i \in Ids : r.rows[i] /= "done"
    BY <1>5, SendSlot DEF SendShape, KeepList
  <2> QED
    BY <2>1, <2>2 DEF AckInv, Acked
<1>6. ASSUME NEW i \in Ids, SetActiveType(i)
      PROVE  AckInv'
  BY <1>6 DEF SetActiveType, AckInv, AckPages
<1>7. ASSUME NEW s \in Slots, LoadDone(s)
      PROVE  AckInv'
  <2>1. Ends(s, "load")
    BY <1>7, LoadSlot
  <2>2. page \in AckPages => \A i \in Ids : ui'.rows[i] = "done" => Acked(i)
    <3>1. \A i \in Ids : ui'.rows[i] = "done" => reqs[s].rows[i] = "done"
      BY <1>7 DEF LoadDone, Latest, Newest, OpenOnly
    <3> QED
      BY <2>1, <3>1 DEF Ends, AckInv
  <2> QED
    BY <1>0, <2>1, <2>2 DEF Ends, AckInv, Acked
<1>8. ASSUME NEW s \in Slots, LoadFailed(s)
      PROVE  AckInv'
  <2>1. Ends(s, "load") /\ (ui'.rows = ui.rows \/ ui'.rows = NoRows)
    BY <1>8, LoadSlot DEF LoadFailed
  <2> QED
    BY <1>0, <2>1, RowsTypes DEF Ends, AckInv, Acked
<1>9. ASSUME NEW s \in Slots, ChangeDone(s)
      PROVE  AckInv'
  <2>1. reqs[s].tab \in Ids \union {0}
    BY FieldsTyped DEF BaseInv, PagesTypeOK
  <2>2. LoadCategory(reqs[s].tab).op = "load" /\ LoadCategory(reqs[s].tab).rows = NoRows
    BY <2>1, LoadType
  <2>3. UNCHANGED <<page, table>> /\ ui'.rows = ui.rows /\ Slot(s, LoadCategory(reqs[s].tab))
    BY <1>9, ChangeDoneSlot DEF ChangeDone, KeepList
  <2> QED
    BY <2>2, <2>3, RowsTypes DEF AckInv, Acked
<1>10. ASSUME NEW s \in Slots, ChangeFailed(s)
       PROVE  AckInv'
  BY <1>0, <1>10, ChangeFailedSlot DEF ChangeFailed, KeepList, Ends, AckInv, Acked
<1>11. ASSUME NEW s \in Slots, PatchDone(s)
       PROVE  AckInv'
  <2> SUFFICES ASSUME page \in AckPages PROVE AckInv'
    BY <1>11, PatchDoneSlot DEF Ends, AckInv
  <2>1. Ends(s, reqs[s].op) /\ reqs[s].op \in Patches /\ reqs[s].done
    BY <1>11, PatchDoneSlot
  <2>2. ASSUME NEW i \in Ids, ui'.rows[i] = "done"
        PROVE  Acked(i)
    <3>1. CASE ui.rows[i] /= "none" /\ Touches(s, i)
      <4>1. Result(s) = "done"
        BY <1>11, <2>2, <3>1 DEF PatchDone
      <4>2. /\ reqs[s].op = "all" => page = "Notifications"
            /\ reqs[s].op = "patch" => reqs[s].val = "done"
        BY DEF BaseInv, RequestsInv, Proper
      <4> QED
        BY <2>1, <3>1, <4>1, <4>2 DEF Touches, Result, AckInv
    <3>2. CASE ~(ui.rows[i] /= "none" /\ Touches(s, i))
      BY <1>11, <2>2, <3>2 DEF PatchDone, AckInv
    <3> QED
      BY <3>1, <3>2
  <2> QED
    BY <1>0, <2>1, <2>2 DEF Ends, AckInv, Acked
<1>12. ASSUME NEW s \in Slots, FailedInBatch(s)
       PROVE  AckInv'
  BY <1>12, BatchSlot DEF AckInv, Acked
<1>13. ASSUME NEW s \in Slots, RoleWritten(s)
       PROVE  AckInv'
  BY <1>13, RoleSlot DEF RoleStep, AckInv, AckPages
<1>14. ASSUME NEW s \in Slots, Serve(s)
       PROVE  AckInv'
  <2>1. PICK r \in Request : Served(s, r) /\ Slot(s, r)
    BY <1>14, ServeSlot
  <2>2. UNCHANGED <<page, ui>> /\ r.op = reqs[s].op
    BY <2>1 DEF Served
  <2> SUFFICES ASSUME page \in AckPages PROVE AckInv'
    BY <2>2 DEF AckInv
  <2>3. \A i \in Ids : Acked(i) => Acked(i)'
    BY <2>1, AckedServed
  <2>4. r.op = "load" => \A i \in Ids : r.rows[i] = "done" => Acked(i)'
    <3>1. table \in Tables /\ r.tab \in Ids \union {0}
      BY <2>1 DEF BaseInv, PagesTypeOK, TypeOK, Request
    <3> QED
      BY <2>1, <3>1, SelectedType DEF Served, Acked
  <2>5. r.op = "batch" => \A i \in Ids : r.rows[i] = "done" => Acked(i)'
    <3>1. SUFFICES ASSUME r.op = "batch", NEW i \in Ids, r.rows[i] = "done" PROVE Acked(i)'
      OBVIOUS
    <3>2. PICK j \in Ids : /\ table' = [table EXCEPT ![j] = "done"]
                           /\ r.rows = [reqs[s].rows EXCEPT ![j] = "done"]
      BY <2>1, <3>1 DEF Served
    <3>3. CASE i = j
      BY <1>0, <3>2, <3>3 DEF Tables, Acked
    <3>4. CASE i /= j
      <4>1. reqs[s].rows[i] = "done"
        BY <1>0, <3>1, <3>2, <3>4 DEF Rows
      <4>2. Acked(i)
        BY <2>2, <3>1, <4>1 DEF AckInv
      <4> QED
        BY <2>3, <4>2
    <3> QED
      BY <3>3, <3>4
  <2>6. r.op = "patch" => Acked(r.id)'
    <3>1. r.op = "patch" => r.id \in Ids /\ r.val = "done"
      <4>1. r.op = reqs[s].op /\ r.id = reqs[s].id /\ r.val = reqs[s].val
        BY <2>1 DEF Served
      <4>2. Proper(reqs[s])
        BY <1>14 DEF BaseInv, RequestsInv
      <4> QED
        BY <4>1, <4>2 DEF Proper
    <3> QED
      BY <1>0, <2>1, <3>1 DEF Served, Tables, Acked
  <2>7. \A t \in Slots : reqs[t].op = "patch" => reqs[t].id \in Ids
    BY DEF BaseInv, RequestsInv, Proper
  <2>8. \A i \in Ids : ui'.rows[i] = "done" => Acked(i)'
    BY <2>2, <2>3 DEF AckInv
  <2> DEFINE Kept(q) == /\ q.op \in {"load", "batch"} => \A i \in Ids : q.rows[i] = "done" => Acked(i)'
                        /\ q.op = "patch" /\ q.done => table'[q.id] \in {"done", "gone"}
  <2>9. ASSUME NEW t \in Slots
        PROVE  Kept(reqs'[t])
    <3>1. CASE t = s
      <4>1. Kept(r)
        BY <2>4, <2>5, <2>6 DEF Acked
      <4> QED
        BY <2>1, <3>1, <4>1
    <3>2. CASE t /= s
      <4>1. Kept(reqs[t])
        <5>1. reqs[t].op = "patch" /\ reqs[t].done => Acked(reqs[t].id)
          BY DEF AckInv
        <5>2. \A i \in Ids : Acked(i) => table'[i] \in {"done", "gone"}
          BY <2>3 DEF Acked
        <5> QED
          BY <2>3, <2>7, <5>1, <5>2 DEF AckInv
      <4> QED
        BY <2>1, <3>2, <4>1
    <3> QED
      BY <3>1, <3>2
  <2> QED
    BY <2>8, <2>9 DEF AckInv, Acked
<1> QED
  BY <1>1, <1>2, <1>3, <1>4, <1>5, <1>6, <1>7, <1>8, <1>9, <1>10, <1>11, <1>12, <1>13, <1>14 DEF StepShape

--------------------------------------------------------------------------------
(* The history variable: what it says of the requests under way.            *)

\* A page whose only request is a load has no overlap.
LEMMA NoOverlap ==
  ASSUME NEW rq, NEW s \in Slots, \A t \in Slots : t /= s => rq[t] = Idle
  PROVE  ~Overlap(rq)
<1>1. Idle.op = "idle"
  BY IdleType
<1> QED
  BY <1>1 DEF Overlap

\* Overlaps are told from what the requests ask for.
LEMMA SameOverlap ==
  ASSUME NEW rq, NEW s \in Slots, NEW r, rq[s] = r, \A t \in Slots : t /= s => rq[t] = reqs[t],
         r.op = reqs[s].op, r.op /= "patch" \/ (r.id = reqs[s].id /\ r.val = reqs[s].val)
  PROVE  Overlap(rq) <=> Overlap(reqs)
<1>1. \A t \in Slots : rq[t].op = reqs[t].op
  OBVIOUS
<1>2. \A t \in Slots : reqs[t].op = "patch" => rq[t].id = reqs[t].id /\ rq[t].val = reqs[t].val
  OBVIOUS
<1> QED
  BY <1>1, <1>2 DEF Overlap

LEMMA LappedStep ==
  ASSUME BaseInv, lapped' = Lapped(reqs')
  PROVE  /\ OverlapInv'
         /\ ~lapped' => ~Overlap(reqs') /\ (Alone(reqs') \/ ~lapped)
BY LappedType DEF BaseInv, PagesTypeOK, TypeOK, OverlapInv, Overlap

LEMMA OverlapStep ==
  ASSUME BaseInv, OverlapInv, StepShape
  PROVE  OverlapInv'
<1>0. 1 \in Slots
  BY PageAssumption DEF Slots
<1>1. CASE MountShape
  <2>1. \A t \in Slots : t /= 1 => reqs'[t] = Idle
    BY <1>1 DEF MountShape
  <2>2. ~Overlap(reqs')
    BY <1>0, <2>1, NoOverlap
  <2> QED
    BY <2>2 DEF OverlapInv, Overlap
<1>2. CASE UserShape \/ ElseShape
  <2>1. UNCHANGED reqs /\ (lapped' <=> lapped)
    BY <1>2 DEF UserShape, UserOnly, ElseShape, Elsewhere
  <2> QED
    BY <2>1 DEF OverlapInv, Overlap
<1>3. CASE Leave
  <2>1. ~Overlap(reqs')
    BY <1>0, <1>3, NoOverlap DEF Leave
  <2> QED
    BY <2>1 DEF OverlapInv, Overlap
<1>4. ASSUME NEW r \in Request, SendShape(r)
      PROVE  OverlapInv'
  BY <1>4, SendSlot, LappedStep
<1>5. ASSUME NEW i \in Ids, SetActiveType(i)
      PROVE  OverlapInv'
  <2>1. PICK s \in Slots : Slot(s, LoadCategory(i))
    BY <1>5, TabSlot
  <2>2. CASE Quiet
    <3>1. \A t \in Slots : t /= s => reqs'[t] = Idle
      BY <2>1, <2>2 DEF Slot, Quiet
    <3>2. ~Overlap(reqs')
      BY <3>1, NoOverlap
    <3> QED
      BY <3>2 DEF OverlapInv, Overlap
  <2>3. CASE ~Quiet
    BY <1>5, <2>3, TabSlot DEF OverlapInv
  <2> QED
    BY <2>2, <2>3
<1>6. ASSUME NEW s \in Slots,
             LoadDone(s) \/ LoadFailed(s) \/ ChangeDone(s) \/ ChangeFailed(s) \/ PatchDone(s) \/ RoleWritten(s)
      PROVE  OverlapInv'
  <2>1. lapped' = Lapped(reqs')
    BY <1>6, LoadSlot, ChangeDoneSlot, ChangeFailedSlot, PatchDoneSlot, RoleSlot DEF Ends, RoleStep
  <2> QED
    BY <2>1, LappedStep
<1>7. ASSUME NEW s \in Slots, FailedInBatch(s)
      PROVE  OverlapInv'
  <2>1. PICK r \in Request : Slot(s, r) /\ r.op = "batch"
    BY <1>7, BatchSlot
  <2>2. Overlap(reqs') <=> Overlap(reqs)
    BY <1>7, <2>1, BatchSlot, SameOverlap DEF Slot
  <2> QED
    BY <1>7, <2>2, BatchSlot DEF OverlapInv, Overlap
<1>8. ASSUME NEW s \in Slots, Serve(s)
      PROVE  OverlapInv'
  <2>1. PICK r \in Request : Served(s, r) /\ Slot(s, r)
    BY <1>8, ServeSlot
  <2>2. r.op = reqs[s].op /\ r.id = reqs[s].id /\ r.val = reqs[s].val /\ UNCHANGED lapped
    BY <2>1 DEF Served
  <2>3. Overlap(reqs') <=> Overlap(reqs)
    BY <2>1, <2>2, SameOverlap DEF Slot
  <2> QED
    BY <2>2, <2>3 DEF OverlapInv, Overlap
<1> QED
  BY <1>1, <1>2, <1>3, <1>4, <1>5, <1>6, <1>7, <1>8 DEF StepShape

\* One request is sent, goes on or ends, and its tab is the one it had.
LEMMA TabOneRequest ==
  ASSUME BaseInv, BaseInv', TabInv, NEW s \in Slots, NEW r, Slot(s, r), UNCHANGED page,
         ui'.tab = ui.tab, r = Idle \/ r.tab = ui.tab \/ (reqs[s] /= Idle /\ r.tab = reqs[s].tab),
         lapped' = Lapped(reqs') \/ lapped' = lapped
  PROVE  TabInv'
<1> SUFFICES ASSUME ~lapped', NEW t \in Slots, reqs'[t] /= Idle
             PROVE  reqs'[t].tab = ui'.tab
  BY DEF TabInv
<1>1. CASE page /= "Masters"
  BY <1>1 DEF BaseInv, PagesTypeOK, RequestsInv, Proper
<1>2. CASE ~lapped
  BY <1>2 DEF TabInv, Slot
<1>3. CASE Alone(reqs')
  <2>1. PICK q \in Slots : reqs'[q] = LoadCategory(ui.tab) /\ \A x \in Slots \ {q} : reqs'[x] = Idle
    BY <1>3 DEF Alone
  <2>2. reqs'[t] = LoadCategory(ui.tab)
    BY <2>1
  <2>3. LoadCategory(ui.tab).tab = ui.tab
    BY LoadType, FieldsTyped DEF BaseInv, PagesTypeOK
  <2> QED
    BY <2>2, <2>3
<1> QED
  BY <1>1, <1>2, <1>3, LappedStep

LEMMA TabStep ==
  ASSUME BaseInv, BaseInv', TabInv, StepShape
  PROVE  TabInv'
<1>0. 1 \in Slots /\ \A s \in Slots : reqs[s].op /= "idle" => reqs[s] /= Idle
  BY PageAssumption DEF Slots, BaseInv, RequestsInv
<1>1. CASE MountShape
  <2>1. ui'.tab \in Ids \union {0}
    BY <1>1, PageAssumption DEF MountShape
  <2>2. LoadCategory(ui'.tab).tab = ui'.tab
    BY <2>1, LoadType
  <2> QED
    BY <1>1, <2>2 DEF MountShape, TabInv
<1>2. CASE UserShape \/ ElseShape
  <2>1. UNCHANGED reqs /\ (lapped' <=> lapped) /\ ui'.tab = ui.tab
    BY <1>2 DEF UserShape, UserOnly, ElseShape, Elsewhere, BaseInv, PagesTypeOK, TypeOK, UiState
  <2> QED
    BY <2>1 DEF TabInv
<1>3. CASE Leave
  BY <1>3 DEF Leave, TabInv
<1>4. ASSUME NEW r \in Request, SendShape(r)
      PROVE  TabInv'
  BY <1>4, SendSlot, TabOneRequest DEF SendShape, KeepList
<1>5. ASSUME NEW i \in Ids, SetActiveType(i)
      PROVE  TabInv'
  <2>1. PICK s \in Slots : Slot(s, LoadCategory(i))
    BY <1>5, TabSlot
  <2>2. ~lapped' => \A t \in Slots : t /= s => reqs'[t] = Idle
    BY <1>5, <2>1, TabSlot DEF Slot, Quiet
  <2>3. LoadCategory(i).tab = ui'.tab
    BY <1>5, TabSlot, LoadType
  <2> QED
    BY <2>1, <2>2, <2>3 DEF TabInv, Slot
<1>6. ASSUME NEW s \in Slots, LoadDone(s) \/ LoadFailed(s) \/ ChangeFailed(s) \/ PatchDone(s)
      PROVE  TabInv'
  <2>1. Ends(s, reqs[s].op)
    BY <1>6, LoadSlot, ChangeFailedSlot, PatchDoneSlot DEF Ends
  <2>2. ui'.tab = ui.tab
    BY <1>6 DEF LoadDone, LoadFailed, LoadEnds, ChangeFailed, KeepList, PatchDone
  <2> QED
    BY <2>1, <2>2, TabOneRequest DEF Ends
<1>7. ASSUME NEW s \in Slots, ChangeDone(s)
      PROVE  TabInv'
  <2>1. reqs[s].tab \in Ids \union {0}
    BY FieldsTyped DEF BaseInv, PagesTypeOK
  <2>2. LoadCategory(reqs[s].tab).tab = reqs[s].tab /\ reqs[s] /= Idle
    BY <1>0, <1>7, <2>1, LoadType, ChangeDoneSlot DEF Reloads
  <2>3. ui'.tab = ui.tab
    BY <1>7 DEF ChangeDone, KeepList
  <2> QED
    BY <1>7, <2>2, <2>3, ChangeDoneSlot, TabOneRequest
<1>8. ASSUME NEW s \in Slots, FailedInBatch(s) \/ RoleWritten(s)
      PROVE  TabInv'
  <2>1. page' /= "Masters"
    BY <1>8, BatchSlot, RoleSlot DEF RoleStep
  <2> QED
    BY <2>1 DEF BaseInv, PagesTypeOK, RequestsInv, Proper, TabInv
<1>9. ASSUME NEW s \in Slots, Serve(s)
      PROVE  TabInv'
  <2>1. PICK r \in Request : Served(s, r) /\ Slot(s, r)
    BY <1>9, ServeSlot
  <2>2. /\ reqs[s].op /= "idle" /\ r.tab = reqs[s].tab /\ UNCHANGED <<page, ui, lapped>>
    BY <2>1 DEF Served
  <2> QED
    BY <1>0, <2>1, <2>2, TabOneRequest
<1> QED
  BY <1>1, <1>2, <1>3, <1>4, <1>5, <1>6, <1>7, <1>8, <1>9 DEF StepShape

--------------------------------------------------------------------------------
(***************************************************************************)
(* What is on the screen.  While no load is under way and no change waits  *)
(* for its reload, the list differs from the table only in rows that an    *)
(* answered request of the page is about to patch.                         *)
(***************************************************************************)

\* A page that waits for one load, not yet served, has nothing to keep.
LEMMA ScreenLone ==
  ASSUME NEW s \in Slots, reqs'[s].op = "load", ~reqs'[s].done,
         \A t \in Slots : t /= s => reqs'[t] = Idle
  PROVE  ScreenInv'
<1>1. Idle.op = "idle"
  BY IdleType
<1>2. LoadsCurrent' /\ ~NoLoad'
  BY <1>1 DEF LoadsCurrent, NoLoad
<1>3. PatchesStored'
  BY <1>1 DEF PatchesStored
<1> QED
  BY <1>2, <1>3 DEF ScreenInv

LEMMA ScreenAlone ==
  ASSUME BaseInv, Alone(reqs')
  PROVE  ScreenInv'
<1>1. PICK s \in Slots : reqs'[s] = LoadCategory(ui.tab) /\ \A t \in Slots \ {s} : reqs'[t] = Idle
  BY DEF Alone
<1>2. LoadCategory(ui.tab).op = "load" /\ ~LoadCategory(ui.tab).done
  BY LoadType, FieldsTyped DEF BaseInv, PagesTypeOK
<1> QED
  BY <1>1, <1>2, ScreenLone

\* What the server would answer depends on the page, its tab and the table.
LEMMA SameAnswers ==
  ASSUME UNCHANGED <<page, table>>, ui'.tab = ui.tab
  PROVE  Stored' = Stored /\ \A i \in Ids : Reached(i)' = Reached(i)
BY DEF Stored, Selected, Reached

LEMMA ScreenUser ==
  ASSUME BaseInv, ScreenInv, UserShape
  PROVE  ScreenInv'
<1>1. UNCHANGED <<page, table, reqs, lapped, stale>> /\ ui'.tab = ui.tab
  BY DEF UserShape, UserOnly
<1>2. /\ Dirty' = Dirty /\ NoLoad' = NoLoad /\ Stored' = Stored
      /\ \A i \in Ids : Covered(i)' = Covered(i) /\ Reached(i)' = Reached(i)
  BY <1>1, SameAnswers DEF Dirty, NoLoad, Covered
<1>3. LoadsCurrent' = LoadsCurrent /\ PatchesStored' = PatchesStored
  BY <1>1, <1>2 DEF LoadsCurrent, PatchesStored
<1>4. Matches => Matches'
  <2>1. CASE page = "Settings"
    BY <1>1, <2>1 DEF Matches, UserShape
  <2>2. CASE page /= "Settings"
    BY <1>1, <1>2, <2>2 DEF Matches, UserShape
  <2> QED
    BY <2>1, <2>2
<1> QED
  BY <1>1, <1>2, <1>3, <1>4 DEF ScreenInv

LEMMA ScreenSend ==
  ASSUME BaseInv, ScreenInv, NEW r \in Request, SendShape(r)
  PROVE  ScreenInv'
<1>1. PICK s \in Slots : Slot(s, r) /\ reqs[s] = Idle
  BY SendSlot
<1>2. UNCHANGED <<page, table, stale>> /\ lapped' = Lapped(reqs')
  BY SendSlot
<1> SUFFICES ASSUME page /= "Away", ~lapped, ~stale
             PROVE  ScreenInv'
  BY <1>2, LappedStep, ScreenAlone DEF ScreenInv
<1>3. /\ ~r.done /\ ui'.rows = ui.rows /\ ui'.tab = ui.tab /\ ui'.typed = ui.typed
      /\ r.op = "batch" => \A i \in Ids : r.rows[i] /= "done"
  BY DEF SendShape, KeepList
<1>4. Idle.op = "idle" /\ Idle.op \notin Reloads
  BY IdleType DEF Reloads
<1>5. /\ Dirty => Dirty'
      /\ NoLoad' => NoLoad
      /\ Stored' = Stored /\ \A i \in Ids : Reached(i)' = Reached(i)
  BY <1>1, <1>2, <1>3, <1>4, SameAnswers DEF Dirty, NoLoad, Slot
<1>6. \A i \in Ids : Covered(i) => Covered(i)'
  BY <1>1, <1>4 DEF Covered, Slot
<1>7. LoadsCurrent /\ PatchesStored /\ (NoLoad /\ ~Dirty => Matches)
  BY DEF ScreenInv
<1>8. LoadsCurrent'
  BY <1>1, <1>3, <1>5, <1>7 DEF LoadsCurrent, Slot
<1>9. PatchesStored'
  BY <1>1, <1>2, <1>3, <1>7 DEF PatchesStored, Slot
<1>10. Matches => Matches'
  <2>1. CASE page = "Notifications"
    <3>1. (\E t \in Slots : reqs[t].op = "all" /\ reqs[t].done) => \E t \in Slots : reqs'[t].op = "all" /\ reqs'[t].done
      BY <1>1, <1>4 DEF Slot
    <3> QED
      BY <1>2, <1>3, <1>5, <1>6, <2>1, <3>1 DEF Matches
  <2>2. CASE page /= "Notifications"
    BY <1>2, <1>3, <1>5, <1>6, <2>2 DEF Matches
  <2> QED
    BY <2>1, <2>2
<1> QED
  BY <1>5, <1>7, <1>8, <1>9, <1>10 DEF ScreenInv

LEMMA ScreenLoadDone ==
  ASSUME BaseInv, ScreenInv, NEW s \in Slots, LoadDone(s)
  PROVE  ScreenInv'
<1>1. Slot(s, Idle) /\ reqs[s].op = "load" /\ reqs[s].done /\ UNCHANGED <<page, table, stale>>
      /\ lapped' = Lapped(reqs')
  BY LoadSlot DEF Ends
<1> SUFFICES ASSUME page /= "Away", ~lapped, ~stale
             PROVE  ScreenInv'
  BY <1>1, LappedStep, ScreenAlone DEF ScreenInv
<1>2. Idle.op = "idle" /\ Idle.op \notin Reloads /\ reqs[s].op \notin Reloads
  BY <1>1, IdleType DEF Reloads
<1>3. ui'.tab = ui.tab
  BY DEF LoadDone, LoadEnds
<1>4. Dirty' = Dirty /\ Stored' = Stored
  BY <1>1, <1>2, <1>3, SameAnswers DEF Dirty, Slot
<1>5. LoadsCurrent /\ PatchesStored
  BY DEF ScreenInv
<1>6. LoadsCurrent' /\ PatchesStored'
  BY <1>1, <1>2, <1>4, <1>5 DEF LoadsCurrent, PatchesStored, Slot
<1>7. ~Dirty => Matches'
  <2> SUFFICES ASSUME ~Dirty PROVE Matches'
    OBVIOUS
  <2>1. reqs[s].rows = Stored
    BY <1>1, <1>5 DEF LoadsCurrent
  <2>2. CASE page = "Notifications"
    <3>1. ui'.rows = Latest(OpenOnly(Stored))
      BY <2>1, <2>2 DEF LoadDone
    <3>2. \A i \in Ids : ui'.rows[i] /= "done" /\ (ui'.rows[i] = "new" => Stored[i] = "new")
      BY <3>1 DEF Latest, Newest, OpenOnly
    <3> QED
      BY <1>1, <1>4, <2>2, <3>2 DEF Matches
  <2>3. CASE page /= "Notifications"
    <3>1. ui'.rows = Stored
      BY <2>1, <2>3 DEF LoadDone
    <3> QED
      BY <1>1, <1>4, <2>3, <3>1 DEF Matches
  <2> QED
    BY <2>2, <2>3
<1> QED
  BY <1>4, <1>6, <1>7 DEF ScreenInv

\* A change that is answered is followed by a load, the only one.
LEMMA ScreenReload ==
  ASSUME BaseInv, ScreenInv, NEW s \in Slots, NEW r, Slot(s, r), r.op = "load", ~r.done,
         UNCHANGED <<page, table, stale>>, lapped' = Lapped(reqs')
  PROVE  ScreenInv'
<1> SUFFICES ASSUME page /= "Away", ~lapped, ~stale, ~Overlap(reqs')
             PROVE  ScreenInv'
  BY LappedStep, ScreenAlone DEF ScreenInv
<1>1. \A t \in Slots : t /= s => reqs'[t].op /= "load"
  BY DEF Overlap, Slot
<1>2. LoadsCurrent' /\ ~NoLoad'
  BY <1>1 DEF LoadsCurrent, NoLoad, Slot
<1>3. PatchesStored
  BY DEF ScreenInv
<1>4. PatchesStored'
  BY <1>3 DEF PatchesStored, Slot
<1> QED
  BY <1>2, <1>4 DEF ScreenInv

LEMMA ScreenRole ==
  ASSUME BaseInv, ScreenInv, NEW s \in Slots, RoleWritten(s)
  PROVE  ScreenInv'
<1>1. PICK r \in Request : RoleStep(s, r) /\ Slot(s, r)
  BY RoleSlot
<1>2. page' = "Roles" /\ page = page' /\ table' = table /\ lapped' = Lapped(reqs') /\ (stale' = stale \/ stale')
  BY <1>1 DEF RoleStep
<1> SUFFICES ASSUME stale' = stale, page /= "Away", ~lapped, ~stale
             PROVE  ScreenInv'
  BY <1>2, LappedStep, ScreenAlone DEF ScreenInv
<1>3. CASE r = Load
  BY <1>1, <1>2, <1>3, ScreenReload, LoadType
<1>4. CASE r.op = "edit"
  <2>1. Dirty'
    BY <1>1, <1>2, <1>4 DEF Dirty, Slot, Reloads
  <2>2. PatchesStored
    BY DEF ScreenInv
  <2>3. PatchesStored'
    BY <1>1, <1>2, <1>4, <2>2 DEF PatchesStored, Slot
  <2> QED
    BY <2>1, <2>3 DEF ScreenInv, LoadsCurrent
<1> QED
  BY <1>1, <1>3, <1>4 DEF RoleStep

\* The rows of an answer on a page without tabs.
LEMMA StoredRow ==
  ASSUME BaseInv, page /= "Masters", NEW i \in Ids
  PROVE  /\ Reached(i) /\ table[i] /= "gone" => Stored[i] = table[i]
         /\ ~Reached(i) \/ table[i] = "gone" => Stored[i] = "none"
BY DEF BaseInv, PagesTypeOK, Stored, Selected, Reached, Category, Newest, Listed

\* The same of the next state, and how far the answer reaches when no row of
\* a list with a LIMIT comes or goes.
LEMMA StoredNext ==
  ASSUME BaseInv, page /= "Masters", UNCHANGED <<page, ui>>,
         page \in CutPanels =>
           \A j \in Ids : table'[j] \in {"none", "gone"} <=> table[j] \in {"none", "gone"}
  PROVE  \A i \in Ids : /\ Reached(i)' = Reached(i)
                        /\ Reached(i) /\ table'[i] /= "gone" => Stored'[i] = table'[i]
                        /\ ~Reached(i) \/ table'[i] = "gone" => Stored'[i] = "none"
<1>1. ASSUME page \in CutPanels, NEW i \in Ids
      PROVE  Newer(Listed(table'), i) = Newer(Listed(table), i)
  <2>1. \A j \in Ids : Listed(table')[j] = "none" <=> Listed(table)[j] = "none"
    BY <1>1 DEF Listed
  <2> QED
    BY <2>1 DEF Newer, Present
<1>2. \A i \in Ids : Reached(i)' = Reached(i)
  BY <1>1 DEF Reached
<1>3. ui'.tab = 0
  BY DEF BaseInv, PagesTypeOK
<1>4. \A i \in Ids : /\ Reached(i)' /\ table'[i] /= "gone" => Stored'[i] = table'[i]
                     /\ ~Reached(i)' \/ table'[i] = "gone" => Stored'[i] = "none"
  BY <1>3 DEF Stored, Selected, Reached, Category, Newest, Listed
<1> QED
  BY <1>2, <1>4

LEMMA ScreenPatchDone ==
  ASSUME BaseInv, ScreenInv, NEW s \in Slots, PatchDone(s)
  PROVE  ScreenInv'
<1>1. /\ Slot(s, Idle) /\ reqs[s].op \in Patches /\ reqs[s].done /\ UNCHANGED <<page, table, stale>>
      /\ lapped' = Lapped(reqs')
  BY PatchDoneSlot DEF Ends
<1> SUFFICES ASSUME page /= "Away", ~lapped, ~stale
             PROVE  ScreenInv'
  BY <1>1, LappedStep, ScreenAlone DEF ScreenInv
<1>2. /\ Idle.op = "idle" /\ Idle.op \notin Reloads /\ reqs[s].op \notin Reloads
      /\ reqs[s].op /= "load"
  BY <1>1, IdleType DEF Reloads, Patches
<1>3. ui'.tab = ui.tab
  BY DEF PatchDone
<1>4. /\ Dirty' = Dirty /\ Stored' = Stored /\ NoLoad' = NoLoad
      /\ \A i \in Ids : Reached(i)' = Reached(i)
  BY <1>1, <1>2, <1>3, SameAnswers DEF Dirty, Slot, NoLoad
<1>5. LoadsCurrent /\ PatchesStored /\ (NoLoad /\ ~Dirty => Matches)
  BY DEF ScreenInv
<1>6. LoadsCurrent' /\ PatchesStored'
  BY <1>1, <1>2, <1>4, <1>5 DEF LoadsCurrent, PatchesStored, Slot
<1>7. \A i \in Ids : Covered(i) => Covered(i)' \/ Touches(s, i)
  BY <1>1 DEF Covered, Touches, Slot
<1>8. /\ page /= "Settings" /\ page \notin {"Masters"} /\ (reqs[s].op = "all" => page = "Notifications")
      /\ reqs[s].op \in {"patch", "drop"} => reqs[s].id \in Ids
      /\ reqs[s].val /= "gone"
  <2>1. page /= "Settings" /\ Proper(reqs[s]) /\ reqs[s].val \in Values
    BY FieldsTyped DEF BaseInv, PagesTypeOK, RequestsInv, PatchDone
  <2> QED
    BY <1>1, <2>1 DEF Proper, Values, Patches
<1>9. \A i \in Ids : ui'.rows[i] = IF ui.rows[i] /= "none" /\ Touches(s, i) THEN Result(s) ELSE ui.rows[i]
  BY DEF PatchDone
<1>10. Matches => Matches'
  <2> SUFFICES ASSUME Matches PROVE Matches'
    OBVIOUS
  <2>1. CASE page = "Notifications"
    <3>1. \A i \in Ids : Touches(s, i) /\ ui.rows[i] /= "none" => ui'.rows[i] = "none"
      BY <1>9, <2>1 DEF Result
    <3>2. ASSUME NEW i \in Ids
          PROVE  /\ ui'.rows[i] /= "done"
                 /\ ui'.rows[i] = "new" => \/ Stored'[i] = "new" \/ Covered(i)'
                                           \/ \E t \in Slots : reqs'[t].op = "all" /\ reqs'[t].done
      <4>1. CASE Touches(s, i)
        BY <1>9, <2>1, <3>1, <4>1 DEF Matches
      <4>2. CASE ~Touches(s, i)
        <5>1. ui'.rows[i] = ui.rows[i] /\ reqs[s].op /= "all"
          BY <1>9, <4>2 DEF Touches
        <5>2. (\E t \in Slots : reqs[t].op = "all" /\ reqs[t].done)
                => \E t \in Slots : reqs'[t].op = "all" /\ reqs'[t].done
          BY <1>1, <5>1 DEF Slot
        <5> QED
          BY <1>4, <1>7, <2>1, <4>2, <5>1, <5>2 DEF Matches
      <4> QED
        BY <4>1, <4>2
    <3> QED
      BY <1>1, <2>1, <3>2 DEF Matches
  <2>2. CASE page /= "Notifications"
    <3>1. ASSUME NEW i \in Ids, ui.rows[i] /= "none", Touches(s, i)
          PROVE  Result(s) = Stored[i]
      <4>0. Reached(i)
        BY <1>8, <2>2, <3>1, StoredRow DEF Matches
      <4>1. Stored[i] = IF table[i] = "gone" THEN "none" ELSE table[i]
        BY <1>8, <4>0, StoredRow
      <4>2. CASE reqs[s].op = "patch"
        BY <1>1, <1>5, <1>8, <2>2, <3>1, <4>1, <4>2 DEF Touches, Result, PatchesStored
      <4>3. CASE reqs[s].op = "drop"
        BY <1>1, <1>5, <3>1, <4>1, <4>3 DEF Touches, Result, PatchesStored
      <4>4. CASE reqs[s].op = "batch"
        BY <1>1, <1>5, <2>2, <3>1, <4>1, <4>4 DEF Touches, Result, PatchesStored
      <4> QED
        BY <1>1, <1>8, <2>2, <4>2, <4>3, <4>4 DEF Patches
    <3>2. \A i \in Ids : ui.rows[i] = Stored[i] \/ (ui.rows[i] /= "none" /\ Covered(i) /\ Reached(i))
      BY <1>8, <2>2 DEF Matches
    <3>3. \A i \in Ids : \/ ui'.rows[i] = Stored[i]
                         \/ ui'.rows[i] /= "none" /\ Covered(i)' /\ Reached(i)'
      BY <1>4, <1>7, <1>9, <3>1, <3>2
    <3> QED
      BY <1>1, <1>4, <2>2, <3>3 DEF Matches
  <2> QED
    BY <2>1, <2>2
<1> QED
  BY <1>4, <1>5, <1>6, <1>10 DEF ScreenInv

\* The server has answered a change that a reload will follow.
LEMMA ScreenServeReload ==
  ASSUME BaseInv, ScreenInv, NEW s \in Slots, NEW r \in Request, Served(s, r), Slot(s, r),
         r.op \in Reloads
  PROVE  ScreenInv'
<1>1. /\ UNCHANGED <<page, ui, lapped>> /\ r.done /\ r.op = reqs[s].op /\ r.id = reqs[s].id
      /\ stale' = (stale /\ TRUE) /\ table \in Tables
  BY DEF Served, Reloads, BaseInv, PagesTypeOK, TypeOK
<1> SUFFICES ASSUME page /= "Away", ~lapped, ~stale
             PROVE  ScreenInv'
  BY <1>1 DEF ScreenInv
<1>2. Dirty'
  BY <1>1 DEF Dirty, Slot
<1>3. PatchesStored
  BY DEF ScreenInv
<1>4. PatchesStored'
  <2>0. Proper(reqs[s]) /\ \A t \in Slots : Proper(reqs[t])
    BY DEF BaseInv, RequestsInv
  <2>1. CASE r.op = "create"
    <3>1. PICK i \in Ids : table[i] = "none" /\ table' = [table EXCEPT ![i] = "new"]
      BY <2>1 DEF Served
    <3>2. \A t \in Slots : /\ reqs[t].op \notin {"patch", "batch"}
                           /\ reqs[t].op = "drop" => reqs[t].id \in Ids
      BY <1>1, <2>0, <2>1 DEF Proper
    <3> QED
      BY <1>1, <1>3, <2>1, <3>1, <3>2 DEF PatchesStored, Slot, Tables
  <2>2. CASE r.op /= "create"
    <3>1. \A t \in Slots : reqs[t].op \notin {"patch", "batch", "drop"}
      BY <1>1, <2>0, <2>2 DEF Proper, Reloads
    <3> QED
      BY <1>1, <3>1 DEF PatchesStored, Slot, Reloads
  <2> QED
    BY <2>1, <2>2
<1> QED
  BY <1>2, <1>4 DEF ScreenInv, LoadsCurrent

LEMMA ScreenServeLoad ==
  ASSUME BaseInv, OverlapInv, TabInv, NEW s \in Slots, NEW r \in Request, Served(s, r), Slot(s, r),
         r.op = "load"
  PROVE  ScreenInv'
<1>1. /\ UNCHANGED <<page, ui, lapped, table>> /\ r.op = reqs[s].op /\ r.tab = reqs[s].tab
      /\ r.rows = Selected(r.tab)
  BY DEF Served
<1> SUFFICES ASSUME ~lapped
             PROVE  ScreenInv'
  BY <1>1 DEF ScreenInv
<1>2. reqs[s] /= Idle
  BY <1>1, IdleType
<1>3. r.tab = ui.tab
  BY <1>1, <1>2 DEF TabInv
<1>4. r.rows = Stored'
  BY <1>1, <1>3 DEF Stored, Selected
<1>5. \A t \in Slots : t /= s => reqs[t].op \notin {"load", "patch", "drop", "batch", "all"}
  BY <1>1 DEF OverlapInv, Overlap
<1>6. LoadsCurrent' /\ ~NoLoad' /\ PatchesStored'
  BY <1>4, <1>5 DEF LoadsCurrent, NoLoad, PatchesStored, Slot
<1> QED
  BY <1>6 DEF ScreenInv

LEMMA ScreenServeKey ==
  ASSUME BaseInv, ScreenInv, NEW s \in Slots, NEW r \in Request, Served(s, r), Slot(s, r),
         r.op = "key"
  PROVE  ScreenInv'
<1>1. /\ UNCHANGED <<page, ui, lapped, table>> /\ r.op = reqs[s].op /\ stale' = (stale /\ TRUE)
  BY DEF Served
<1>2. page /= "Notifications"
  BY <1>1 DEF BaseInv, RequestsInv, Proper
<1> SUFFICES ASSUME page /= "Away", ~lapped, ~stale
             PROVE  ScreenInv'
  BY <1>1 DEF ScreenInv
<1>3. LoadsCurrent /\ PatchesStored /\ (NoLoad /\ ~Dirty => Matches)
  BY DEF ScreenInv
<1>4. /\ Dirty' = Dirty /\ Stored' = Stored /\ NoLoad' = NoLoad
      /\ \A i \in Ids : (Covered(i) => Covered(i)') /\ Reached(i)' = Reached(i)
  BY <1>1, SameAnswers DEF Dirty, NoLoad, Covered, Slot, Reloads
<1>5. LoadsCurrent' /\ PatchesStored'
  BY <1>1, <1>3, <1>4 DEF LoadsCurrent, PatchesStored, Slot
<1>6. Matches => Matches'
  BY <1>1, <1>2, <1>4 DEF Matches
<1> QED
  BY <1>3, <1>4, <1>5, <1>6 DEF ScreenInv

\* The server has answered a change that the page will patch into its list.
LEMMA ScreenServePatch ==
  ASSUME BaseInv, OverlapInv, ScreenInv, NEW s \in Slots, NEW r \in Request, Served(s, r), Slot(s, r),
         r.op \in Patches
  PROVE  ScreenInv'
<1>1. /\ UNCHANGED <<page, ui, lapped>> /\ r.op = reqs[s].op /\ r.id = reqs[s].id /\ r.val = reqs[s].val
      /\ stale' = (stale /\ TRUE) /\ table \in Tables /\ ~reqs[s].done /\ reqs[s].rows \in Rows
      /\ (r.op /= "batch" => r.done) /\ r.val \in Values
  BY FieldsTyped DEF Served, Patches, BaseInv, PagesTypeOK, TypeOK
<1> SUFFICES ASSUME page /= "Away", ~lapped, ~stale
             PROVE  ScreenInv'
  BY <1>1 DEF ScreenInv
<1>2. PatchesStored /\ (NoLoad /\ ~Dirty => Matches) /\ ~Overlap(reqs)
  BY DEF ScreenInv, OverlapInv
<1>3. \A t \in Slots : reqs[t].op /= "load" /\ reqs'[t].op /= "load"
  BY <1>1, <1>2 DEF Overlap, Slot, Patches
<1>4. LoadsCurrent' /\ NoLoad /\ (~Dirty' => ~Dirty)
  BY <1>1, <1>3 DEF LoadsCurrent, NoLoad, Dirty, Slot, Patches, Reloads
<1>5. \A t \in Slots : Proper(reqs[t])
  BY DEF BaseInv, RequestsInv
<1>6. /\ r.op \in {"patch", "drop"} => r.id \in Ids
      /\ page /= "Masters" /\ page /= "Settings"
      /\ r.op = "all" => page = "Notifications"
      /\ r.op = "batch" => page = "Alarms"
      /\ r.op = "drop" => page \in {"Devices", "Zones"}
      /\ r.op = "patch" => page \in {"Attention", "Notifications", "Alarms", "Rules"}
      /\ r.op = "patch" /\ page /= "Rules" => r.val = "done"
  BY <1>1, <1>5 DEF Proper, Patches, AckPages
<1>7. \A t \in Slots : /\ reqs[t].op \in {"patch", "drop"} => reqs[t].id \in Ids
                       /\ reqs[t].op = "batch" => page = "Alarms"
                       /\ reqs[t].op = "drop" => page \in {"Devices", "Zones"}
                       /\ reqs[t].op = "patch" => page \in {"Attention", "Notifications", "Alarms", "Rules"}
                       /\ reqs[t].op = "patch" /\ page /= "Rules" => reqs[t].val = "done"
  BY <1>5 DEF Proper, AckPages
<1>8. \A i \in Ids : /\ Reached(i) /\ table[i] /= "gone" => Stored[i] = table[i]
                     /\ ~Reached(i) \/ table[i] = "gone" => Stored[i] = "none"
  BY <1>6, StoredRow
<1> DEFINE Steady == page \in CutPanels =>
                       \A j \in Ids : table'[j] \in {"none", "gone"} <=> table[j] \in {"none", "gone"}
<1>9. ASSUME Steady
      PROVE  \A i \in Ids : /\ Reached(i)' = Reached(i)
                            /\ Reached(i) /\ table'[i] /= "gone" => Stored'[i] = table'[i]
                            /\ ~Reached(i) \/ table'[i] = "gone" => Stored'[i] = "none"
  BY <1>1, <1>6, <1>9, StoredNext
<1>10. CASE r.op = "patch"
  <2>1. table[r.id] \in {"new", "done"} /\ table' = [table EXCEPT ![r.id] = r.val]
    BY <1>10 DEF Served
  <2>2. \A i \in Ids : i /= r.id => table'[i] = table[i]
    BY <1>1, <1>6, <1>10, <2>1 DEF Tables
  <2>3. table'[r.id] = r.val
    BY <1>1, <1>6, <1>10, <2>1 DEF Tables
  <2>4. \A t \in Slots : t /= s /\ reqs[t].op = "patch" /\ reqs[t].id = r.id => reqs[t].val = r.val
    BY <1>1, <1>2, <1>10 DEF Overlap
  <2>5. PatchesStored'
    <3>1. ASSUME NEW t \in Slots, reqs'[t].op = "patch", reqs'[t].done
          PROVE  table'[reqs'[t].id] = reqs'[t].val
      BY <1>2, <1>7, <2>2, <2>3, <2>4, <3>1 DEF PatchesStored, Slot
    <3>2. ASSUME NEW t \in Slots PROVE reqs'[t].op /= "drop"
      BY <1>6, <1>7, <1>10 DEF Slot
    <3>3. ASSUME NEW t \in Slots, reqs'[t].op = "batch", NEW i \in Ids, reqs'[t].rows[i] = "done"
          PROVE  table'[i] = "done"
      <4>1. t /= s /\ reqs'[t] = reqs[t] /\ page = "Alarms"
        BY <1>7, <1>10, <3>3 DEF Slot
      <4> QED
        BY <1>2, <1>6, <1>10, <2>2, <2>3, <3>3, <4>1 DEF PatchesStored
    <3> QED
      BY <3>1, <3>2, <3>3 DEF PatchesStored
  <2>6. Covered(r.id)' /\ \A i \in Ids : Covered(i) => Covered(i)'
    BY <1>1, <1>10 DEF Covered, Slot
  <2>7. Steady
    BY <1>6, <1>10, <2>1, <2>2, <2>3 DEF CutPanels
  <2>8. Matches => Matches'
    <3>0. \A i \in Ids : /\ Reached(i)' = Reached(i)
                         /\ i /= r.id => Stored'[i] = Stored[i]
                         /\ Stored[i] /= "none" => Reached(i)
                         /\ Stored[r.id] = "none" => ~Reached(r.id)
                         /\ ~Reached(i) => Stored'[i] = "none"
      BY <1>6, <1>8, <1>9, <1>10, <2>1, <2>2, <2>7
    <3>1. CASE page = "Notifications"
      <4>1. (\E t \in Slots : reqs[t].op = "all" /\ reqs[t].done)
              => \E t \in Slots : reqs'[t].op = "all" /\ reqs'[t].done
        BY <1>1, <1>10 DEF Slot
      <4> QED
        BY <1>1, <2>6, <3>0, <3>1, <4>1 DEF Matches
    <3>2. CASE page /= "Notifications"
      BY <1>1, <1>6, <2>6, <3>0, <3>2 DEF Matches
    <3> QED
      BY <3>1, <3>2
  <2> QED
    BY <1>2, <1>4, <2>5, <2>8 DEF ScreenInv
<1>11. CASE r.op = "drop"
  <2>1. table' = [table EXCEPT ![r.id] = "gone"]
    BY <1>11 DEF Served
  <2>2. table'[r.id] = "gone" /\ \A i \in Ids : i /= r.id => table'[i] = table[i]
    BY <1>1, <1>6, <1>11, <2>1 DEF Tables
  <2>3. \A t \in Slots : reqs[t].op \notin {"patch", "batch", "all"}
    BY <1>5, <1>6, <1>7, <1>11 DEF Proper
  <2>4. PatchesStored'
    BY <1>2, <1>7, <1>11, <2>2, <2>3 DEF PatchesStored, Slot
  <2>5. Covered(r.id)' /\ \A i \in Ids : Covered(i) => Covered(i)'
    BY <1>1, <1>11 DEF Covered, Slot
  <2>6. Matches => Matches'
    <3>1. page \notin CutPanels /\ page /= "Notifications"
      BY <1>6, <1>11 DEF CutPanels
    <3>2. \A i \in Ids : Reached(i) /\ Reached(i)' /\ (i /= r.id => Stored'[i] = Stored[i])
      BY <1>1, <1>8, <1>9, <2>2, <3>1 DEF Reached
    <3>3. Stored'[r.id] = "none"
      BY <1>6, <1>9, <1>11, <2>2, <3>1
    <3> QED
      BY <1>1, <1>6, <2>5, <3>1, <3>2, <3>3 DEF Matches
  <2> QED
    BY <1>2, <1>4, <2>4, <2>6 DEF ScreenInv
<1>12. CASE r.op = "batch"
  <2>1. PICK j \in Ids : /\ reqs[s].rows[j] = "new" /\ table[j] \in {"new", "done"}
                         /\ table' = [table EXCEPT ![j] = "done"]
                         /\ r.rows = [reqs[s].rows EXCEPT ![j] = "done"]
    BY <1>12 DEF Served
  <2>2. /\ table'[j] = "done" /\ \A i \in Ids : i /= j => table'[i] = table[i]
        /\ r.rows[j] = "done" /\ \A i \in Ids : i /= j => r.rows[i] = reqs[s].rows[i]
    BY <1>1, <2>1 DEF Tables, Rows
  <2>3. page = "Alarms" /\ \A t \in Slots : reqs'[t].op /= "drop"
    BY <1>6, <1>7, <1>12 DEF Slot
  <2>4. PatchesStored'
    <3>1. ASSUME NEW t \in Slots, reqs'[t].op = "patch", reqs'[t].done
          PROVE  table'[reqs'[t].id] = reqs'[t].val
      <4>1. t /= s /\ reqs'[t] = reqs[t]
        BY <1>12, <3>1 DEF Slot
      <4> QED
        BY <1>2, <1>7, <2>2, <2>3, <3>1, <4>1 DEF PatchesStored
    <3>2. ASSUME NEW t \in Slots, reqs'[t].op = "batch", NEW i \in Ids, reqs'[t].rows[i] = "done"
          PROVE  table'[i] = "done"
      <4>1. \A k \in Ids : table[k] = "done" => table'[k] = "done"
        BY <2>2
      <4>2. CASE t = s
        <5>1. reqs[s].op = "batch" /\ r.rows[i] = "done"
          BY <1>1, <1>12, <3>2, <4>2 DEF Slot
        <5> QED
          BY <1>2, <2>2, <4>1, <5>1 DEF PatchesStored
      <4>3. CASE t /= s
        <5>1. reqs[t].op = "batch" /\ reqs[t].rows[i] = "done"
          BY <3>2, <4>3 DEF Slot
        <5> QED
          BY <1>2, <4>1, <5>1 DEF PatchesStored
      <4> QED
        BY <4>2, <4>3
    <3> QED
      BY <2>3, <3>1, <3>2 DEF PatchesStored
  <2>5. Covered(j)' /\ \A i \in Ids : Covered(i) => Covered(i)'
    BY <1>1, <1>12, <2>2 DEF Covered, Slot
  <2>6. Matches => Matches'
    <3>1. Steady
      BY <2>1, <2>2
    <3>2. \A i \in Ids : /\ Reached(i)' = Reached(i)
                         /\ i /= j => Stored'[i] = Stored[i]
                         /\ Stored[i] /= "none" => Reached(i)
                         /\ Stored[j] = "none" => ~Reached(j)
                         /\ ~Reached(i) => Stored'[i] = "none"
      BY <1>8, <1>9, <2>1, <2>2, <3>1
    <3> QED
      BY <1>1, <2>3, <2>5, <3>2 DEF Matches
  <2> QED
    BY <1>2, <1>4, <2>4, <2>6 DEF ScreenInv
<1>13. CASE r.op = "all"
  <2>1. table' = [i \in Ids |-> IF table[i] = "new" THEN "done" ELSE table[i]] /\ page = "Notifications"
    BY <1>6, <1>13 DEF Served
  <2>2. PatchesStored'
    BY <1>2, <1>7, <1>13, <2>1 DEF PatchesStored, Slot
  <2>3. Matches => Matches'
    BY <1>1, <1>13, <2>1 DEF Matches, Slot
  <2> QED
    BY <1>2, <1>4, <2>2, <2>3 DEF ScreenInv
<1> QED
  BY <1>10, <1>11, <1>12, <1>13 DEF Patches

LEMMA ScreenStep ==
  ASSUME BaseInv, OverlapInv, TabInv, ScreenInv, StepShape
  PROVE  ScreenInv'
<1>1. CASE MountShape
  <2>1. 1 \in Slots /\ ui'.tab \in Ids \union {0}
    BY <1>1, PageAssumption DEF MountShape, Slots
  <2>2. LoadCategory(ui'.tab).op = "load" /\ ~LoadCategory(ui'.tab).done
    BY <2>1, LoadType
  <2>3. /\ reqs'[1].op = "load" /\ ~reqs'[1].done
        /\ \A t \in Slots : t /= 1 => reqs'[t] = Idle
    BY <1>1, <2>1, <2>2 DEF MountShape
  <2> QED
    BY <2>1, <2>3, ScreenLone
<1>2. CASE UserShape
  BY <1>2, ScreenUser
<1>3. CASE ElseShape \/ Leave
  BY <1>3 DEF ElseShape, Elsewhere, Leave, ScreenInv
<1>4. ASSUME NEW r \in Request, SendShape(r)
      PROVE  ScreenInv'
  BY <1>4, ScreenSend
<1>6. ASSUME NEW i \in Ids, SetActiveType(i)
      PROVE  ScreenInv'
  <2>1. PICK s \in Slots : Slot(s, LoadCategory(i))
    BY <1>6, TabSlot
  <2>2. CASE Quiet
    BY <2>1, <2>2, ScreenLone, LoadType DEF Slot, Quiet
  <2>3. CASE ~Quiet
    BY <1>6, <2>3, TabSlot DEF ScreenInv
  <2> QED
    BY <2>2, <2>3
<1>7. ASSUME NEW s \in Slots, LoadDone(s)
      PROVE  ScreenInv'
  BY <1>7, ScreenLoadDone
<1>8. ASSUME NEW s \in Slots, LoadFailed(s) \/ ChangeFailed(s) \/ FailedInBatch(s)
      PROVE  ScreenInv'
  BY <1>8, LoadSlot, ChangeFailedSlot, BatchSlot DEF ScreenInv
<1>9. ASSUME NEW s \in Slots, ChangeDone(s)
      PROVE  ScreenInv'
  <2>1. reqs[s].tab \in Ids \union {0}
    BY FieldsTyped DEF BaseInv, PagesTypeOK
  <2>2. LoadCategory(reqs[s].tab).op = "load" /\ ~LoadCategory(reqs[s].tab).done
    BY <2>1, LoadType
  <2> QED
    BY <1>9, <2>2, ChangeDoneSlot, ScreenReload
<1>10. ASSUME NEW s \in Slots, PatchDone(s)
       PROVE  ScreenInv'
  BY <1>10, ScreenPatchDone
<1>11. ASSUME NEW s \in Slots, RoleWritten(s)
       PROVE  ScreenInv'
  BY <1>11, ScreenRole
<1>12. ASSUME NEW s \in Slots, Serve(s)
       PROVE  ScreenInv'
  <2>1. PICK r \in Request : Served(s, r) /\ Slot(s, r)
    BY <1>12, ServeSlot
  <2>2. r.op \in Reloads \union Patches \union {"load", "key"}
    <3>1. r.op \in Ops /\ r.op /= "idle"
      BY <2>1 DEF Served, Request
    <3> QED
      BY <3>1 DEF Ops, Reloads, Patches
  <2> QED
    BY <2>1, <2>2, ScreenServeReload, ScreenServeLoad, ScreenServeKey, ScreenServePatch
<1> QED
  BY <1>1, <1>2, <1>3, <1>4, <1>6, <1>7, <1>8, <1>9, <1>10, <1>11, <1>12 DEF StepShape

--------------------------------------------------------------------------------
(* The theorems about states.                                               *)

PagesInv ==
  /\ BaseInv /\ LoadingInv /\ BusyInv /\ RolesInv /\ AckInv
  /\ OverlapInv /\ TabInv /\ ScreenInv

LEMMA PagesInit ==
  Init => PagesInv
<1> SUFFICES ASSUME Init PROVE PagesInv
  OBVIOUS
<1>1. BaseInv
  BY BaseInit
<1>2. LoadingInv
  BY BlankType DEF Init, LoadingInv, Unpolled
<1>3. BusyInv /\ RolesInv /\ AckInv
  BY DEF Init, BusyInv, RolesInv, AckInv, BusyPages, AckPages
<1>4. 1 \in Slots
  BY PageAssumption DEF Slots
<1>5. OverlapInv
  BY <1>4, NoOverlap DEF Init, OverlapInv
<1>6. TabInv /\ ScreenInv
  BY DEF Init, TabInv, ScreenInv
<1> QED
  BY <1>1, <1>2, <1>3, <1>5, <1>6 DEF PagesInv

LEMMA PagesStutter ==
  ASSUME PagesInv, UNCHANGED vars
  PROVE  PagesInv'
<1> USE DEF vars
<1>1. BaseInv'
  BY DEF PagesInv, BaseInv, PagesTypeOK, TypeOK, RequestsInv, Proper
<1>2. LoadingInv' /\ BusyInv' /\ RolesInv'
  BY DEF PagesInv, LoadingInv, BusyInv, RolesInv
<1>3. AckInv' /\ OverlapInv' /\ TabInv'
  BY DEF PagesInv, AckInv, Acked, OverlapInv, Overlap, TabInv
<1>4. ScreenInv'
  BY DEF PagesInv, ScreenInv, LoadsCurrent, PatchesStored, NoLoad, Dirty, Matches, Covered, Stored, Selected,
     Reached
<1> QED
  BY <1>1, <1>2, <1>3, <1>4 DEF PagesInv

\* What holds between the state of a mounted page, its fetchWithAuth requests
\* under way and the server's table; the next four theorems follow from it.
THEOREM PagesInvariant ==
  Spec => []PagesInv
<1>1. PagesInv /\ [Next]_vars => PagesInv'
  <2> SUFFICES ASSUME PagesInv, [Next]_vars PROVE PagesInv'
    OBVIOUS
  <2>1. CASE Next
    <3>1. StepShape /\ BaseInv
      BY <2>1, NextShaped DEF PagesInv
    <3>2. BaseInv'
      BY <3>1, BaseStep
    <3>3. LoadingInv' /\ BusyInv' /\ RolesInv' /\ AckInv'
      BY <3>1, LoadingStep, BusyStep, RolesStep, AckStep DEF PagesInv
    <3>4. OverlapInv' /\ TabInv' /\ ScreenInv'
      BY <3>1, <3>2, OverlapStep, TabStep, ScreenStep DEF PagesInv
    <3> QED
      BY <3>2, <3>3, <3>4 DEF PagesInv
  <2>2. CASE UNCHANGED vars
    BY <2>2, PagesStutter
  <2> QED
    BY <2>1, <2>2
<1> QED
  BY <1>1, PagesInit, PTL DEF Spec

\* "Loading..." is shown only while a load is under way, and a form with a
\* submitting flag is locked exactly while its one request is (the finally
\* blocks of loadData and of the submit handlers).
THEOREM FlagsAlwaysMatch ==
  Spec => []FlagsMatchRequests
<1>1. PagesInv => FlagsMatchRequests
  <2> SUFFICES ASSUME PagesInv PROVE FlagsMatchRequests
    OBVIOUS
  <2>1. ui.loading => \E s \in Slots : reqs[s].op = "load"
    BY DEF PagesInv, LoadingInv
  <2>2. ASSUME page \in BusyPages
        PROVE  (ui.busy <=> Submitted /= {}) /\ Cardinality(Submitted) <= 1
    <3>1. ui.busy <=> Submitted /= {}
      BY <2>2 DEF PagesInv, BusyInv, Submitted, Submits
    <3>2. CASE Submitted = {}
      BY <3>1, <3>2, FS_EmptySet
    <3>3. CASE Submitted /= {}
      <4>1. PICK s : s \in Submitted
        BY <3>3
      <4>2. Submitted = {s}
        BY <2>2, <4>1 DEF PagesInv, BusyInv, Submitted, Submits
      <4>3. Cardinality(Submitted) = 1
        BY <4>2, FS_Singleton
      <4> QED
        BY <3>1, <4>3
    <3> QED
      BY <3>2, <3>3
  <2> QED
    BY <2>1, <2>2 DEF FlagsMatchRequests, BusyPages
<1> QED
  BY <1>1, PagesInvariant, PTL

\* Saving the permission matrix writes only roles that differ from what was
\* loaded, whichever of the writes fail (RoleRightsPage.tsx, handleSave).
THEOREM OnlyChangedRolesAreWritten ==
  Spec => []OnlyChangedRolesWritten
<1>1. PagesInv => OnlyChangedRolesWritten
  BY DEF PagesInv, RolesInv, OnlyChangedRolesWritten
<1> QED
  BY <1>1, PagesInvariant, PTL

\* What AlertsPage.tsx, DashboardPage.tsx and RemindersPage.tsx show as
\* acknowledged is acknowledged on the server, or gone.
THEOREM AcksShownAreStored ==
  Spec => []AckShownIsStored
<1>1. PagesInv => AckShownIsStored
  BY DEF PagesInv, AckInv, AckPages, Acked, AckShownIsStored
<1> QED
  BY <1>1, PagesInvariant, PTL

\* A page that is not loading shows its rows; the attention list shows those
\* that are open and the permission matrix its draft.
LEMMA ScreenRows ==
  ASSUME page \in Panels, ~ui.loading
  PROVE  Screen = CASE page = "Attention" -> OpenOnly(ui.rows)
                    [] page = "Roles" -> ui.draft
                    [] OTHER -> ui.rows
<1>1. TableBody = ui.rows
  BY DEF TableBody
<1>2. CASE page \in ClientPanels
  <2>1. Screen = ClientScreen
    BY <1>2 DEF Screen
  <2>2. ClientScreen = CASE page = "Attention" -> OpenOnly(ui.rows) [] OTHER -> ui.rows
    BY <1>1, <1>2 DEF ClientScreen, ClientPanels, DevicesTable, ComplaintsTable, GuestsTable, RemindersTable,
       ZonesTable, TripsTable, TyresTable, VouchersTable, PassesTable, AttentionAlerts, NotificationsTable,
       AlarmsTable, RulesTable, ControlTable, UnitsTable
  <2> QED
    BY <1>2, <2>1, <2>2 DEF ClientPanels
<1>3. CASE page \in AdminPanels
  <2>1. Screen = AdminScreen
    BY <1>3 DEF Screen, AdminPanels, ClientPanels
  <2>2. AdminScreen = CASE page = "Roles" -> ui.draft [] OTHER -> ui.rows
    BY <1>1, <1>3 DEF AdminScreen, AdminPanels, BillingTable, ExtensionsTable, TollsTable, WarrantyTable,
       InventoryTable, CompaniesGrid, MastersTable, RolesTable, RawDataTable
  <2> QED
    BY <1>3, <2>1, <2>2 DEF AdminPanels
<1> QED
  BY <1>2, <1>3 DEF Panels

\* Every page of both applications, once its requests have ended, shows what
\* the server would answer: reloads and local patches (setX(prev => ...)) agree
\* with it.  Excepted are failures and changes elsewhere since the last SELECT
\* (stale), overlapping requests (lapped), and what is not saved yet.
THEOREM ScreenStaysCurrent ==
  Spec => []ScreenIsCurrent
<1>1. ASSUME PagesInv, page /= "Away", Quiet, ~lapped, ~stale, ~Unsaved
      PROVE  Screen \in Expected
  <2>0. Idle.op = "idle" /\ ~Idle.done
    BY IdleType
  <2>1. NoLoad /\ ~Dirty /\ ~ui.loading /\ page \in Panels /\ ui.rows \in Rows /\ ui.draft \in Rows
        /\ table \in Tables
    BY <1>1, <2>0, FieldsTyped DEF PagesInv, BaseInv, PagesTypeOK, TypeOK, Panels, LoadingInv, NoLoad, Dirty,
       Quiet, Reloads
  <2>2. \A i \in Ids : ~Covered(i)
    BY <1>1, <2>0 DEF Quiet, Covered
  <2>3. Matches
    BY <1>1, <2>1 DEF PagesInv, ScreenInv
  <2>4. Screen = CASE page = "Attention" -> OpenOnly(ui.rows)
                   [] page = "Roles" -> ui.draft
                   [] OTHER -> ui.rows
    BY <2>1, ScreenRows
  <2>5. Stored \in Rows /\ (page /= "Masters" => Stored = Selected(0))
    <3>1. ui.tab \in Ids \union {0} /\ (page /= "Masters" => ui.tab = 0)
      BY <1>1, FieldsTyped DEF PagesInv, BaseInv, PagesTypeOK
    <3> QED
      BY <2>1, <3>1, SelectedType DEF Stored
  <2>6. CASE page = "Notifications"
    <3>1. \A i \in Ids : ui.rows[i] /= "done" /\ (ui.rows[i] = "new" => Stored[i] = "new")
      BY <1>1, <2>0, <2>2, <2>3, <2>6 DEF Matches, Quiet
    <3>2. ui.rows \in [Ids -> {"none", "new"}]
      BY <2>1, <3>1 DEF Rows, Values
    <3>3. Present(ui.rows) \subseteq Present(OpenOnly(Selected(0)))
      BY <2>5, <2>6, <3>1, <3>2 DEF Present, OpenOnly
    <3> QED
      BY <2>4, <2>6, <3>2, <3>3 DEF Expected
  <2>7. ASSUME page /= "Notifications"
        PROVE  ui.rows = Stored
    <3>1. \A i \in Ids : ui.rows[i] = Stored[i]
      BY <1>1, <2>2, <2>3, <2>7 DEF Matches, Unsaved
    <3> QED
      BY <2>1, <2>5, <3>1 DEF Rows
  <2>8. CASE page = "Attention"
    BY <2>4, <2>5, <2>7, <2>8 DEF Expected
  <2>9. CASE page = "Masters"
    BY <2>4, <2>7, <2>9 DEF Expected, Stored
  <2>10. CASE page = "Roles"
    <3>1. \A i \in Ids : ui.draft[i] = ui.rows[i]
      BY <1>1, <2>10 DEF Unsaved, ChangedRoles, Present, PagesInv, RolesInv
    <3>2. ui.draft = ui.rows
      BY <2>1, <3>1 DEF Rows
    <3>3. ui.tab = 0
      BY <1>1, <2>10 DEF PagesInv, BaseInv, PagesTypeOK
    <3> QED
      BY <2>4, <2>5, <2>7, <2>10, <3>2, <3>3 DEF Expected
  <2>11. CASE page \notin {"Notifications", "Attention", "Masters", "Roles"}
    BY <2>4, <2>7, <2>11 DEF Expected, Stored
  <2> QED
    BY <2>6, <2>8, <2>9, <2>10, <2>11
<1>2. PagesInv => ScreenIsCurrent
  BY <1>1 DEF ScreenIsCurrent
<1> QED
  BY <1>2, PagesInvariant, PTL

--------------------------------------------------------------------------------
(* The notifications in the header.                                         *)

\* A row that is on the flyout, or was, is never deleted from the table.
LEMMA FlyoutTable ==
  ASSUME BaseInv, FlyoutInv, StepShape, page = "Notifications", page' = page, NEW i \in Ids
  PROVE  /\ table'[i] /= "gone"
         /\ table[i] /= "none" => table'[i] /= "none"
         /\ table[i] \notin {"none", "new"} => table'[i] /= "new"
<1>0. table \in Tables /\ table[i] /= "gone"
  BY DEF BaseInv, PagesTypeOK, TypeOK, FlyoutInv
<1>1. CASE UNCHANGED table
  BY <1>0, <1>1
<1>2. CASE ElseShape
  BY <1>0, <1>2 DEF ElseShape, Elsewhere, Tables
<1>3. ASSUME NEW s \in Slots, Serve(s), ~UNCHANGED table
      PROVE  /\ table'[i] /= "gone"
             /\ table[i] /= "none" => table'[i] /= "none"
             /\ table[i] \notin {"none", "new"} => table'[i] /= "new"
  <2>1. PICK r \in Request : Served(s, r)
    BY <1>3, ServeSlot
  <2>2. /\ r.op \in Ops /\ r.op \notin {"idle", "load", "key", "create", "edit", "remove", "drop", "batch", "put"}
        /\ r.op = "patch" => r.id \in Ids /\ r.val = "done"
    <3>1. r.op = reqs[s].op /\ r.id = reqs[s].id /\ r.val = reqs[s].val /\ ~UNCHANGED table
          /\ r.op /= "idle" /\ (r.op \in {"load", "key"} => UNCHANGED table)
      BY <1>3, <2>1 DEF Served
    <3>2. Proper(reqs[s])
      BY <1>3 DEF BaseInv, RequestsInv
    <3>3. r.op \in Ops
      BY <2>1 DEF Request
    <3> QED
      BY <3>1, <3>2, <3>3 DEF Proper, AckPages
  <2>3. CASE r.op = "patch"
    BY <1>0, <2>1, <2>2, <2>3 DEF Served, Tables
  <2>4. CASE r.op = "all"
    BY <1>0, <2>1, <2>4 DEF Served
  <2> QED
    BY <2>2, <2>3, <2>4 DEF Ops
<1>4. UNCHANGED table \/ ElseShape \/ \E s \in Slots : Serve(s)
  <2>1. ASSUME NEW r \in Request, SendShape(r) PROVE UNCHANGED table
    BY <2>1, SendSlot
  <2>2. ASSUME NEW s \in Slots, LoadDone(s) \/ LoadFailed(s) \/ ChangeDone(s) \/ ChangeFailed(s) \/ PatchDone(s)
        PROVE  UNCHANGED table
    BY <2>2, LoadSlot, ChangeDoneSlot, ChangeFailedSlot, PatchDoneSlot DEF Ends
  <2>3. ~MountShape /\ ~Leave /\ (UserShape => UNCHANGED table)
    BY DEF MountShape, Leave, UserShape, UserOnly
  <2>4. \A j \in Ids : ~SetActiveType(j)
    BY DEF SetActiveType
  <2>5. \A s \in Slots : ~RoleWritten(s) /\ (FailedInBatch(s) => UNCHANGED table)
    BY DEF RoleWritten, FailedInBatch
  <2> QED
    BY <2>1, <2>2, <2>3, <2>4, <2>5 DEF StepShape
<1> QED
  BY <1>1, <1>2, <1>3, <1>4

\* The load that runs alone has not been served yet.
LEMMA AloneUnserved ==
  ASSUME TypeOK, NEW rq, Alone(rq), NEW t \in Slots
  PROVE  ~rq[t].done
<1>1. ui.tab \in Ids \union {0}
  BY FieldsTyped
<1> QED
  BY <1>1, IdleType, LoadType DEF Alone

\* A request is sent or ends, and the flyout keeps its rows or loses some.
LEMMA FlyoutKept ==
  ASSUME BaseInv, FlyoutInv, page = "Notifications", UNCHANGED <<page, table>>, lapped' = Lapped(reqs'),
         NEW s \in Slots, NEW r, Slot(s, r), ~r.done, r.op = "load" => r.rows = NoRows,
         \A i \in Ids : ui'.rows[i] \in {"none", ui.rows[i]}
  PROVE  FlyoutInv'
<1>1. ~lapped' => \/ ~lapped \/ \A t \in Slots : ~reqs'[t].done
  BY LappedStep, AloneUnserved DEF BaseInv, PagesTypeOK
<1>2. \A t \in Slots : reqs'[t].done => reqs'[t] = reqs[t]
  BY DEF Slot
<1>3. \A t \in Slots : reqs'[t].op = "load" => reqs'[t].rows = NoRows \/ reqs'[t] = reqs[t]
  BY DEF Slot
<1>4. \A i \in Ids : NoRows[i] = "none"
  BY DEF NoRows
<1>5. ASSUME NEW t \in Slots, reqs'[t].op = "load", NEW i \in Ids, reqs'[t].rows[i] /= "none"
      PROVE  table'[i] /= "none"
  <2>1. reqs'[t] = reqs[t]
    BY <1>3, <1>4, <1>5
  <2> QED
    BY <1>5, <2>1 DEF FlyoutInv
<1>6. ASSUME ~lapped', NEW t \in Slots, reqs'[t].done
      PROVE  /\ reqs'[t].op = "load" =>
                  \A i \in Ids : ui'.rows[i] /= "none" => reqs'[t].rows[i] /= "none" \/ Crowded(i)'
             /\ reqs'[t].op = "all" => \A i \in Ids : ui'.rows[i] = "new" => table'[i] /= "new"
  <2>1. reqs'[t] = reqs[t] /\ ~lapped
    BY <1>1, <1>2, <1>6
  <2> QED
    BY <1>6, <2>1 DEF FlyoutInv, Crowded
<1> QED
  BY <1>5, <1>6 DEF FlyoutInv

\* A list arrives: the only load, or the screen is marked as lapped.
LEMMA FlyoutLoadDone ==
  ASSUME BaseInv, FlyoutInv, OverlapInv, page = "Notifications", NEW s \in Slots, LoadDone(s)
  PROVE  FlyoutInv'
<1>0. /\ Ends(s, "load") /\ Slot(s, Idle) /\ UNCHANGED <<page, table>> /\ lapped' = Lapped(reqs')
      /\ Idle.op = "idle" /\ ~Idle.done
  BY LoadSlot, IdleType DEF Ends
<1>1. \A i \in Ids : ui'.rows[i] /= "none" => reqs[s].rows[i] /= "none"
  BY DEF LoadDone, Latest, Newest, OpenOnly
<1>2. \A i \in Ids : ui'.rows[i] /= "none" => table'[i] /= "none"
  BY <1>0, <1>1 DEF Ends, FlyoutInv
<1>3. ASSUME ~lapped', NEW t \in Slots, reqs'[t].done
      PROVE  reqs'[t].op \notin {"load", "all"}
  <2>1. ~lapped
    BY <1>0, <1>3, LappedStep, AloneUnserved DEF BaseInv, PagesTypeOK
  <2>2. ~Overlap(reqs)
    BY <2>1 DEF OverlapInv
  <2>3. t /= s => reqs[t].op \notin {"load", "all"}
    BY <1>0, <2>2 DEF Overlap, Ends
  <2> QED
    BY <1>0, <1>3, <2>3 DEF Slot
<1>4. ASSUME NEW t \in Slots, reqs'[t].op = "load", NEW i \in Ids, reqs'[t].rows[i] /= "none"
      PROVE  table'[i] /= "none"
  <2>1. reqs'[t] = reqs[t]
    BY <1>0, <1>4 DEF Slot
  <2> QED
    BY <1>0, <1>4, <2>1 DEF FlyoutInv
<1> QED
  BY <1>0, <1>2, <1>3, <1>4 DEF FlyoutInv

\* An alert that the answer does not reach back to stays out of reach: rows
\* of this table only ever come.
LEMMA CrowdedStays ==
  ASSUME BaseInv, FlyoutInv, StepShape, page = "Notifications", page' = page, NEW i \in Ids, Crowded(i)
  PROVE  Crowded(i)'
<1>1. \A j \in Ids : Listed(table)[j] /= "none" => Listed(table')[j] /= "none"
  BY FlyoutTable DEF Listed
<1> DEFINE Old == Newer(Listed(table), i)
           New == Newer(Listed(table'), i)
<1>2. Old \in SUBSET New /\ New \in SUBSET Ids /\ Old \in SUBSET Ids
  BY <1>1 DEF Newer, Present
<1>3. IsFiniteSet(Old) /\ IsFiniteSet(New)
  BY <1>2, PageAssumption, FS_Subset
<1>4. Cardinality(Old) <= Cardinality(New) /\ Cardinality(Old) \in Nat /\ Cardinality(New) \in Nat
  BY <1>2, <1>3, FS_Subset, FS_CardinalityType
<1>5. Cardinality(Old) >= ListLimit /\ ListLimit \in Nat
  BY PageAssumption DEF Crowded
<1>6. Cardinality(New) >= ListLimit
  <2> HIDE DEF Old, New
  <2> QED
    BY <1>4, <1>5
<1> QED
  BY <1>6 DEF Crowded

\* The server answers: a SELECT has every row it reaches back to, and after
\* the UPDATE of all rows none is open.
LEMMA FlyoutServe ==
  ASSUME BaseInv, FlyoutInv, StepShape, page = "Notifications", NEW s \in Slots, Serve(s)
  PROVE  FlyoutInv'
<1>1. PICK r \in Request : Served(s, r) /\ Slot(s, r)
  BY ServeSlot
<1>2. UNCHANGED <<page, ui, lapped>> /\ r.op = reqs[s].op /\ r.tab = 0
  BY <1>1 DEF Served, BaseInv, RequestsInv, Proper
<1>3. \A i \in Ids : /\ table'[i] /= "gone" /\ (table[i] /= "none" => table'[i] /= "none")
                     /\ table[i] \notin {"none", "new"} => table'[i] /= "new"
  BY <1>2, FlyoutTable
<1>4. ASSUME r.op = "load", NEW i \in Ids
      PROVE  /\ table'[i] = table[i]
             /\ r.rows[i] = table[i] \/ (r.rows[i] = "none" /\ Crowded(i))
  <2>1. UNCHANGED table /\ r.rows = Selected(0)
    BY <1>1, <1>2, <1>4 DEF Served
  <2>2. /\ Reached(i) => r.rows[i] = table[i]
        /\ ~Reached(i) => r.rows[i] = "none"
    BY <2>1, StoredRow DEF BaseInv, PagesTypeOK, Stored, FlyoutInv
  <2>3. ~Reached(i) => Crowded(i)
    <3>1. Newer(Listed(table), i) \in SUBSET Ids
      BY DEF Newer, Present
    <3>2. Cardinality(Newer(Listed(table), i)) \in Nat /\ ListLimit \in Nat
      BY <3>1, PageAssumption, FS_Subset, FS_CardinalityType
    <3> QED
      BY <3>2 DEF Reached, Crowded
  <2> QED
    BY <2>1, <2>2, <2>3
<1>5. r.op = "all" => \A i \in Ids : table'[i] /= "new"
  BY <1>1 DEF Served
<1>6. \A t \in Slots : t /= s => reqs'[t] = reqs[t]
  BY <1>1 DEF Slot
<1>7. reqs'[s] = r
  BY <1>1 DEF Slot
<1>8. \A i \in Ids : ui.rows[i] /= "none" => table[i] /= "none"
  BY DEF FlyoutInv
<1>9. ASSUME NEW t \in Slots, reqs'[t].op = "load", NEW i \in Ids, reqs'[t].rows[i] /= "none"
      PROVE  table'[i] /= "none"
  <2>1. CASE t = s
    BY <1>3, <1>4, <1>7, <1>9, <2>1
  <2>2. CASE t /= s
    BY <1>3, <1>6, <1>9, <2>2 DEF FlyoutInv
  <2> QED
    BY <2>1, <2>2
<1>10. ASSUME ~lapped, NEW t \in Slots, reqs'[t].op = "load", reqs'[t].done,
              NEW i \in Ids, ui.rows[i] /= "none"
       PROVE  reqs'[t].rows[i] /= "none" \/ Crowded(i)'
  <2>0. Crowded(i) => Crowded(i)'
    BY <1>2, CrowdedStays
  <2>1. CASE t = s
    BY <1>4, <1>7, <1>8, <1>10, <2>0, <2>1
  <2>2. CASE t /= s
    BY <1>6, <1>10, <2>0, <2>2 DEF FlyoutInv
  <2> QED
    BY <2>1, <2>2
<1>11. ASSUME ~lapped, NEW t \in Slots, reqs'[t].op = "all", reqs'[t].done,
              NEW i \in Ids, ui.rows[i] = "new"
       PROVE  table'[i] /= "new"
  <2>1. CASE t = s
    BY <1>5, <1>7, <1>11, <2>1
  <2>2. CASE t /= s
    <3>1. table[i] /= "new" /\ table[i] /= "none"
      BY <1>6, <1>8, <1>11, <2>2 DEF FlyoutInv
    <3> QED
      BY <1>3, <3>1
  <2> QED
    BY <2>1, <2>2
<1> QED
  BY <1>2, <1>3, <1>8, <1>9, <1>10, <1>11 DEF FlyoutInv

LEMMA FlyoutStep ==
  ASSUME BaseInv, OverlapInv, FlyoutInv, StepShape
  PROVE  FlyoutInv'
<1>0. Idle.op = "idle" /\ ~Idle.done
  BY IdleType
<1>1. CASE MountShape
  <2>1. /\ LoadCategory(0).op = "load" /\ ~LoadCategory(0).done /\ LoadCategory(0).rows = NoRows
    BY LoadType
  <2>2. page' = "Notifications" =>
          /\ reqs' = [s \in Slots |-> IF s = 1 THEN LoadCategory(0) ELSE Idle]
          /\ ui'.rows = NoRows /\ table' \in [Ids -> {"none", "new"}]
    BY <1>1 DEF MountShape
  <2>3. \A i \in Ids : NoRows[i] = "none"
    BY DEF NoRows
  <2> HIDE DEF LoadCategory
  <2> QED
    BY <1>0, <2>1, <2>2, <2>3 DEF FlyoutInv
<1>2. CASE Leave
  BY <1>2 DEF Leave, FlyoutInv
<1>3. CASE UserShape
  BY <1>3 DEF UserShape, UserOnly, FlyoutInv, Crowded
<1>4. CASE ElseShape
  <2>1. UNCHANGED <<page, ui, reqs, lapped>>
    BY <1>4 DEF ElseShape, Elsewhere
  <2> SUFFICES ASSUME page = "Notifications" PROVE FlyoutInv'
    BY <2>1 DEF FlyoutInv
  <2>2. \A i \in Ids : /\ table'[i] /= "gone" /\ (table[i] /= "none" => table'[i] /= "none")
                       /\ table[i] \notin {"none", "new"} => table'[i] /= "new"
    BY <2>1, FlyoutTable
  <2>3. \A i \in Ids : Crowded(i) => Crowded(i)'
    BY <2>1, CrowdedStays
  <2> QED
    BY <2>1, <2>2, <2>3 DEF FlyoutInv
<1>5. ASSUME NEW r \in Request, SendShape(r)
      PROVE  FlyoutInv'
  <2> SUFFICES ASSUME page = "Notifications" PROVE FlyoutInv'
    BY <1>5, SendSlot DEF FlyoutInv
  <2>1. PICK s \in Slots : Slot(s, r)
    BY <1>5, SendSlot
  <2>2. UNCHANGED <<page, table>> /\ lapped' = Lapped(reqs')
    BY <1>5, SendSlot
  <2>3. ~r.done /\ (r.op = "load" => r.rows = NoRows) /\ ui'.rows = ui.rows
    BY <1>5 DEF SendShape, KeepList
  <2> QED
    BY <2>1, <2>2, <2>3, FlyoutKept
<1>6. ASSUME NEW i \in Ids, SetActiveType(i)
      PROVE  FlyoutInv'
  BY <1>6 DEF SetActiveType, FlyoutInv
<1>7. ASSUME NEW s \in Slots, LoadDone(s)
      PROVE  FlyoutInv'
  <2>1. CASE page = "Notifications"
    BY <1>7, <2>1, FlyoutLoadDone
  <2>2. CASE page /= "Notifications"
    BY <1>7, <2>2, LoadSlot DEF Ends, FlyoutInv
  <2> QED
    BY <2>1, <2>2
<1>8. ASSUME NEW s \in Slots, LoadFailed(s) \/ ChangeFailed(s) \/ PatchDone(s)
      PROVE  FlyoutInv'
  <2>1. Slot(s, Idle) /\ UNCHANGED <<page, table>> /\ lapped' = Lapped(reqs')
    BY <1>8, LoadSlot, ChangeFailedSlot, PatchDoneSlot DEF Ends
  <2> SUFFICES ASSUME page = "Notifications" PROVE FlyoutInv'
    BY <2>1 DEF FlyoutInv
  <2>2. \A i \in Ids : ui'.rows[i] \in {"none", ui.rows[i]}
    <3>1. CASE LoadFailed(s) \/ ChangeFailed(s)
      BY <3>1 DEF LoadFailed, ChangeFailed, KeepList
    <3>2. CASE PatchDone(s)
      BY <3>2 DEF PatchDone, Result
    <3> QED
      BY <1>8, <3>1, <3>2
  <2> QED
    BY <1>0, <2>1, <2>2, FlyoutKept
<1>9. ASSUME NEW s \in Slots, ChangeDone(s)
      PROVE  FlyoutInv'
  <2>1. page' = page /\ reqs[s].op \in Reloads \union {"key"}
    BY <1>9, ChangeDoneSlot
  <2>2. page /= "Notifications"
    BY <2>1 DEF Reloads, BaseInv, RequestsInv, Proper
  <2> QED
    BY <2>1, <2>2 DEF FlyoutInv
<1>10. ASSUME NEW s \in Slots, FailedInBatch(s) \/ RoleWritten(s)
       PROVE  FlyoutInv'
  BY <1>10, BatchSlot, RoleSlot DEF RoleStep, FlyoutInv
<1>11. ASSUME NEW s \in Slots, Serve(s)
       PROVE  FlyoutInv'
  <2>1. CASE page = "Notifications"
    BY <1>11, <2>1, FlyoutServe
  <2>2. CASE page /= "Notifications"
    BY <1>11, <2>2 DEF Serve, FlyoutInv
  <2> QED
    BY <2>1, <2>2
<1> QED
  BY <1>1, <1>2, <1>3, <1>4, <1>5, <1>6, <1>7, <1>8, <1>9, <1>10, <1>11 DEF StepShape

\* A list is cut only when what remains fills the flyout.
LEMMA LatestFull ==
  ASSUME NEW rows \in Rows, NEW i \in Ids, rows[i] /= "none", Latest(rows)[i] = "none"
  PROVE  Cardinality(Present(Latest(rows))) = FlyoutSize
<1> DEFINE S == Present(rows)
           Above(j) == {k \in S : k > j}
           Cut == {j \in S : ~(Cardinality(Above(j)) < FlyoutSize)}
<1>1. Ids \subseteq Nat /\ IsFiniteSet(Ids) /\ FlyoutSize \in Nat /\ FlyoutSize /= 0
  BY PageAssumption, FlyoutAssumption
<1>2. S \subseteq Ids /\ \A j \in Ids : j \in S <=> rows[j] /= "none"
  BY DEF Present
<1>3. \A j \in Ids : /\ IsFiniteSet(Above(j)) /\ Above(j) \subseteq S
                     /\ Cardinality(Above(j)) \in Nat
  <2> TAKE j \in Ids
  <2>1. Above(j) \in SUBSET Ids /\ Above(j) \subseteq S
    BY <1>2
  <2>2. IsFiniteSet(Above(j))
    BY <1>1, <2>1, FS_Subset
  <2> QED
    BY <2>1, <2>2, FS_CardinalityType
<1>4. \A j \in Ids : Latest(rows)[j] = IF Cardinality(Above(j)) < FlyoutSize THEN rows[j] ELSE "none"
  BY DEF Latest, Newest, Newer
<1>5. i \in Cut
  BY <1>2, <1>4
<1>6. \A j \in Ids : j \in Present(Latest(rows)) <=> j \in S /\ j \notin Cut
  BY <1>2, <1>4 DEF Present
<1>7. Present(Latest(rows)) \subseteq Ids
  BY DEF Present
<1> HIDE DEF S
<1>8. \A j, k \in Ids : j <= k => Above(k) \subseteq Above(j)
  <2> TAKE j, k \in Ids
  <2> HAVE j <= k
  <2>1. \A l \in S : l > k => l > j
    BY <1>1, <1>2
  <2> QED
    BY <2>1
<1>9. \A j \in Ids, k \in S : k > j => Cardinality(Above(k)) < Cardinality(Above(j))
  <2> TAKE j \in Ids, k \in S
  <2> HAVE k > j
  <2>1. Above(k) \in SUBSET Above(j)
    BY <1>1, <1>2, <1>8
  <2>2. k \in Above(j) /\ k \notin Above(k)
    BY <1>1, <1>2
  <2>3. Cardinality(Above(k)) <= Cardinality(Above(j)) /\ Cardinality(Above(k)) /= Cardinality(Above(j))
    BY <1>3, <2>1, <2>2, FS_Subset
  <2>4. Cardinality(Above(k)) \in Nat /\ Cardinality(Above(j)) \in Nat
    BY <1>2, <1>3
  <2> QED
    BY <2>3, <2>4
\* The newest row that is cut.
<1>10. PICK m \in Cut : \A j \in Cut : ~(j > m)
  <2> DEFINE Sizes == {Cardinality(Above(j)) : j \in Cut}
  <2>1. Sizes \in SUBSET Nat /\ Sizes /= {}
    BY <1>2, <1>3, <1>5
  <2>2. PICK c \in Sizes : \A d \in Sizes : c <= d
    <3> HIDE DEF Sizes
    <3> QED
      BY <2>1, LeastNumber
  <2>3. PICK m \in Cut : c = Cardinality(Above(m))
    BY <2>2
  <2>4. ASSUME NEW j \in Cut, j > m PROVE FALSE
    <3>1. Cardinality(Above(j)) < c /\ c <= Cardinality(Above(j))
      BY <1>2, <1>9, <2>2, <2>3, <2>4
    <3>2. Cardinality(Above(j)) \in Nat /\ c \in Nat
      BY <1>2, <1>3, <2>3
    <3> QED
      BY <3>1, <3>2
  <2> QED
    BY <2>4
<1>11. m \in Ids /\ m \in S /\ ~(Cardinality(Above(m)) < FlyoutSize)
  BY <1>2, <1>10
<1>12. ASSUME NEW j \in S PROVE j \in Cut <=> j <= m
  <2>1. CASE j <= m
    <3>1. Above(m) \in SUBSET Above(j) /\ j \in Ids
      BY <1>2, <1>8, <1>11, <2>1
    <3>2. Cardinality(Above(m)) <= Cardinality(Above(j))
      BY <1>3, <3>1, FS_Subset
    <3> QED
      BY <1>1, <1>3, <1>11, <2>1, <3>1, <3>2
  <2>2. CASE ~(j <= m)
    <3>1. j > m
      BY <1>1, <1>2, <1>11, <2>2
    <3> QED
      BY <1>10, <2>2, <3>1
  <2> QED
    BY <2>1, <2>2
<1>13. Present(Latest(rows)) = Above(m)
  <2>1. \A j \in S : ~(j <= m) <=> j > m
    BY <1>1, <1>2, <1>11
  <2>2. \A j \in Ids : j \in Present(Latest(rows)) <=> j \in Above(m)
    BY <1>6, <1>12, <2>1
  <2>3. Above(m) \subseteq Ids
    BY <1>2
  <2> QED
    BY <1>7, <2>2, <2>3
\* The oldest row that is kept.
<1>14. PICK n \in Above(m) : \A k \in Above(m) : n <= k
  <2>1. Above(m) /= {}
    BY <1>1, <1>3, <1>11, FS_EmptySet
  <2>2. Above(m) \in SUBSET Nat
    BY <1>1, <1>2
  <2> HIDE DEF Above
  <2> QED
    BY <2>1, <2>2, LeastNumber
<1>15. Above(m) = Above(n) \union {n} /\ n \notin Above(n) /\ n \in S /\ n \in Ids
  <2>1. n \in S /\ n \in Ids /\ n > m
    BY <1>2, <1>14
  <2>2. \A k \in S : k > m <=> k > n \/ k = n
    <3> TAKE k \in S
    <3>1. k > m => n <= k
      BY <1>14
    <3>2. k \in Nat /\ m \in Nat /\ n \in Nat
      BY <1>1, <1>2, <1>11, <2>1
    <3> QED
      BY <2>1, <3>1, <3>2
  <2>3. ~(n > n)
    BY <1>1, <2>1
  <2> QED
    BY <2>1, <2>2, <2>3
<1>16. Cardinality(Above(m)) = Cardinality(Above(n)) + 1
  BY <1>3, <1>15, FS_AddElement
<1>17. Cardinality(Above(n)) < FlyoutSize
  BY <1>6, <1>13, <1>14, <1>15
<1> QED
  BY <1>1, <1>3, <1>11, <1>13, <1>15, <1>16, <1>17

\* The rows that leave the flyout in one step.
LEMMA DroppedStep ==
  ASSUME BaseInv, AckInv, FlyoutInv, StepShape, page = "Notifications", page' = page, ~lapped,
         NEW i \in Ids, ui.rows[i] = "new", ui'.rows[i] = "none"
  PROVE  table[i] /= "new" \/ Cardinality(Present(ui'.rows)) = FlyoutSize \/ Crowded(i)
<1>1. ASSUME NEW s \in Slots, LoadDone(s)
      PROVE  table[i] /= "new" \/ Cardinality(Present(ui'.rows)) = FlyoutSize \/ Crowded(i)
  <2>1. reqs[s].op = "load" /\ reqs[s].done
    BY <1>1, LoadSlot DEF Ends
  <2>2. reqs[s].rows \in Rows /\ OpenOnly(reqs[s].rows) \in Rows
    BY FieldsTyped, RowsTypes DEF BaseInv, PagesTypeOK
  <2>3. reqs[s].rows[i] \in {"new", "done"} \/ Crowded(i)
    BY <2>1, <2>2 DEF FlyoutInv, Rows, Values
  <2>4. CASE reqs[s].rows[i] = "done"
    BY <2>1, <2>4 DEF AckInv, AckPages, Acked
  <2>5. CASE reqs[s].rows[i] = "new"
    <3>1. ui'.rows = Latest(OpenOnly(reqs[s].rows))
      BY <1>1 DEF LoadDone
    <3>2. OpenOnly(reqs[s].rows)[i] = "new"
      BY <2>5 DEF OpenOnly
    <3> QED
      BY <2>2, <3>1, <3>2, LatestFull
  <2> QED
    BY <2>3, <2>4, <2>5
<1>2. ASSUME NEW s \in Slots, PatchDone(s)
      PROVE  table[i] /= "new"
  <2>1. Touches(s, i) /\ reqs[s].done
    BY <1>2, PatchDoneSlot DEF PatchDone
  <2>2. reqs[s].op \notin {"drop", "batch"}
    BY DEF BaseInv, RequestsInv, Proper
  <2>3. CASE reqs[s].op = "patch" /\ reqs[s].id = i
    BY <2>1, <2>3 DEF AckInv, AckPages, Acked
  <2>4. CASE reqs[s].op = "all"
    BY <2>1, <2>4 DEF FlyoutInv
  <2> QED
    BY <2>1, <2>2, <2>3, <2>4 DEF Touches
<1>3. ~MountShape /\ ~Leave /\ ~UserShape /\ ~ElseShape
  BY DEF MountShape, Leave, UserShape, ElseShape, Elsewhere
<1>4. \A r \in Request : ~SendShape(r)
  BY DEF SendShape, KeepList
<1>5. \A j \in Ids : ~SetActiveType(j)
  BY DEF SetActiveType
<1>6. \A s \in Slots : /\ ~LoadFailed(s) /\ ~ChangeDone(s) /\ ~ChangeFailed(s)
                       /\ ~FailedInBatch(s) /\ ~RoleWritten(s) /\ ~Serve(s)
  BY DEF LoadFailed, ChangeDone, ChangeFailed, FailedInBatch, RoleWritten, Serve, KeepList
<1> QED
  BY <1>1, <1>2, <1>3, <1>4, <1>5, <1>6 DEF StepShape

\* What the flyout of Header.tsx shows is in the table, and an answer on its
\* way has it, unless a LIMIT cut it off or requests overlapped (lapped).
THEOREM FlyoutInvariant ==
  Spec => []FlyoutInv
<1>1. Init => FlyoutInv
  BY DEF Init, FlyoutInv
<1>2. PagesInv /\ FlyoutInv /\ [Next]_vars => FlyoutInv'
  <2> SUFFICES ASSUME PagesInv, FlyoutInv, [Next]_vars PROVE FlyoutInv'
    OBVIOUS
  <2>1. CASE Next
    BY <2>1, NextShaped, FlyoutStep DEF PagesInv
  <2>2. CASE UNCHANGED vars
    BY <2>2 DEF vars, FlyoutInv, Crowded
  <2> QED
    BY <2>1, <2>2
<1> QED
  BY <1>1, <1>2, PagesInvariant, PTL DEF Spec

\* As long as no load has overlapped another load or a mark (lapped), the
\* flyout drops a notification only when it is no longer open on the server,
\* newer ones fill the flyout, or the LIMIT of listAlertsHandler cuts it off
\* (Header.tsx, loadAlerts).
THEOREM DropsAreAcknowledged ==
  Spec => DroppedIsAcknowledged
<1> DEFINE Drops == page = "Notifications" /\ page' = page /\ ~lapped =>
                      \A i \in Ids : ui.rows[i] = "new" /\ ui'.rows[i] = "none"
                        => \/ table[i] # "new"
                           \/ Cardinality(Present(ui'.rows)) = FlyoutSize
                           \/ Crowded(i)
<1>1. PagesInv /\ FlyoutInv /\ [Next]_vars => [Drops]_vars
  <2> SUFFICES ASSUME PagesInv, FlyoutInv, Next PROVE Drops
    OBVIOUS
  <2>1. StepShape
    BY NextShaped DEF PagesInv
  <2> QED
    BY <2>1, DroppedStep DEF PagesInv
<1>2. Spec => [][Drops]_vars
  <2> HIDE DEF Drops
  <2> QED
    BY <1>1, PagesInvariant, FlyoutInvariant, PTL DEF Spec
<1> QED
  BY <1>2 DEF DroppedIsAcknowledged
================================================================================
