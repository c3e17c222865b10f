------------------------------- MODULE AdminPages -------------------------------
(***************************************************************************)
(* The pages of the administration application                             *)
(* (frontend/apps/admin/src/pages) on the same core as the client's.       *)
(* Companies and trackers are edited in a dialog of their own; lookups     *)
(* have a tab for every category; the permission matrix is edited in a     *)
(* draft and saved role by role.                                           *)
(***************************************************************************)
EXTENDS PageCore

AdminPanels ==
  {"Billing", "Extensions", "Tolls", "Warranty", "Inventory", "Companies",
   "Masters", "Roles", "RawData"}

-----------------------------------------------------------------------------
(* BillingMasterPage: invoices. *)
BillingMount == Mount("Billing", [Blank EXCEPT !.loading = TRUE])
BillingTable == TableBody
BillingDialog == page = "Billing" /\ DialogSteps("create")
LoadBilling(s) == page = "Billing" /\ LoadKeeps(s)
CreateInvoice == page = "Billing" /\ SubmitForm("create", Ask("create", 0, "new"))
InvoiceCreated(s) == page = "Billing" /\ SavedThenReload(s, "create", "create")

Billing ==
  \/ BillingMount \/ BillingDialog \/ CreateInvoice
  \/ \E s \in Slots : LoadBilling(s) \/ InvoiceCreated(s)

(* ExtensionManagerPage: subscription extensions. *)
ExtensionsMount == Mount("Extensions", [Blank EXCEPT !.loading = TRUE])
ExtensionsTable == TableBody
ExtensionsDialog == page = "Extensions" /\ DialogSteps("create")
LoadExtensions(s) == page = "Extensions" /\ LoadKeeps(s)
CreateExtension ==
  page = "Extensions" /\ SubmitForm("create", Ask("create", 0, "new"))
ExtensionCreated(s) == page = "Extensions" /\ SavedThenReload(s, "create", "create")

Extensions ==
  \/ ExtensionsMount \/ ExtensionsDialog \/ CreateExtension
  \/ \E s \in Slots : LoadExtensions(s) \/ ExtensionCreated(s)

(* TollMasterPage: toll gates. *)
TollsMount == Mount("Tolls", [Blank EXCEPT !.loading = TRUE])
TollsTable == TableBody
TollsDialog == page = "Tolls" /\ DialogSteps("create")
LoadTolls(s) == page = "Tolls" /\ LoadKeeps(s)
CreateToll == page = "Tolls" /\ SubmitForm("create", Ask("create", 0, "new"))
TollCreated(s) == page = "Tolls" /\ SavedThenReload(s, "create", "create")

Tolls ==
  \/ TollsMount \/ TollsDialog \/ CreateToll
  \/ \E s \in Slots : LoadTolls(s) \/ TollCreated(s)

(* WarrantyMasterPage: warranties and maintenance contracts. *)
WarrantyMount == Mount("Warranty", [Blank EXCEPT !.loading = TRUE])
WarrantyTable == TableBody
WarrantyDialog == page = "Warranty" /\ DialogSteps("create")
LoadWarranties(s) == page = "Warranty" /\ LoadKeeps(s)
CreateWarranty == page = "Warranty" /\ SubmitForm("create", Ask("create", 0, "new"))
WarrantyCreated(s) == page = "Warranty" /\ SavedThenReload(s, "create", "create")

Warranty ==
  \/ WarrantyMount \/ WarrantyDialog \/ CreateWarranty
  \/ \E s \in Slots : LoadWarranties(s) \/ WarrantyCreated(s)

-----------------------------------------------------------------------------
(* DeviceMasterPage: the tracker inventory.  editingDevice is the dialog    *)
(* and its target; any stored update closes the dialog that is open.        *)
InventoryMount == Mount("Inventory", [Blank EXCEPT !.loading = TRUE])
InventoryTable == TableBody
InventoryDialog == page = "Inventory" /\ DialogSteps("create")
LoadInventory(s) == page = "Inventory" /\ LoadKeeps(s)
ProvisionTracker ==
  page = "Inventory" /\ SubmitForm("create", Ask("create", 0, "new"))
TrackerProvisioned(s) == page = "Inventory" /\ SavedThenReload(s, "create", "create")

HandleOpenEdit(i) ==
  /\ page = "Inventory" /\ ui.dialog = "none" /\ InventoryTable[i] # "none"
  /\ ui' = [ui EXCEPT !.dialog = "edit", !.target = i]
  /\ UserOnly

\* What the form of a closed dialog holds is not read again: opening it fills
\* it anew.  The model forgets it.
EditClosed ==
  [ui EXCEPT !.dialog = Closed("edit"), !.target = 0, !.key = 0]

CloseEdit == ui.dialog = "edit" /\ ui' = EditClosed /\ UserOnly

HandleUpdate ==
  /\ page = "Inventory" /\ ui.dialog = "edit"
  /\ Send(Ask("edit", ui.target, "done"))
  /\ UNCHANGED ui

TrackerUpdated(s) ==
  /\ page = "Inventory"
  /\ \/ /\ Succeeded(s, "edit", Load)
        /\ ui' = [EditClosed EXCEPT !.loading = TRUE]
     \/ Failed(s, "edit") /\ UNCHANGED ui

InventoryEditDialog == page = "Inventory" /\ CloseEdit

Inventory ==
  \/ InventoryMount \/ InventoryDialog \/ ProvisionTracker
  \/ InventoryEditDialog \/ HandleUpdate
  \/ \E i \in Ids : HandleOpenEdit(i)
  \/ \E s \in Slots : \/ LoadInventory(s) \/ TrackerProvisioned(s)
                      \/ TrackerUpdated(s)

-----------------------------------------------------------------------------
(* CompanyManagerPage: tenants.  selectedCompany stays when the dialog is   *)
(* closed; a regenerated API key goes into whatever form is open by then.   *)
CompaniesMount == Mount("Companies", [Blank EXCEPT !.loading = TRUE])
CompaniesGrid == TableBody
CompaniesDialog == page = "Companies" /\ DialogSteps("create")
LoadCompanies(s) == page = "Companies" /\ LoadKeeps(s)
HandleCreateCompany ==
  page = "Companies" /\ SubmitForm("create", Ask("create", 0, "new"))
CompanyCreated(s) == page = "Companies" /\ SavedThenReload(s, "create", "create")

HandleOpenManage(i) ==
  /\ page = "Companies" /\ ui.dialog = "none" /\ CompaniesGrid[i] # "none"
  /\ ui' = [ui EXCEPT !.dialog = "edit", !.target = i, !.key = i]
  /\ UserOnly

ManageDialog == page = "Companies" /\ CloseEdit

HandleSaveManage ==
  /\ page = "Companies" /\ ui.dialog = "edit"
  /\ Send(Ask("edit", ui.target, "done"))
  /\ UNCHANGED ui

ManageSaved(s) ==
  /\ page = "Companies"
  /\ \/ /\ Succeeded(s, "edit", Load)
        /\ ui' = [EditClosed EXCEPT !.loading = TRUE]
     \/ Failed(s, "edit") /\ UNCHANGED ui

HandleRegenerateKey ==
  /\ page = "Companies" /\ ui.dialog = "edit"
  /\ Send(Ask("key", ui.target, "none"))
  /\ UNCHANGED ui

KeyRegenerated(s) ==
  /\ page = "Companies"
  /\ \/ /\ Succeeded(s, "key", Load)
        /\ ui' = [ui EXCEPT !.key = IF ui.dialog = "edit" THEN reqs[s].id ELSE @,
                            !.loading = TRUE]
     \/ Failed(s, "key") /\ UNCHANGED ui

Companies ==
  \/ CompaniesMount \/ CompaniesDialog \/ HandleCreateCompany
  \/ ManageDialog \/ HandleSaveManage \/ HandleRegenerateKey
  \/ \E i \in Ids : HandleOpenManage(i)
  \/ \E s \in Slots : \/ LoadCompanies(s) \/ CompanyCreated(s)
                      \/ ManageSaved(s) \/ KeyRegenerated(s)

-----------------------------------------------------------------------------
(* MastersPage: lookups, one category on the screen at a time.  A handler   *)
(* goes on with the category of the render it was made in, also when the    *)
(* user has turned to another tab meanwhile; lapped remembers that.  In the *)
(* model category c has one row, row c; the server looks a row up by its id *)
(* alone.                                                                   *)
MastersMount ==
  MountWith("Masters", [Blank EXCEPT !.loading = TRUE, !.tab = 1], LoadCategory(1))

SetActiveType(c) ==
  /\ page = "Masters" /\ ui.dialog = "none" /\ c # ui.tab
  /\ \E s \in Slots : /\ reqs[s] = Idle
                      /\ \A t \in 1 .. s - 1 : reqs[t] # Idle
                      /\ reqs' = [reqs EXCEPT ![s] = LoadCategory(c)]
  /\ ui' = [ui EXCEPT !.tab = c, !.loading = TRUE]
  /\ lapped' = ~Quiet
  /\ UNCHANGED <<page, table, stale>>

MastersTable == TableBody
MastersDialog == page = "Masters" /\ DialogSteps("create")

\* The answer fills the list on the screen whatever tab it was asked for;
\* anything but a list empties it.
LoadMasters(s) == page = "Masters" /\ LoadClears(s)

CreateMaster ==
  page = "Masters" /\ SubmitForm("create", [Ask("create", 0, "new") EXCEPT !.tab = ui.tab])

\* All three handlers reload the category of their own closure.
MasterChanged(s, op, after) ==
  /\ page = "Masters"
  /\ \/ /\ Succeeded(s, op, LoadCategory(reqs[s].tab))
        /\ ui' = [after EXCEPT !.loading = TRUE]
     \/ Failed(s, op) /\ UNCHANGED ui

MasterCreated(s) == 
  MasterChanged(s, "create", [ui EXCEPT !.dialog = Closed("create"),
                                        !.typed = @ \ {"create"}])

OpenEditMaster(i) ==
  /\ page = "Masters" /\ ui.dialog = "none" /\ MastersTable[i] # "none"
  /\ ui' = [ui EXCEPT !.dialog = "edit", !.target = i]
  /\ UserOnly

MasterEditDialog == page = "Masters" /\ CloseEdit

UpdateMaster ==
  /\ page = "Masters" /\ ui.dialog = "edit"
  /\ Send([Ask("edit", ui.target, "done") EXCEPT !.tab = ui.tab])
  /\ UNCHANGED ui
MasterUpdated(s) == MasterChanged(s, "edit", EditClosed)

DeleteMaster(i) ==
  /\ page = "Masters"
  /\ ClickRow(MastersTable, i, [Ask("remove", i, "none") EXCEPT !.tab = ui.tab])
MasterDeleted(s) == MasterChanged(s, "remove", ui)

Masters ==
  \/ MastersMount \/ MastersDialog \/ CreateMaster
  \/ MasterEditDialog \/ UpdateMaster
  \/ \E i \in Ids : SetActiveType(i) \/ OpenEditMaster(i) \/ DeleteMaster(i)
  \/ \E s \in Slots : \/ LoadMasters(s) \/ MasterCreated(s)
                      \/ MasterUpdated(s) \/ MasterDeleted(s)

-----------------------------------------------------------------------------
(* RoleRightsPage: a row is a role, its value one permission bit.           *)
RolesMount == Mount("Roles", [Blank EXCEPT !.loading = TRUE])
RolesTable == IF ui.loading THEN NoRows ELSE ui.draft

LoadRoles(s) ==
  /\ page = "Roles"
  /\ \/ /\ Succeeded(s, "load", Idle)
        /\ ui' = [ui EXCEPT !.rows = reqs[s].rows, !.draft = reqs[s].rows,
                            !.loading = FALSE]
     \/ Failed(s, "load") /\ ui' = [ui EXCEPT !.loading = FALSE]

TogglePermission(i) ==
  /\ page = "Roles" /\ RolesTable[i] # "none"
  /\ ui' = [ui EXCEPT !.draft[i] = IF @ = "new" THEN "done" ELSE "new"]
  /\ UserOnly

ChangedRoles == {i \in Present(ui.rows) : ui.draft[i] # ui.rows[i]}

\* The PUT of the first role of a set; its rows are those still to come,
\* with the values the draft had when Save was pressed.
PutRole(todo, values) ==
  LET i == CHOOSE i \in todo : \A j \in todo : i <= j
  IN  [Ask("edit", i, values[i]) EXCEPT
         !.rows = [j \in Ids |-> IF j \in todo \ {i} THEN values[j] ELSE "none"]]

\* Mutant: every role is written, not only the changed ones.
SaveAllRoles ==
  /\ page = "Roles" /\ ~ui.busy /\ ~ui.loading
  /\ ChangedRoles # {}
  /\ Send(PutRole(Present(ui.rows), ui.draft))
  /\ ui' = [ui EXCEPT !.busy = TRUE]

HandleSaveRoles ==
  /\ page = "Roles" /\ ~ui.busy /\ ~ui.loading
  /\ ChangedRoles # {}
  /\ Send(PutRole(ChangedRoles, ui.draft))
  /\ ui' = [ui EXCEPT !.busy = TRUE]

\* A failure is counted and the loop goes on; after the last role the
\* matrix is loaded again.
RoleWritten(s) ==
  LET todo == Present(reqs[s].rows)
      next == IF todo = {} THEN Load ELSE PutRole(todo, reqs[s].rows)
  IN  /\ page = "Roles"
      /\ Succeeded(s, "edit", next) \/ FailedThen(s, "edit", next)
      /\ ui' = IF todo = {} THEN [ui EXCEPT !.busy = FALSE, !.loading = TRUE]
                ELSE ui

Roles ==
  \/ RolesMount \/ HandleSaveRoles
  \/ \E i \in Ids : TogglePermission(i)
  \/ \E s \in Slots : LoadRoles(s) \/ RoleWritten(s)

-----------------------------------------------------------------------------
(* RawDataPage: stored packets.  A refresh does not touch the loading flag  *)
(* until it ends.                                                           *)
RawDataMount == Mount("RawData", [Blank EXCEPT !.loading = TRUE, !.auto = TRUE])
RawDataTable == TableBody
LoadPackets(s) == page = "RawData" /\ LoadKeeps(s)
RefreshPackets == page = "RawData" /\ Send(Load) /\ UNCHANGED ui
PacketsInterval == ui.auto /\ RefreshPackets

SetAutoRefresh ==
  /\ page = "RawData"
  /\ ui' = [ui EXCEPT !.auto = ~@]
  /\ UserOnly

RawData ==
  \/ RawDataMount \/ RefreshPackets \/ PacketsInterval \/ SetAutoRefresh
  \/ \E s \in Slots : LoadPackets(s)

-----------------------------------------------------------------------------
(* What other administrators, tenants and devices do to the table. *)
AdminRowsArrive ==
  /\ page \in AdminPanels
  /\ \E i \in Ids : Fresh(i, ui.tab) /\ Elsewhere(i, "new")

AdminRowsChange ==
  /\ page \in {"Inventory", "Roles"}
  /\ \E i \in Ids : table[i] = "new" /\ Elsewhere(i, "done")

AdminNext ==
  \/ Billing \/ Extensions \/ Tolls \/ Warranty \/ Inventory \/ Companies
  \/ Masters \/ Roles \/ RawData
  \/ AdminRowsArrive \/ AdminRowsChange

\* What each panel has on the screen.
AdminScreen ==
  CASE page = "Billing" -> BillingTable
    [] page = "Extensions" -> ExtensionsTable
    [] page = "Tolls" -> TollsTable
    [] page = "Warranty" -> WarrantyTable
    [] page = "Inventory" -> InventoryTable
    [] page = "Companies" -> CompaniesGrid
    [] page = "Masters" -> MastersTable
    [] page = "Roles" -> RolesTable
    [] page = "RawData" -> RawDataTable
=============================================================================
