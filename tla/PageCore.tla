-------------------------------- MODULE PageCore --------------------------------
(***************************************************************************)
(* What the pages of the two React applications (frontend/apps/client and  *)
(* frontend/apps/admin) have in common: a component with local state shows *)
(* a list that lives in a table of the server, and every handler is split  *)
(* by its "await fetchWithAuth(...)" into a part that sends a request and  *)
(* a continuation that runs when the answer is there.  Between the two the *)
(* user goes on clicking, other users change the table, and a second       *)
(* request of the same page may overtake the first.                        *)
(*                                                                         *)
(* At most one page is mounted.  The state React keeps for it is the       *)
(* record ui; a page that has no use for a field leaves it at its blank    *)
(* value.  When the page is left its state is dropped, and an answer that  *)
(* comes later finds no component (React ignores the setState), so the     *)
(* requests under way are dropped with it.                                 *)
(*                                                                         *)
(* Rows carry what the handlers tell apart: a row is not there yet, is as  *)
(* created, has been acknowledged / edited / switched off, or is deleted.  *)
(* The serial ids of the database are never used twice.                    *)
(***************************************************************************)
EXTENDS Naturals, FiniteSets

CONSTANTS
  Ids,        \* row ids of the table behind the mounted page
  MaxReqs,    \* bound on the requests a page has under way
  ListLimit   \* the LIMIT of a SELECT that has one (100 or 200)

\* Serial ids start at 1.
ASSUME PageAssumption ==
  /\ Ids \subseteq Nat \ {0} /\ 1 \in Ids /\ IsFiniteSet(Ids)
  /\ MaxReqs \in Nat \ {0}
  /\ ListLimit \in Nat \ {0}

VARIABLES
  page,    \* the mounted page, "Away" when there is none
  ui,      \* its React state
  table,   \* the server's table for that page
  reqs,    \* the requests it has under way
  lapped,  \* history: since a load overlapped a request that changes the
           \* list on the screen
  stale    \* history: since the last SELECT another user changed the table
           \* or a request failed

vars == <<page, ui, table, reqs, lapped, stale>>

Slots == 1 .. MaxReqs
Values == {"none", "new", "done"}
Rows == [Ids -> Values]                        \* a list as a page holds it
Tables == [Ids -> Values \union {"gone"}]      \* the table of the server
NoRows == [i \in Ids |-> "none"]
Dialogs == {"create", "edit", "menu", "pin"}
Ops == {"idle", "load", "create", "edit", "remove", "patch", "drop", "batch",
        "all", "put", "key"}

(***************************************************************************)
(* A request.  "edit" and "remove" are followed by a reload of the list;   *)
(* "patch" and "drop" are the same statements on the server, of handlers   *)
(* that change the list on the screen themselves.  "batch" stands for the  *)
(* requests of one Promise.all (its rows say which are still open and      *)
(* which were granted), "all" for a statement on every row, "put" for an   *)
(* UPSERT of a form that is always there, "key" for a new API key of a row.*)
(* tab is the lookup category of the page when the request was sent.       *)
(***************************************************************************)
Idle ==
  [op |-> "idle", id |-> 0, val |-> "none", tab |-> 0, done |-> FALSE,
   rows |-> NoRows]

Ask(op, id, val) == [Idle EXCEPT !.op = op, !.id = id, !.val = val]
LoadCategory(c) ==
  [op |-> "load", id |-> 0, val |-> "none", tab |-> c, done |-> FALSE,
   rows |-> NoRows]
Load == LoadCategory(0)

Request ==
  [op : Ops, id : Ids \union {0}, val : Values, tab : Ids \union {0},
   done : BOOLEAN, rows : Rows]

(***************************************************************************)
(* The state of a component before its first effect.  typed holds the      *)
(* forms the user has filled in, target the row an edit dialog was opened  *)
(* for, sel the rows that are ticked, draft an edited copy of the list,    *)
(* tab the category whose list is on the screen, key the row whose API key *)
(* is, and auto is a ticked auto-refresh.                                  *)
(***************************************************************************)
Blank ==
  [rows |-> NoRows, loading |-> FALSE, dialog |-> "none", typed |-> {},
   busy |-> FALSE, target |-> 0, sel |-> {}, draft |-> NoRows, tab |-> 0,
   key |-> 0, auto |-> FALSE]

UiState ==
  [rows : Rows, loading : BOOLEAN, dialog : Dialogs \union {"none"},
   typed : SUBSET Dialogs, busy : BOOLEAN, target : Ids \union {0},
   sel : SUBSET Ids, draft : Rows, tab : Ids \union {0},
   key : Ids \union {0}, auto : BOOLEAN]

Present(rows) == {i \in Ids : rows[i] # "none"}

\* What SELECT returns: a deleted row is not listed.  A lookup category c
\* has the row c; 0 asks for the whole table.
Listed(t) == [i \in Ids |-> IF t[i] = "gone" THEN "none" ELSE t[i]]
Category(rows, c) == [i \in Ids |-> IF c \in {0, i} THEN rows[i] ELSE "none"]

\* ORDER BY id (or time) DESC LIMIT n: the n newest rows, whatever state they
\* are in.  The lists of these panels are cut like that, the others are not.
CutPanels == {"Passes", "Attention", "Notifications", "Alarms", "Control", "RawData"}
Newer(rows, i) == {j \in Present(rows) : j > i}
Newest(n, rows) ==
  [i \in Ids |-> IF Cardinality(Newer(rows, i)) < n THEN rows[i] ELSE "none"]

Selected(c) ==
  Category(IF page \in CutPanels THEN Newest(ListLimit, Listed(table))
           ELSE Listed(table), c)

-----------------------------------------------------------------------------
(***************************************************************************)
(* Sending.                                                                *)
(***************************************************************************)
\* Two loads, a load and a change the page will patch into its list, or two
\* contrary changes of a row (a switch clicked twice).
Overlap(rq) ==
  \E s, t \in Slots :
    /\ s # t
    /\ \/ /\ rq[s].op = "load"
          /\ rq[t].op \in {"load", "patch", "drop", "batch", "all"}
       \/ /\ rq[s].op = "patch" /\ rq[t].op = "patch"
          /\ rq[s].id = rq[t].id /\ rq[s].val # rq[t].val

\* One load, not yet served and of the tab on the screen, will repair the list.
Alone(rq) ==
  \E s \in Slots : /\ rq[s] = LoadCategory(ui.tab)
                   /\ \A t \in Slots \ {s} : rq[t] = Idle

Lapped(rq) ==
  IF Overlap(rq) THEN TRUE ELSE lapped /\ ~Alone(rq)

Send(r) ==
  /\ \E s \in Slots : /\ reqs[s] = Idle
                      /\ \A t \in 1 .. s - 1 : reqs[t] # Idle
                      /\ reqs' = [reqs EXCEPT ![s] = r]
  /\ lapped' = Lapped(reqs')
  /\ UNCHANGED <<page, table, stale>>

Quiet == \A s \in Slots : reqs[s] = Idle

(***************************************************************************)
(* The server handles a request as one statement on the table: a SELECT    *)
(* answers the list of that instant, which a LIMIT may cut, an INSERT      *)
(* takes the next id, an UPDATE needs a row that is still there, and a     *)
(* DELETE may find it gone.  A request it refuses is left as it is and     *)
(* ends in Failed.                                                         *)
(***************************************************************************)
\* Serial ids are given out in order; a lookup category has an id of its own.
Fresh(i, tab) ==
  /\ tab \in {0, i} /\ table[i] = "none"
  /\ tab = 0 => \A j \in Ids : j < i => table[j] # "none"

ServeLoad(s) ==
  /\ reqs[s].op = "load"
  /\ reqs' = [reqs EXCEPT ![s] = [@ EXCEPT !.done = TRUE,
                                  !.rows = Selected(reqs[s].tab)]]
  /\ UNCHANGED table

ServeCreate(s) ==
  /\ reqs[s].op = "create"
  /\ \E i \in Ids : Fresh(i, reqs[s].tab) /\ table' = [table EXCEPT ![i] = "new"]
  /\ reqs' = [reqs EXCEPT ![s] = [@ EXCEPT !.done = TRUE]]

ServeEdit(s) ==
  /\ reqs[s].op \in {"edit", "patch"}
  /\ table[reqs[s].id] \in {"new", "done"}
  /\ table' = [table EXCEPT ![reqs[s].id] = reqs[s].val]
  /\ reqs' = [reqs EXCEPT ![s] = [@ EXCEPT !.done = TRUE]]

ServeRemove(s) ==
  /\ reqs[s].op \in {"remove", "drop"}
  /\ table' = [table EXCEPT ![reqs[s].id] = "gone"]
  /\ reqs' = [reqs EXCEPT ![s] = [@ EXCEPT !.done = TRUE]]

ServeKey(s) ==
  /\ reqs[s].op = "key"
  /\ table[reqs[s].id] \in {"new", "done"}
  /\ reqs' = [reqs EXCEPT ![s] = [@ EXCEPT !.done = TRUE]]
  /\ UNCHANGED table

\* COALESCE(NULLIF(...)): a blank form leaves the stored values as they are.
ServePut(s) ==
  /\ reqs[s].op = "put"
  /\ table' = [table EXCEPT ![reqs[s].id] = IF reqs[s].val = "none" THEN @
                                            ELSE reqs[s].val]
  /\ reqs' = [reqs EXCEPT ![s] = [@ EXCEPT !.done = TRUE]]

ServeAll(s) ==
  /\ reqs[s].op = "all"
  /\ table' = [i \in Ids |-> IF table[i] = "new" THEN "done" ELSE table[i]]
  /\ reqs' = [reqs EXCEPT ![s] = [@ EXCEPT !.done = TRUE]]

Resolved(r, i, v) ==
  LET left == [r.rows EXCEPT ![i] = v]
  IN  [r EXCEPT !.rows = left, !.done = \A j \in Ids : left[j] # "new"]

ServeBatch(s) ==
  /\ reqs[s].op = "batch"
  /\ \E i \in Ids : /\ reqs[s].rows[i] = "new"
                    /\ table[i] \in {"new", "done"}
                    /\ table' = [table EXCEPT ![i] = "done"]
                    /\ reqs' = [reqs EXCEPT ![s] = Resolved(@, i, "done")]

Serve(s) ==
  /\ ~reqs[s].done
  /\ \/ ServeLoad(s) \/ ServeCreate(s) \/ ServeEdit(s) \/ ServeRemove(s)
     \/ ServePut(s) \/ ServeAll(s) \/ ServeBatch(s) \/ ServeKey(s)
  /\ stale' = (stale /\ reqs[s].op # "load")
  /\ UNCHANGED <<page, ui, lapped>>

(***************************************************************************)
(* Other users of the company, the devices and the alert engine.           *)
(***************************************************************************)
Elsewhere(i, v) ==
  /\ table[i] # v
  /\ table' = [table EXCEPT ![i] = v]
  /\ stale' = TRUE
  /\ UNCHANGED <<page, ui, reqs, lapped>>

-----------------------------------------------------------------------------
(***************************************************************************)
(* Continuations.  Succeeded: res.ok.  Failed: res.ok is false or the      *)
(* fetch rejected; the second may happen after the server has done the     *)
(* work.  next is the request the continuation sends itself, or Idle.      *)
(***************************************************************************)
Succeeded(s, op, next) ==
  /\ reqs[s].op = op /\ reqs[s].done
  /\ reqs' = [reqs EXCEPT ![s] = next]
  /\ lapped' = Lapped(reqs')
  /\ UNCHANGED <<page, table, stale>>

FailedThen(s, op, next) ==
  /\ reqs[s].op = op
  /\ reqs' = [reqs EXCEPT ![s] = next]
  /\ lapped' = Lapped(reqs')
  /\ stale' = TRUE
  /\ UNCHANGED <<page, table>>

Failed(s, op) == FailedThen(s, op, Idle)

\* One request of a Promise.all is refused or fails.
FailedInBatch(s) ==
  /\ reqs[s].op = "batch"
  /\ \E i \in Ids : /\ reqs[s].rows[i] # "none"
                    /\ reqs' = [reqs EXCEPT ![s] = Resolved(@, i, "none")]
  /\ stale' = TRUE
  /\ UNCHANGED <<page, ui, table, lapped>>

(***************************************************************************)
(* The handlers most pages share.                                          *)
(***************************************************************************)
\* Mutant: the answer of a failed load is taken without Array.isArray.
LoadUnchecked(s) ==
  \/ /\ Succeeded(s, "load", Idle)
     /\ ui' = [ui EXCEPT !.rows = reqs[s].rows, !.loading = FALSE]
  \/ /\ Failed(s, "load")
     /\ ui' = [ui EXCEPT !.rows = [i \in Ids |-> "undefined"],
                         !.loading = FALSE]

\* try { setX(json.data) } catch { } finally { setLoading(false) }
LoadKeeps(s) ==
  \/ /\ Succeeded(s, "load", Idle)
     /\ ui' = [ui EXCEPT !.rows = reqs[s].rows, !.loading = FALSE]
  \/ /\ Failed(s, "load")
     /\ ui' = [ui EXCEPT !.loading = FALSE]

\* The same with catch { setX([]) }.
LoadClears(s) ==
  \/ /\ Succeeded(s, "load", Idle)
     /\ ui' = [ui EXCEPT !.rows = reqs[s].rows, !.loading = FALSE]
  \/ /\ Failed(s, "load")
     /\ ui' = [ui EXCEPT !.rows = NoRows, !.loading = FALSE]

\* setIsModalOpen(false) closes this dialog and no other.
Closed(d) == IF ui.dialog = d THEN "none" ELSE ui.dialog

\* The continuation of a form that, once stored, is closed and emptied.
SavedThenReload(s, op, d) ==
  \/ /\ Succeeded(s, op, Load)
     /\ ui' = [ui EXCEPT !.dialog = Closed(d), !.typed = @ \ {d},
                         !.loading = TRUE]
  \/ Failed(s, op) /\ UNCHANGED ui

\* The continuation of a row's button that reloads the list.
DoneThenReload(s, op) ==
  \/ Succeeded(s, op, Load) /\ ui' = [ui EXCEPT !.loading = TRUE]
  \/ Failed(s, op) /\ UNCHANGED ui

\* The continuation of a row's button that patches the list on the screen.
DonePatched(s, op, v) ==
  LET i == reqs[s].id
  IN  \/ /\ Succeeded(s, op, Idle)
         /\ ui' = [ui EXCEPT !.rows = IF @[i] = "none" THEN @
                                      ELSE [@ EXCEPT ![i] = v]]
      \/ Failed(s, op) /\ UNCHANGED ui

-----------------------------------------------------------------------------
(***************************************************************************)
(* What the user can do on any page.                                       *)
(***************************************************************************)
\* A table with a "Loading..." row in place of its rows while it loads.
TableBody == IF ui.loading THEN NoRows ELSE ui.rows

\* The rows that are still to be acknowledged.
OpenOnly(rows) == [i \in Ids |-> IF rows[i] = "new" THEN "new" ELSE "none"]

\* Clicking a button in row i of the body sends a request.
ClickRow(body, i, r) ==
  /\ ui.dialog = "none"
  /\ body[i] # "none"
  /\ Send(r)
  /\ UNCHANGED ui

UserOnly == UNCHANGED <<page, table, reqs, lapped, stale>>

OpenDialog(d) ==
  /\ ui.dialog = "none"
  /\ ui' = [ui EXCEPT !.dialog = d]
  /\ UserOnly

TypeForm(d) ==
  /\ ui.dialog = d /\ d \notin ui.typed
  /\ ui' = [ui EXCEPT !.typed = @ \union {d}]
  /\ UserOnly

\* Closing a dialog leaves what was typed in the form's state.
CancelDialog(d) ==
  /\ ui.dialog = d
  /\ ui' = [ui EXCEPT !.dialog = "none"]
  /\ UserOnly

DialogSteps(d) == OpenDialog(d) \/ TypeForm(d) \/ CancelDialog(d)

\* onSubmit of a form whose required inputs are filled in.
SubmitForm(d, r) ==
  /\ ui.dialog = d /\ d \in ui.typed
  /\ Send(r)
  /\ UNCHANGED ui

\* An interval, or a button, runs the page's load function again.
LoadAgain ==
  /\ Send(Load)
  /\ ui' = [ui EXCEPT !.loading = TRUE]

-----------------------------------------------------------------------------
(***************************************************************************)
(* Navigation.  Mounting runs the effects of the first render.             *)
(***************************************************************************)
MountTables ==
  {t \in [Ids -> {"none", "new"}] :
     \A i, j \in Ids : i < j /\ t[i] = "none" => t[j] = "none"}

MountWith(q, u, r) ==
  /\ page = "Away"
  /\ page' = q /\ ui' = u
  /\ table' \in MountTables
  /\ reqs' = [s \in Slots |-> IF s = 1 THEN r ELSE Idle]
  /\ UNCHANGED <<lapped, stale>>

Mount(q, u) == MountWith(q, u, Load)

Leave ==
  /\ page # "Away"
  /\ page' = "Away" /\ ui' = Blank /\ table' = NoRows
  /\ reqs' = [s \in Slots |-> Idle]
  /\ lapped' = FALSE /\ stale' = FALSE

Init ==
  /\ page = "Away" /\ ui = Blank /\ table = NoRows
  /\ reqs = [s \in Slots |-> Idle]
  /\ lapped = FALSE /\ stale = FALSE
=============================================================================
