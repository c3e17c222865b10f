# Verification of RudraNetra

RudraNetra is a fleet tracking platform. GPS trackers talk the Teltonika TCP
protocol to `rudra-ingest`, which stores positions in PostgreSQL and publishes
them on Redis; `rudra-worker` evaluates alert rules on what is published;
`rudra-api` serves a REST interface and a WebSocket feed to a React client, and
publishes remote commands that `rudra-ingest` delivers to the trackers. Every
row belongs to a company (tenant).

This directory holds TLA+ models of its concurrent core, TLC instances of them,
and TLAPS proofs. `PROJECT.json` maps each definition to source lines, lists
the runs, the mutants that show each property can fail, the hazards and the
theorems. Paths below are relative to `src/backend/` unless they begin with
`frontend/` or `docs/`.

## 1. Inventory

| Component | State it keeps | Operations | Talks to | What is hard | Correct when |
|---|---|---|---|---|---|
| Live feed hub (`internal/websocket/hub.go`, `wsTrackingHandler` in `internal/handler/handlers_ops.go`, the Redis subscribers of `cmd/rudra-api/main.go`) | `clients` by company, three channels, one `Send` channel and two goroutines per browser | register, unregister, broadcast, read, write, ping | Redis events in, sockets out | two goroutines unregister one client; unbuffered and full channels; a peer that stops reading | no panic, no event across tenants, a feed without gap or reordering, no leaked goroutine |
| Device sessions and commands (`cmd/rudra-ingest/main.go`, `sendDeviceCommandHandler` in `internal/handler/legacy_handlers.go`) | `sessions`, `lastCommand`, rows of `device_commands` | accept, handshake, read loop, reply, subscriber, shutdown | Redis channel, PostgreSQL, tracker sockets | four kinds of goroutine share this state without a lock; reconnects; crashes; failing statements | a command progresses only after it reached its device, status never goes back, replies stay with their device, registry entries are live |
| Stream framer (`internal/codec/framing.go`) | `buf` | `Append`, `Next` | read loop of a connection | frames cut anywhere, corruption, resynchronisation | frames independent of the cutting, bounded buffer, the loop ends |
| AVL ingestion (`handleAVLFrame`, `internal/repository/postgres/position_repo.go`) | rows of `positions`, device heartbeat | decode, insert in chunks, acknowledge, publish | tracker, PostgreSQL, Redis | failure between two chunks, acknowledgement versus stored rows, resends | no record acknowledged that is not stored, none published that is not |
| Teltonika codec (`internal/codec/teltonika.go`) | none | parse Codec 8/8E/12, encode Codec 12 | ingestion | lengths, counts, optional groups | parse inverts encode, never reads past the payload |
| Alert engine (`internal/alertengine/engine.go`, `cmd/rudra-worker/main.go`) | rule cache, cooldowns, alert rows | refresh, evaluate, insert, publish | Redis, PostgreSQL | stale cache, cooldown set before a failed insert, state lost on restart | at most one alert per cooldown, none of a rule unknown at refresh |
| Browser live client (`frontend/apps/client/src/hooks/useWebSocket.ts`, `store/vehicleStore.ts`, `App.tsx`) | sockets, reconnect timers, requests under way, the vehicle map | connect, open, message, close, reconnect, fetch, poll, mount, unmount | hub, REST | sockets, timers and requests outlive the session they were made in | one socket or timer per run of the effect, a fleet that catches up, nothing of another company |
| Device and vehicle registry (`internal/handler/handlers.go`, repositories) | `devices`, `vehicles`, their assignment | create, assign, unassign, delete | PostgreSQL | two-sided assignment, checks outside a transaction | assignment is one to one and within a company |
| Company-scoped REST handlers (`handlers_ops.go`, `legacy_handlers.go`, `handlers_admin.go`, `handlers_settings.go`) | all other tables | list, create, update, delete | PostgreSQL | company filter in every statement | a company reads and changes its own rows only |
| Authentication (`internal/service/auth_service.go`, `frontend/apps/client/src/store/authStore.ts`, `LoginPage.tsx`, `utils/api.ts`) | users; token and user in the browser, twice (store and localStorage) | sign in, sign up, logout, 401, page load | REST | a 401 of an older request, a storage that refuses a write | no page without a session, a session is one company's |
| List pages of the client and of the administration (`frontend/apps/client/src/pages`, `components/shared/Header.tsx`, `frontend/apps/admin/src/pages`) | a list, flags, dialogs and forms per page; the table on the server | load, create, edit, delete, acknowledge, toggle, save, poll | REST | every handler is cut in two by its request; loads overtake changes; some of several requests fail | a page at rest shows the table, flags follow requests, nothing is shown as done that is not |
| Trip history, reports, telemetry (`PlaybackPage.tsx`, `ReportsPage.tsx`, `components/vehicle/TeltonikaDetailsModal.tsx`) | a track with a cursor and a map; a report; a log | select, play, seek, choose, export, poll | REST, vehicle store, map library | answers out of order, a map that loads after its data, pushes between polls | what is shown belongs to what is selected, the animation ends, the log catches up |
| Report and tracking queries, domain types, remaining pages | none of their own | read and format | - | - | - |

Modelled are the hub, the device sessions, the framer, the live client with the
browser's part of authentication, the list pages of both applications and the
three views. The hazards these and the remaining components are exposed to are
listed in `PROJECT.json`, each at its line.

## 2. Modules

| Module | Models |
|---|---|
| `Hub`, `MCHub`, `HubProofs` | the live feed of `rudra-api` |
| `DeviceSessions`, `MCDeviceSessions`, `DeviceSessionsProofs` | device sessions and remote commands |
| `Framer`, `MCFramer`, `FramerProofs` | frames out of a byte stream |
| `FleetView` | what a browser tab promises its user (abstract) |
| `LiveClient`, `MCLiveClient`, `LiveClientProofs` | the live part of one browser tab, shown to implement `FleetView` |
| `PageCore` | what all list pages share: React state, requests, the server's table |
| `ClientPages`, `AdminPages` | the list pages of the two applications, on `PageCore` |
| `Pages`, `MCPages`, `PagesProofs` | their composition, one page mounted at a time, and the properties |
| `Playback`, `PlaybackProofs` | trip history on a map |
| `Reports`, `ReportsProofs`, `Telemetry` | reports; the log of one tracker |
| `Views`, `ViewsProofs` | composition of the last three, one mounted at a time |

### Hub

`clients` is `h.clients`; `hubPc`, `cur`, `todo` and `victim` are where `Run` is
and the loop variables of its fan-out; `broadcast` is the buffered channel and
`sub` the event each Redis subscriber holds while it blocks on it. Per browser,
`handler`, `reader`, `writer` are program counters of `wsTrackingHandler` and of
the two goroutines it starts, `held` the message being written, `send` and
`sendClosed` the `Send` channel, `sock` the peer. An unbuffered channel operation
is one joint step of sender and receiver (`HubRegister`, `HubUnregisterReader`,
`HubUnregisterWriter`). The fan-out visits the clients one by one in any order
(Go's map iteration), each a step, so goroutines run between two sends.
`HubOverflows` is the `default` branch, `h.Unregister <- client`: `Run` waits for
a receiver, the only receiver is `Run`, and the model has no step out of that
state. A write blocks while the peer stalls because the code sets no write
deadline; a read fails after 60 s without a pong.

`fanned`, `span`, `enqueued` and `written` are history: what `Run` took from
Broadcast, the part of it that falls into a client's registration, what was put
into its `Send` and what its socket took.

The read loop discards every frame it reads and nothing calls
`Client.Subscribe`; hence `SubscribedDevs` is empty and `IsSubscribed` true.
`docs/api.md` describes a subscribe frame; it has no effect.

### DeviceSessions

`pc[k]` follows `handleDeviceConnection` of connection `k`; every read or write
of `sessions`, of a `lastCommand`, of a socket and of a row is a step, because
nothing locks them together. `sub` is `subscribeCommands`, `main` the shutdown
sequence, `request` the two steps of `sendDeviceCommandHandler`. Statements use
the process's context: after `cancel()` they fail, before it they may
(`DbMayFail`), and the code ignores either. `Restart` is a crash at any point:
rows survive, everything else is lost. `wrote` and `replied` are history.

Modelled from the use the code makes of it: a device has one connection it
considers its own, answers the commands it receives in order, and may fall
silent or vanish; a write to a peer that has vanished may still succeed.

What the model shows beyond the properties checked: a reply read between
`conn.Write` and `lastCommand.Store` is dropped; a reply recorded between
`lastCommand.Store` and the UPDATE to `Delivered` leaves `delivered_at` empty;
and a connection whose registry entry an older connection deleted is not closed
by the shutdown, so `wg.Wait` lasts as long as its peer.

### Framer

The sizes (number of byte values, preamble, checksum, cap) are parameters and a
length has two digits in that base, so that TLC can enumerate streams and the
proofs hold for the sizes of the code's header layout in general. One iteration
of the loop in `Next` is one step. The checksum is carried along: the code counts a
mismatch and returns the frame all the same.

`Decode` is the reference: it scans a whole byte sequence from one suffix to the
next, with nothing of the buffer or of reads in it. What a device sends is a
member of `Lines`: any bytes at all, or bytes that carry given frames in the sense of
`Carries` (noise without zeros, then frames one behind the other, laid out as
`buildFrame` of the device simulator does). `LinesAssumption` says so, and TLC
checks it of the lines of the run.

### LiveClient and FleetView

`session` is the token and user of `authStore`; `saved` and `savedUser` are its
two entries of localStorage, each of which the browser may refuse to write.
`store` is the map of `vehicleStore`. `fetches` are the requests of
`fetchVehicles` under way; each keeps the company of the render that sent it,
and the server reads the fleet at some moment before the answer (`FetchRead`).
`signIns` counts the sign-in and sign-up requests under way. Submitting and the
answer are two steps (`SubmitSignIn`, then `SignIn`, `SuperadminSignIn` or
`SignInFails`), and the answer finds the tab on whatever page it is by then.

`feeds` has an entry per run of the effect of `useWebSocket`, which counts the
sockets and reconnect timers that go back to it and remembers what an open
socket has delivered. The effect runs when the header mounts and again when its
token changes, which a late sign-in answer brings about. The cleanup closes
`socketRef`, the socket dialled last, and no timer: after a change of token
under a mounted header the old token's feed goes on beside the new one, and the
two take turns at being `socketRef`. `firstRun` tells the runs of the mounted
header from those of earlier ones.

Sockets, timers and requests belong to a page load, not to a session: signing
out closes the mounted header's socket, whose `onclose` sets a timer as always,
and leaves requests alone. Only `Load` (and the page load after a 401, or on the
way to the administration) ends them.

A device's state is a version number, a company is its token. The layout stays
mounted from page to page: every route has it at the same place of the tree.
Modelled is one tab of a production build (no double mount of React's strict
mode); two tabs that share one localStorage are not. Two requests for the same
company that nobody has served yet are one.

`FleetView` has no requests, sockets, timers or storage: a session begins with
nothing shown, `Show` shows states of the company's devices that the server has
had, and on the live page `CatchUp` comes before long. The refinement maps
`view` to the part of `store` that is of the session's company; that the rest
of `store` is empty does not hold (`live_company`).

### PageCore, ClientPages, AdminPages, Pages

Every handler of a page is two actions, cut at its `await fetchWithAuth(...)`:
`HandleRegisterSubmit` sends, `Registered` is the continuation. Between the two
the server does its part (`Serve`) or not, the user clicks on, and other users
change the table (`Elsewhere`). A request may fail before or after the server
has done it. `ui` is the React state, `table` the rows, `reqs` the requests
under way. `lapped` and `stale` are history. `lapped` says that, since the last
load that ran alone, something happened that no page guards against: a load
overlapped another load or a change the page patches into its list, two contrary
switches of a row overlapped, or a tab of the lookups was left while a request of
it was under way. `stale` says that another user changed the table, or a request
failed, since the last SELECT.

What a SELECT answers is `Selected`: deleted rows are not in it, and on
`CutPanels` the server cuts the list to the `ListLimit` newest rows in whatever
state they are. The browser filters afterwards, so an open alert can be on no
screen although the flyout has room. The settings are stored field by field and
a blank field leaves the stored one (`COALESCE(NULLIF(..))`), which `ServePut`
keeps.

Rows carry what the handlers tell apart, not their columns. A form is "filled
in" or not; a form the code refuses (an empty IMEI, a zone with fewer than three
vertices) counts as not filled in. Filters, search, tabs within a list and
paging are free choices of the user and so are not state. A `Promise.all` of a list and of
the options of a form is the list's request. Toasts are left out. A page whose parts
share no state is several panels. An answer that arrives after its page was
left is dropped: React ignores the `setState`.

Seen on the way, not stated as properties: `AlertsPage.tsx:131` announces a
"Silent auto-refresh", but `loadData` sets `loading` and the table is blank
while it runs; the forms without a submitting flag can be sent twice; and a new API
key is written into the form that is open when it arrives, which may be another
company's (`CompanyManagerPage.tsx:258`).

### Playback, Reports, Telemetry, Views

`Playback` has the history request with its `isCancelled`, the loading of the
map and the animation side by side. `missed` notes a request that failed, which
leaves the track before on the page, and `early` a track that arrived before the
map had loaded: the 'load' handler then draws the empty route of the first
render and hides the marker, and nothing draws the track until the next one arrives.
An answer and the render it causes are one step. In the browser the interval of
the old render may fire between the two; when React renders is not in the repository.

`Reports` keeps the fetches under way in the order they were sent; the code does
not cancel them and the last answer wins, whichever choice it is for. `behind`
is how many of them were sent before the newest that has been answered, and
`overtaken` says that one of those was answered after it.

In `Telemetry` a row is its record's time; a poll replaces the rows, a change of
the store puts one on top. `sent` are the records that reached `rudra-ingest` and
`stored` those in the database: of a frame of which some chunk was stored all
records are published (`cmd/rudra-ingest/main.go:332-343`), so the store may hold
one that is not in the database, or comes there only when the device sends it
again (`RecordResent`). The server resolves the vehicle by id, registration or
device id, the first that matches; the model has one vehicle, the one meant. New records come only
while the dialog is open, which bounds the model without hiding a case. The CSV
export of this dialog writes the rows on screen, live ones included, where the
comment at `TeltonikaDetailsModal.tsx:431` says fetched rows only.

## 3. Runs

| Run | Instance | Checks |
|---|---|---|
| `hub` | 2 browsers of a tenant, positions of it and alerts of another, 2 events, buffers of 1 | `TypeOK`, `NoPanic`, `TenantIsolation`, `FeedComplete` |
| `hub_live` | 1 browser, 4 events, `Send` of 2 | `FeedInOrder`, `SessionsEnd`, `EventsFannedOut` |
| `hub_overflow` | 1 browser, 3 events, `Send` of 1 | `OverflowDisconnects`, violated |
| `sessions` | 2 devices, 2 connections, a command each, failing statements, shutdown | `TypeOK`, `ProgressMeansWritten`, `OwnDeviceResponse` |
| `sessions_live` | a device that reconnects, 1 command, failing statements, shutdown, a crash | `RegistryLive`, `StatusMonotone`, `LostConnectionEnds` |
| `sessions_attribution` | 1 connection, 2 commands | `AcknowledgedMeansReplied`, violated |
| `sessions_reconnect` | a device that reconnects, 1 command | `MissedOnlyIfOffline`, violated |
| `framer` | every stream of 7 bytes over 3 values; up to 2 frames after noise; every cutting | `ChunkingIrrelevant`, `BufferBounded`, `Reassembles`, `LoopShrinks`, `NextReturns` |
| `live_client` | 2 companies, a device of one of them, 2 versions, 2 requests and a sign-in under way, 2 runs of the effect in a page load | `TypeOK`, `OneLinkPerRun`, `StoreSettles`, `FeedReconnects`, `ImplementsView` |
| `live_company` | 2 companies with a device each, 1 request and a sign-in under way, 2 runs | `OwnFleetOnly`, violated |
| `pages` | 25 panels, 2 requests under way, other users, failures; 2 rows, but 3 alerts on the dashboard and in the header, of which an answer holds 2 and the flyout 1 | `TypeOK`, `ScreenIsCurrent`, `FlagsMatchRequests`, `AckShownIsStored`, `OnlyChangedRolesWritten`, `DroppedIsAcknowledged` |
| `views` | 2 vehicles with tracks of up to 3 points, 2 reports with 3 fetches under way, 3 records | `TypeOK`, `RouteOfSelection`, `DrawnIsRoute`, `ReportUnderTitle`, `PlaybackStops`, `PollCatchesUp` |

The four violations, each with its line of documentation in `PROJECT.json`:

- `hub_overflow`: with `Send` full, `Run` blocks on `Unregister`. The browser
  stays registered and no browser of any company receives anything more. The
  comment at the line says the client is disconnected.
- `sessions_attribution`: a session remembers one command id. With two commands
  written, the reply to the first acknowledges the second.
- `sessions_reconnect`: `defer sessions.Delete(imei)` of the old connection
  runs after the new one has stored its session; commands for a connected
  device are then dropped as if it were offline.
- `live_company`: the cleanup of `useWebSocket` closes the socket, `onclose`
  sets a timer that dials again with the token of its own render, and an answer
  to `fetchVehicles` replaces the map whoever is signed in. After a second
  sign-in in the same page load the store holds vehicles of the first company,
  until the next poll replaces them (`StoreSettles`), and again with every
  position the old feed delivers.

`SessionsEnd` and `EventsFannedOut` end in `\/ HubBlocked` because of the first:
once `Run` blocks on itself nothing progresses, and the two properties say that
this is the only way.

Some properties of the browser except what the code does not prevent, and say so
in their comments; the hazards they except are real and are listed with a note.
`ScreenIsCurrent` and `DroppedIsAcknowledged` except `lapped` (the former `stale`
too), `DrawnIsRoute` a track that arrived before the map (`early`), and
`ReportUnderTitle` the time after an answer that was overtaken. What is left is
that nothing else goes wrong: every handler patches its list or reloads it, one
load alone repairs the screen, and every other order of answers is harmless.
`OneLinkPerRun` does not say that a header has one feed, which is false once a
token has changed under it, but that runs do not multiply theirs.

**Bounds.** `MaxPublished` events, `MaxRestarts` crashes, the number of
connections and of commands bound the behaviours. Two browsers are needed for one to change the
registry while the other is being visited; `Send` of 1 fills with one stalled
write and two events, and 2 is the least at which taking the wrong element
shows. A second connection is what a reconnect needs, a second command what a wrong
attribution needs, a second device what a misdirected reply needs. A stream of 7
bytes holds a whole frame (6) with a byte of noise on either side, or a false
preamble inside it. Interchangeable browsers and connections are declared
symmetric in the safety-only runs. In the browser: a second company is what a
leak needs, a second run of the effect what a feed that outlives its token or its header needs, a second
version what "older" needs. Two requests let a load overtake a change or another
load; two rows let one of a batch fail. Three points give a cursor a middle,
three records let a list be cut and one of it be missing. A third fetch lets an answer be
overtaken by one and overtake another. `ListLimit` of 2 with three alerts lets each reason for
leaving the flyout occur by itself. `MaxVersion` means that devices stop
reporting at some point; `StoreSettles` is therefore about a fleet that has come to rest,
after any interleaving before.

`CHECK_DEADLOCK FALSE` stands in the configurations of `Hub`, `DeviceSessions`
and `Framer` because each instance ends: the bounded supply of events,
connections or bytes runs out and every goroutine waits. The browser models
never stop and are checked for deadlock.

**Fairness.** In `Hub`, `Run`, the subscribers and the goroutines of a browser are scheduled, each waiting channel operation is
eventually served (Go's `select` chooses at random among the ready cases), and a
read from a peer that is not answering fails (read deadline of 60 s). Writes to
a stalled peer need not return; browsers and Redis promise nothing. In
`DeviceSessions`, each goroutine is scheduled, statements return, and a read
from a lost peer fails (TCP keepalive, on by default for accepted connections
in Go); a connected device may stay silent for ever. In `Framer`, the goroutine
is scheduled. In `LiveClient` and `Views` the browser runs its intervals and
timers (weak fairness of `Poll`, `ConnectAgain`, `Tick`, `PollLogs`), a request
ends one way or the other, and a server that is asked or dialled again and again
succeeds again and again (strong fairness); no single request, answer or
connection need succeed, and the user and the devices promise nothing. `Pages`
has safety properties only.

## 4. Proofs

Each theorem holds for every set of clients, companies, devices, connections,
commands, rows and bytes and every capacity, under the named assumptions of the
module (constants of the right kind, "no client" not being a client, and so on).
Every invariant the passing runs check is proved, and every action property;
what is left to TLC is liveness.

**HubProofs.** `TypeCorrect`, `HubNeverPanics` and `TenantsIsolated`, from
`HubInv`. `NoPanic` is not inductive: a send is harmless only because a visited
client is still registered, and a close only because a registered client's
`Send` is open. `HubInv` therefore adds that a registered client has an open
`Send` and is of the company it is stored under (`RegistryInv`), that a client
the hub has not registered yet has an open `Send` and no goroutines
(`FreshInv`), and that whoever the fan-out still has to visit is a registered
client of the current event's company (`FanoutInv`). Removal happens only at the `select`, which is why the audience
cannot shrink under the loop.

`FeedsAreComplete` and `FeedsStayInOrder` follow from `FeedInv`, on top of
`HubInv`. For the order: what was written, what the write goroutine holds and
what is in `Send` are together what was enqueued (`WriterInv`). For completeness:
while the loop runs the current message is the last one taken, a client still
to be visited was registered before it, and between two messages nobody is
left to visit (`LoopInv`), so that the events of a client's span are exactly
those it was handed, one fewer while it waits for its turn.

**DeviceSessionsProofs.** `SessionsInvariant`, `SessionTypesHold`, `ProgressWasWritten`,
`ResponsesStayHome`, `RegistryStaysLive` and `StatusNeverGoesBack`, from
`SessionsInv`. The properties speak of rows; the invariant follows a command
id from the row to the bus, the subscriber, the wire, `lastCommand` and
`handleCommandResponse` back to the row, and says at each place that the command was
requested, that its target is the device at the end of that connection and, past the
write, that it was written to a connection of that device. There is a lemma per
action, and `MoveStep` for those that only move one program counter.

**FramerProofs.** `FramerInvariant`, `BufferStaysBounded` and `NextConsumes`
follow from the types and the fact that the goroutine waits only with less than one whole frame of the
largest size. `IterationStep` shows that each iteration either waits or
leaves a shorter buffer.

`ChunkingNeverMatters` needs an invariant that survives bytes still to come.
`ScanInv` says: whatever bytes `e` follow, `Decode(stream \o e)` is the frames
returned so far and then `Decode(buf \o e)`. A read only moves bytes from `e`;
each iteration of `Next` must decide about the front of the buffer in a way no
later byte can undo, which is what the header and length checks are for. `Decode` is a recursive
function of the suffix length. That it exists and satisfies its recursion is
proved rather than assumed: the least length at which two attempts would differ, or at which
there would be none, is contradicted (`WFMin` of the library gives least
elements without induction over an operator).

`DeviceFramesArrive` is from `LineInv`: when the device's bytes carry frames,
`buf` followed by the unread bytes is what remains of the line from the place of the next
frame, or, before the first frame, from somewhere in the noise; and the frames
returned are the first of those sent. Noise without zeros and codec ids the code
knows are assumed of such lines (`Carries`, `Sendable`); a line with zeros in
its noise may hide a frame, and for it `ChunkingNeverMatters` is what holds.

**LiveClientProofs.** `LiveInvariant`, `LiveTypesHold`, `FeedsStaySingle`, from
`LiveInv`: types, `OneLinkPerRun` and `NotAhead`, that neither the store nor an
answer under way is newer than the server. `OneLinkPerRun` needs of the types
that `socketRef` is one of the mounted header's runs: the cleanup closes that
feed, whichever it is, and leaves it one timer. The refinement needs `NotAhead`: an answer is
shown as it was read, and `Show` asks for a state the server has had.
`TabImplementsView` proves `LiveSafety => View!ViewSafety`, action by action:
what changes the session clears the view (`Begin`), page changes are `Move`,
`Publish` is `Report`, answers and messages are `Show`, everything else a
stutter.

**PagesProofs.** All safety properties of `Pages`: `PagesTypes`,
`FlagsAlwaysMatch`, `OnlyChangedRolesAreWritten`,
`AcksShownAreStored`, `ScreenStaysCurrent` and `DropsAreAcknowledged`. The
argument has two layers. First, the hundred or so handlers of the 25 panels are
shown to be instances of a dozen shapes of a step (`StepShape`: mount, leave, a
click, a request sent, a load or a change that succeeded or failed, a patch of
the list, a step of the server, another user); here each page's own code is
looked at. Then each part of the invariant is proved shape by shape:

- `RequestsInv`: which requests a page can have under way, with which arguments;
- `LoadingInv`, `BusyInv`: what the flags stand for, and that a locked form has
  one request;
- `RolesInv`: the permission page has one request at a time, and a save under way
  has only changed roles left to write;
- `AckInv`: a list under way, and a patch the server has done, say "done" of
  acknowledged rows only;
- `OverlapInv`, `TabInv`, `ScreenInv`: unless `lapped` or `stale`, a list under way
  is what a SELECT would answer now, and the list on the page differs from that
  only in rows the answer reaches back to (`Reached`) whose patch the server has
  done and whose answer is still to come (`Covered`), or while a change with a
  reload is (`Dirty`);
- `FlyoutInv`: unless `lapped`, a list for the flyout has every row the flyout
  shows, save those with `ListLimit` newer ones in the table (`Crowded`). The flyout keeps the newest rows only, and `LatestFull`
  shows that a row is cut off only when the flyout is full.

`PageAssumption` asks for finitely many rows and for row 1, the category that
`MastersPage` shows first; `FlyoutSize` (5 in the code) and `ListLimit` (100 or 200)
are any positive numbers.

**PlaybackProofs.** `PlaybackInvariant`, `RouteStaysSelection`,
`MapFollowsPage`, from `PlaybackInv`. The two properties are not inductive:
`OwnFetches` says that a request that is not cancelled is for the selected
vehicle, `EarlyNoted` that before the map has loaded a track on the page
is noted as early.

**ReportsProofs.** `ReportStaysUnderTitle`, for any number of fetches answered in any order, from the types and
`NewestIsChoice`: until it is answered, the fetch sent last is for the present choice.

**ViewsProofs.** The two modules above are about a page alone, the run about
three pages under a router. `RouterStep` shows that a step of `Views` is a step of
each page or leaves it alone, hence `ViewsInvariant` and `ViewsShowTheirOwn`.
`ViewsTypes` needs an invariant of the tracker's log as well (`TelemetryInv`): no load under way
asks for more rows than the largest range, and every row in the log, in an answer
under way and in the database is of a record the tracker has sent. `TelemetryAssumption` asks that the select of the range has a
largest option.

**Only model-checked.** Liveness, which the prover does not support
(`SessionsEnd`, `EventsFannedOut`, `LostConnectionEnds`, `NextReturns`,
`StoreSettles`, `FeedReconnects`, `PlaybackStops`, `PollCatchesUp`, and the
fairness of `FleetView` in `ImplementsView`). The four properties of the
violation runs do not hold.

## 5. Not modelled

Logging, metrics and HTTP formatting; the wire format of AVL records inside a
frame; the panic recovery and read deadlines of the HTTP server; SQL that only
reads. In the browser: styling, map styles, playback speed, toasts, charts,
search and paging, printing and file downloads, the nearest-vehicle and
nearest-amenity dialogs of the live page, which compute over the store.
In the modelled parts: AVL frames share a device's socket with command replies but none
of the modelled state, and the device heartbeat writes a column nothing here
reads. Redis and PostgreSQL appear through the code's use of them: fire-and-forget
delivery to current subscribers, and statements that succeed or fail as a whole.

## 6. Plan

In order; the first seven are done.

1. `Hub`: safety, liveness, overflow, proofs of all its safety properties.
2. `DeviceSessions`: with restart and shutdown, proofs of all its safety properties.
3. `Framer`: against a reference decoder, proofs of all its safety properties.
4. `FleetView` and `LiveClient`: sessions, requests and sockets of a tab; refinement, checked
   with its fairness and proved without it.
5. `PageCore`, `ClientPages`, `AdminPages`, `Pages`: the list pages.
6. `Playback`, `Reports`, `Telemetry`, `Views`: the views, proofs of all their safety properties.
7. Proofs of the page properties.
8. `AvlPipeline`: `handleAVLFrame` with `InsertBatch` in chunks of 200, failure
   between chunks, acknowledgement, resend, publication. Theorem: an
   acknowledged count never exceeds the stored rows.
9. `AlertEngine`: rule cache, cooldown, restart. Theorem: two alerts of a rule
   and device are a cooldown apart within one life of the process.
10. `TenantStore` and `DeviceRegistry`: the row-changing REST handlers over a
    store partitioned by company, and the two-sided assignment of devices to
    vehicles. Theorem: no action changes or returns another company's rows.
11. `LiveFeed`: an abstract feed (each browser a prefix of its tenant's events
    since it registered), shown to be implemented by `Hub` from `FeedInv`.
