------------------------------- MODULE LiveClient -------------------------------
(***************************************************************************)
(* The live part of one browser tab: the session of authStore and its copy *)
(* in localStorage, the fleet of vehicleStore, the REST requests that      *)
(* replace the fleet (fetchVehicles), and the sockets of useWebSocket that *)
(* update one vehicle at a time.                                           *)
(*                                                                         *)
(* Requests, sockets and timers belong to the page load that started them, *)
(* not to a session: nothing cancels them when the user signs out, and     *)
(* each keeps the token and company of the render it was made in.  Only    *)
(* loading the page anew ends them.                                        *)
(*                                                                         *)
(* A device's state (position, speed, driver...) is a version number, 0 in *)
(* the store for a device that is not in the map.  A company is its token: *)
(* the server scopes by it alone, and of the stored user record only       *)
(* whether it is there matters.  Two tabs that share one localStorage are  *)
(* not modelled.                                                           *)
(***************************************************************************)
EXTENDS Naturals, Sequences, FiniteSets

CONSTANTS
  Companies, NoCompany,
  Devices,
  CompanyOf,    \* the company of each device
  MaxVersion,   \* bound on the states a device goes through
  MaxFetches,   \* bound on requests for the fleet under way
  MaxSignIns,   \* bound on sign-ins and sign-ups under way
  MaxRuns       \* bound on runs of the socket's effect in one page load

ASSUME LiveAssumption ==
  /\ NoCompany \notin Companies
  /\ CompanyOf \in [Devices -> Companies]
  /\ MaxVersion \in Nat \ {0} /\ MaxFetches \in Nat \ {0}
  /\ MaxSignIns \in Nat \ {0} /\ MaxRuns \in Nat \ {0}

VARIABLES
  session,    \* token and user of authStore
  saved,      \* rudra_auth_token of localStorage
  savedUser,  \* whether rudra_auth_user is there too
  page,       \* "away", "login" (or sign-up), "live", or "other" for a page with
              \* the same layout as the live one
  signIns,    \* the number of sign-in and sign-up requests under way
  now,        \* what the server has stored of each device
  store,      \* vehicles of vehicleStore
  fetches,    \* the requests of fetchVehicles under way
  feeds,      \* one per run of useWebSocket's effect: its socket, or its timer
  firstRun,   \* the first of feeds that is of the mounted Header, 0 without one
  socketRef   \* the feed that dialled last in the mounted Header, 0 without one

auth == <<session, saved, savedUser>>
header == <<firstRun, socketRef>>
vars == <<auth, page, signIns, now, store, fetches, feeds, header>>

Nothing == [d \in Devices |-> 0]
FleetOf(c) == [d \in Devices |-> IF CompanyOf[d] = c THEN now[d] ELSE 0]

Fleet == [Devices -> 0 .. MaxVersion]
Sessions == Companies \union {NoCompany}
Fetch == [of : Companies, read : BOOLEAN, got : Fleet]
\* opening, open and timers count the sockets and timers that go back to one run;
\* sent is what an open socket has delivered.
Feed == [of : Companies, opening : Nat, open : Nat, timers : Nat, sent : Fleet]

TypeOK ==
  /\ session \in Sessions /\ saved \in Sessions /\ savedUser \in BOOLEAN
  /\ page \in {"away", "login", "live", "other"}
  /\ page \in {"live", "other"} => session # NoCompany
  /\ signIns \in 0 .. MaxSignIns
  /\ now \in [Devices -> 1 .. MaxVersion] /\ store \in Fleet
  /\ fetches \subseteq Fetch
  /\ feeds \in Seq(Feed)
  /\ IF page \in {"live", "other"}
     THEN firstRun \in DOMAIN feeds /\ socketRef \in firstRun .. Len(feeds)
     ELSE firstRun = 0 /\ socketRef = 0

LiveInit ==
  /\ session = NoCompany /\ page = "away" /\ signIns = 0
  /\ saved \in Sessions
  /\ savedUser \in IF saved = NoCompany THEN {FALSE} ELSE BOOLEAN
  /\ now = [d \in Devices |-> 1] /\ store = Nothing
  /\ fetches = {} /\ feeds = <<>> /\ firstRun = 0 /\ socketRef = 0

Mounted == page \in {"live", "other"}

-----------------------------------------------------------------------------
(* The sockets of useWebSocket.                                             *)

\* Mutant: onerror reconnects, and so does the onclose that follows it.
ReconnectTwice(f) ==
  [of |-> f.of, opening |-> 0, open |-> 0, timers |-> f.timers + 2, sent |-> Nothing]

\* close(), an error or the server's end: onclose sets the timer.
OnClose(f) ==
  [of |-> f.of, opening |-> 0, open |-> 0, timers |-> f.timers + 1, sent |-> Nothing]

\* connect() of the timer, onopen and onmessage.
Dialled(f) == [of |-> f.of, opening |-> f.opening + 1, open |-> f.open,
               timers |-> f.timers - 1, sent |-> f.sent]
Connected(f) == [of |-> f.of, opening |-> f.opening - 1, open |-> f.open + 1,
                 timers |-> f.timers, sent |-> FleetOf(f.of)]
Delivered(f, d, v) == [f EXCEPT !.sent = [f.sent EXCEPT ![d] = v]]

\* connect() of a run of the effect, for company c.
NewFeed(c) == [of |-> c, opening |-> 1, open |-> 0, timers |-> 0, sent |-> Nothing]

\* The cleanup of the effect closes socketRef.current, if that is not closed
\* already; the timer that onclose sets, or has set, stays.
CloseFeed(f) == IF f.opening + f.open > 0 THEN OnClose(f) ELSE f

CleanedUp ==
  IF Mounted THEN [feeds EXCEPT ![socketRef] = CloseFeed(@)] ELSE feeds

\* The layout goes, and Header with it.
Unmount ==
  /\ feeds' = CleanedUp
  /\ firstRun' = 0 /\ socketRef' = 0

\* Mutant: the check that the header is gone is the wrong way round.
ConnectIfGone(i) ==
  /\ feeds[i].timers > 0 /\ ~(Mounted /\ i >= firstRun)
  /\ feeds' = [feeds EXCEPT ![i] = Dialled(@)]
  /\ UNCHANGED <<auth, page, signIns, now, store, fetches, header>>

\* The timer of onclose: connect() of the render it was set in, with the ref of
\* the Header it was set in.
ConnectAgain(i) ==
  /\ feeds[i].timers > 0
  /\ feeds' = [feeds EXCEPT ![i] = Dialled(@)]
  /\ socketRef' = IF Mounted /\ i >= firstRun THEN i ELSE socketRef
  /\ UNCHANGED <<auth, page, signIns, now, store, fetches, firstRun>>

\* onopen; what was published before the subscription is not sent.
Opened(i) ==
  /\ feeds[i].opening > 0
  /\ feeds' = [feeds EXCEPT ![i] = Connected(@)]
  /\ UNCHANGED <<auth, page, signIns, now, store, fetches, header>>

SocketEnds(i) ==
  /\ feeds[i].opening + feeds[i].open > 0
  /\ feeds' = [feeds EXCEPT ![i] = OnClose(@)]
  /\ UNCHANGED <<auth, page, signIns, now, store, fetches, header>>

\* onmessage and updatePosition: positions of one device come in order, some may
\* be dropped by the hub.
Message(i, d, v) ==
  /\ feeds[i].open > 0 /\ CompanyOf[d] = feeds[i].of
  /\ v \in (feeds[i].sent[d] + 1) .. now[d]
  /\ store' = [store EXCEPT ![d] = v]
  /\ feeds' = [feeds EXCEPT ![i] = Delivered(@, d, v)]
  /\ UNCHANGED <<auth, page, signIns, now, fetches, header>>

-----------------------------------------------------------------------------
(* The requests of fetchVehicles.                                           *)

NewFetch(c) == [of |-> c, read |-> FALSE, got |-> Nothing]

FetchVehicles(c) ==
  /\ Cardinality(fetches) < MaxFetches
  /\ fetches' = fetches \union {NewFetch(c)}

\* Mutant: the poll leaves a fleet that is there to the WebSocket.
PollIfEmpty ==
  /\ page = "live" /\ store = Nothing
  /\ FetchVehicles(session)
  /\ UNCHANGED <<auth, page, signIns, now, store, feeds, header>>

\* The 15 s interval of LiveTrackingPage.
Poll ==
  /\ page = "live"
  /\ FetchVehicles(session)
  /\ UNCHANGED <<auth, page, signIns, now, store, feeds, header>>

\* The refresh button of ListViewPage, and the pages that fetch when they open.
Refresh ==
  /\ page = "other"
  /\ FetchVehicles(session)
  /\ UNCHANGED <<auth, page, signIns, now, store, feeds, header>>

\* The server reads the fleet of the token's company.
FetchRead(f) ==
  /\ ~f.read
  /\ fetches' = (fetches \ {f}) \union {[f EXCEPT !.read = TRUE, !.got = FleetOf(f.of)]}
  /\ UNCHANGED <<auth, page, signIns, now, store, feeds, header>>

\* The answer replaces the map, whoever is signed in by then.
FetchArrives(f) ==
  /\ f.read
  /\ store' = f.got
  /\ fetches' = fetches \ {f}
  /\ UNCHANGED <<auth, page, signIns, now, feeds, header>>

\* An error, or an answer that is lost: the vehicles stay.
FetchFails(f) ==
  /\ fetches' = fetches \ {f}
  /\ UNCHANGED <<auth, page, signIns, now, store, feeds, header>>

\* logout() of authStore: both entries of storage go.
Logout == session' = NoCompany /\ saved' = NoCompany /\ savedUser' = FALSE

\* Mutant: the layout stays on screen although nobody is signed in.
RefusedStays(f) ==
  /\ ~f.read
  /\ Logout
  /\ fetches' = fetches \ {f}
  /\ UNCHANGED <<page, signIns, feeds, header, now, store>>

\* 401: logout() of whoever is signed in; the layout goes to the login page.
FetchRefused(f) ==
  /\ ~f.read
  /\ Logout
  /\ page' = "login" /\ Unmount
  /\ fetches' = fetches \ {f}
  /\ UNCHANGED <<signIns, now, store>>

-----------------------------------------------------------------------------
(* Sessions and pages.                                                      *)

\* The layout renders page p with a token it did not have: Header's effect
\* cleans up after the token before, if there was one, and connects, and the
\* layout fetches the fleet.
Render(c, p) ==
  /\ Len(feeds) < MaxRuns
  /\ page' = p
  /\ feeds' = Append(CleanedUp, NewFeed(c))
  /\ firstRun' = IF Mounted THEN firstRun ELSE Len(feeds) + 1
  /\ socketRef' = Len(feeds) + 1
  /\ FetchVehicles(c)

\* doLogin and handleSignup, until they wait for the server.  The button is
\* disabled meanwhile, but the page can be left and opened again.
SubmitSignIn ==
  /\ page = "login" /\ signIns < MaxSignIns
  /\ signIns' = signIns + 1
  /\ UNCHANGED <<auth, page, now, store, fetches, feeds, header>>

\* setAuth, and doLogin after it, write to localStorage; any write may be refused.
WriteAuth(c) ==
  \/ saved' = c /\ savedUser' = TRUE
  \/ saved' = c /\ UNCHANGED savedUser
  \/ UNCHANGED <<saved, savedUser>>

\* Mutant: the vehicles of the session before are not cleared.
SignInOver(c) ==
  /\ signIns > 0 /\ page # "away"
  /\ signIns' = signIns - 1
  /\ session' = c /\ WriteAuth(c)
  /\ Render(c, "live")
  /\ UNCHANGED <<now, store>>

\* The answer, on whatever page the tab is by then.  Both open the live page; but
\* doLogin ends before that when the last of its writes is refused.
SignIn(c) ==
  /\ signIns > 0 /\ page # "away"
  /\ signIns' = signIns - 1
  /\ store' = Nothing
  /\ session' = c /\ WriteAuth(c)
  /\ \/ Render(c, "live")
     \/ Mounted /\ Render(c, page)
     \/ ~Mounted /\ UNCHANGED <<page, fetches, feeds, header>>
  /\ UNCHANGED now

SignInFails ==
  /\ signIns > 0
  /\ signIns' = signIns - 1
  /\ UNCHANGED <<auth, page, now, store, fetches, feeds, header>>

\* Nothing that was under way outlives the page load.
LeavePage == store' = Nothing /\ signIns' = 0

\* The super administrator is sent to the console, another application.
SuperadminSignIn ==
  /\ signIns > 0 /\ page # "away"
  /\ LeavePage
  /\ page' = "away" /\ session' = NoCompany
  /\ fetches' = {} /\ feeds' = <<>> /\ firstRun' = 0 /\ socketRef' = 0
  /\ UNCHANGED <<saved, savedUser, now>>

HandleLogout ==
  /\ Mounted
  /\ Logout
  /\ store' = Nothing
  /\ page' = "login" /\ Unmount
  /\ UNCHANGED <<signIns, now, fetches>>

\* A link, or the browser's back button; the layout stays mounted from page to page.
Navigate(p) ==
  /\ page \notin {"away", p} /\ session # NoCompany
  /\ \/ /\ p = "login"
        /\ page' = p /\ Unmount
        /\ UNCHANGED fetches
     \/ /\ p # "login" /\ Mounted
        /\ page' = p
        /\ IF p = "live" THEN FetchVehicles(session) ELSE UNCHANGED fetches
        /\ UNCHANGED <<feeds, header>>
     \/ /\ p # "login" /\ ~Mounted
        /\ Render(session, p)
  /\ UNCHANGED <<auth, signIns, now, store>>

\* A page load that ends on the login page.
LoginPageLoaded ==
  /\ LeavePage
  /\ page' = "login"
  /\ fetches' = {} /\ feeds' = <<>> /\ firstRun' = 0 /\ socketRef' = 0

\* getInitialAuth: the page is loaded with the session that storage has.
Load(p) ==
  LET c == IF savedUser THEN saved ELSE NoCompany
  IN  /\ session' = c
      /\ \/ /\ c = NoCompany \/ p = "login"
            /\ LoginPageLoaded
         \/ /\ c # NoCompany /\ p # "login"
            /\ LeavePage
            /\ page' = p
            /\ feeds' = <<NewFeed(c)>> /\ firstRun' = 1 /\ socketRef' = 1
            /\ fetches' = {NewFetch(c)}
      /\ UNCHANGED <<saved, savedUser, now>>

\* fetchWithAuth of a page's request, answered 401 by now or later: logout(), and
\* off to the login page with a page load unless that is where the tab is (the
\* sign-up page is not).
PageRequestRefused ==
  /\ feeds # <<>>
  /\ session # NoCompany
  /\ Logout
  /\ \/ LoginPageLoaded
     \/ page = "login" /\ UNCHANGED <<page, signIns, store, fetches, feeds, header>>
  /\ UNCHANGED now

\* External: a tracker reports and the server stores it.
Publish(d) ==
  /\ now[d] < MaxVersion
  /\ now' = [now EXCEPT ![d] = @ + 1]
  /\ UNCHANGED <<auth, page, signIns, store, fetches, feeds, header>>

LiveNext ==
  \/ \E d \in Devices : Publish(d)
  \/ \E c \in Companies : SignIn(c)
  \/ SubmitSignIn \/ SignInFails \/ SuperadminSignIn \/ HandleLogout \/ PageRequestRefused
  \/ \E p \in {"login", "live", "other"} : Navigate(p) \/ Load(p)
  \/ Poll \/ Refresh
  \/ \E f \in fetches :
       FetchRead(f) \/ FetchArrives(f) \/ FetchFails(f) \/ FetchRefused(f)
  \/ \E i \in DOMAIN feeds :
       \/ ConnectAgain(i) \/ Opened(i) \/ SocketEnds(i)
       \/ \E d \in Devices, v \in 1 .. MaxVersion : Message(i, d, v)

LiveSafety == LiveInit /\ [][LiveNext]_vars

(***************************************************************************)
(* Fairness: the browser runs its timers and ends every request one way or *)
(* the other; a server that is asked, or dialled, again and again answers  *)
(* again and again.  No single request or connection need succeed.         *)
(***************************************************************************)
LiveFairness ==
  /\ WF_vars(Poll)
  /\ WF_vars(\E f \in fetches : FetchFails(f) \/ FetchArrives(f))
  /\ SF_vars(\E f \in fetches : f.of = session /\ FetchRead(f))
  /\ SF_vars(\E f \in fetches : f.of = session /\ FetchArrives(f))
  /\ \A i \in 1 .. MaxRuns :
       /\ WF_vars(i \in DOMAIN feeds /\ ConnectAgain(i))
       /\ SF_vars(i \in DOMAIN feeds /\ Opened(i))

LiveSpec == LiveSafety /\ LiveFairness

-----------------------------------------------------------------------------
(***************************************************************************)
(* Every run of useWebSocket's effect leaves exactly one socket or one     *)
(* timer to open the next, however it was closed (error, server, cleanup,  *)
(* a token that changed under the Header), and the newest run of the       *)
(* layout on screen is for the session signed in.  A Header whose token    *)
(* changed keeps the feeds of its earlier tokens beside it: they are       *)
(* counted by their own runs.                                              *)
(***************************************************************************)
OneLinkPerRun ==
  /\ \A i \in DOMAIN feeds :
       feeds[i].opening + feeds[i].open + feeds[i].timers = 1
  /\ Mounted => feeds # <<>> /\ feeds[Len(feeds)].of = session

(***************************************************************************)
(* "A 15s poll is kept as a fallback for when the WebSocket is             *)
(* unavailable": a user who stays on the live page sees, again and again,  *)
(* exactly the present states of exactly his company's devices, whatever   *)
(* late answers and feeds of earlier sessions put into the store.          *)
(***************************************************************************)
StoreSettles ==
  \A c \in Companies :
    <>[](session = c /\ page = "live") => []<>(store = FleetOf(c))

(***************************************************************************)
(* A header that stays mounted is connected again and again with the token *)
(* it was given last, after any number of failed attempts.                 *)
(***************************************************************************)
FeedReconnects ==
  <>[]Mounted => []<>(feeds # <<>> /\ feeds[Len(feeds)].open > 0)

(***************************************************************************)
(* Of the devices of his own company the user sees what FleetView promises *)
(* him: nothing of before the sign-in, only states the server has had, and *)
(* on the live page the present ones before long.                          *)
(***************************************************************************)
OwnPart == [d \in Devices |-> IF CompanyOf[d] = session THEN store[d] ELSE 0]

View == INSTANCE FleetView WITH who <- session, screen <- page, view <- OwnPart

ImplementsView == View!ViewSpec

(***************************************************************************)
(* "Clear previous cached fleet vehicles": the pages of a company that is  *)
(* signed in never have a vehicle of another one in their store.           *)
(***************************************************************************)
OwnFleetOnly ==
  Mounted => \A d \in Devices : store[d] > 0 => CompanyOf[d] = session
=============================================================================
