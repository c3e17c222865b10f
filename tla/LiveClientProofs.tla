---------------------------- MODULE LiveClientProofs ----------------------------
(***************************************************************************)
(* Proofs about LiveClient for every set of companies and devices and      *)
(* every bound.  The inductive invariant adds to the types that neither    *)
(* the store nor an answer under way is ahead of the server, and that a    *)
(* run of the socket's effect leaves one socket or one timer; the step     *)
(* simulation of FleetView follows from it.                                *)
(***************************************************************************)
EXTENDS LiveClient, SequenceTheorems, TLAPS

\* Nothing in the tab is newer than what the server has stored.
NotAhead ==
  /\ \A d \in Devices : store[d] <= now[d]
  /\ \A f \in fetches : \A d \in Devices : f.got[d] <= now[d]

LiveInv == TypeOK /\ OneLinkPerRun /\ NotAhead

OneLink(f) == f.opening + f.open + f.timers = 1

-----------------------------------------------------------------------------
\* The empty fleet is a fleet.
LEMMA NothingIsFleet == Nothing \in Fleet
  BY LiveAssumption DEF Nothing, Fleet

\* What the server reads is a fleet no newer than its own state.
LEMMA FleetOfIsFleet ==
  ASSUME TypeOK, NEW c
  PROVE  /\ FleetOf(c) \in Fleet
         /\ \A d \in Devices : FleetOf(c)[d] <= now[d]
  BY LiveAssumption DEF FleetOf, Fleet, TypeOK

\* connect() makes one socket.
LEMMA NewFeedIsFeed ==
  ASSUME NEW c \in Companies
  PROVE  NewFeed(c) \in Feed /\ OneLink(NewFeed(c)) /\ NewFeed(c).of = c
  BY NothingIsFleet DEF NewFeed, Feed, OneLink

\* onclose turns the one socket into the one timer.
LEMMA OnCloseIsFeed ==
  ASSUME NEW f \in Feed, OneLink(f), f.opening + f.open > 0
  PROVE  OnClose(f) \in Feed /\ OneLink(OnClose(f)) /\ OnClose(f).of = f.of
  <1>1. f.opening \in Nat /\ f.open \in Nat /\ f.timers \in Nat /\ f.of \in Companies
    BY DEF Feed
  <1>2. f.timers = 0
    BY <1>1 DEF OneLink
  <1>3. OnClose(f) = [of |-> f.of, opening |-> 0, open |-> 0, timers |-> 1,
                      sent |-> Nothing]
    BY <1>1, <1>2 DEF OnClose, Feed
  <1> QED
    BY <1>1, <1>3, NothingIsFleet DEF Feed, OneLink

\* The cleanup leaves a feed with one timer.
LEMMA CloseFeedIsFeed ==
  ASSUME NEW f \in Feed, OneLink(f)
  PROVE  CloseFeed(f) \in Feed /\ OneLink(CloseFeed(f))
  BY OnCloseIsFeed DEF CloseFeed

\* Replacing one feed by a good one keeps the feeds good.
LEMMA FeedReplaced ==
  ASSUME NEW s \in Seq(Feed), \A j \in DOMAIN s : OneLink(s[j]),
         NEW i \in DOMAIN s, NEW g \in Feed, OneLink(g), NEW t, t = [s EXCEPT ![i] = g]
  PROVE  /\ t \in Seq(Feed)
         /\ DOMAIN t = DOMAIN s /\ Len(t) = Len(s)
         /\ \A j \in DOMAIN t : OneLink(t[j])
         /\ \A j \in DOMAIN s : j # i => t[j] = s[j]
         /\ t[i] = g
  <1>1. t \in Seq(Feed) /\ Len(t) = Len(s) /\ DOMAIN t = DOMAIN s
    BY ExceptSeq
  <1> QED
    BY <1>1

\* The parts of the invariant that speak of the feeds.
LEMMA FeedFacts ==
  ASSUME TypeOK, OneLinkPerRun
  PROVE  /\ feeds \in Seq(Feed) /\ Len(feeds) \in Nat /\ DOMAIN feeds = 1 .. Len(feeds)
         /\ \A j \in DOMAIN feeds : OneLink(feeds[j])
         /\ Mounted => firstRun \in DOMAIN feeds /\ socketRef \in firstRun .. Len(feeds)
         /\ Mounted => socketRef \in DOMAIN feeds
         /\ ~Mounted => firstRun = 0 /\ socketRef = 0
  <1>1. feeds \in Seq(Feed) /\ \A j \in DOMAIN feeds : OneLink(feeds[j])
    BY DEF TypeOK, OneLinkPerRun, OneLink
  <1>2. Len(feeds) \in Nat /\ DOMAIN feeds = 1 .. Len(feeds)
    BY <1>1, LenProperties
  <1>3. /\ Mounted => firstRun \in DOMAIN feeds /\ socketRef \in firstRun .. Len(feeds)
        /\ ~Mounted => firstRun = 0 /\ socketRef = 0
    BY DEF TypeOK, Mounted
  <1>4. Mounted => socketRef \in DOMAIN feeds
    BY <1>2, <1>3
  <1> QED
    BY <1>1, <1>2, <1>3, <1>4

\* The cleanup keeps the feeds good.
LEMMA CleanedUpFeeds ==
  ASSUME TypeOK, OneLinkPerRun
  PROVE  /\ CleanedUp \in Seq(Feed) /\ Len(CleanedUp) = Len(feeds)
         /\ \A j \in DOMAIN CleanedUp : OneLink(CleanedUp[j])
  <1>1. CASE Mounted
    <2> DEFINE g == CloseFeed(feeds[socketRef])
    <2>1. /\ feeds \in Seq(Feed) /\ \A j \in DOMAIN feeds : OneLink(feeds[j])
          /\ socketRef \in DOMAIN feeds
      BY <1>1, FeedFacts
    <2>2. feeds[socketRef] \in Feed /\ OneLink(feeds[socketRef])
      BY <2>1, LenProperties, ElementOfSeq
    <2>3. g \in Feed /\ OneLink(g)
      BY <2>2, CloseFeedIsFeed
    <2>4. CleanedUp = [feeds EXCEPT ![socketRef] = g]
      BY <1>1 DEF CleanedUp
    <2> HIDE DEF g
    <2> QED
      BY <2>1, <2>3, <2>4, FeedReplaced
  <1>2. CASE ~Mounted
    BY <1>2, FeedFacts DEF CleanedUp
  <1> QED
    BY <1>1, <1>2

\* A run of the effect adds one good feed, of the company it is for.
LEMMA RenderedFeeds ==
  ASSUME TypeOK, OneLinkPerRun, NEW c \in Companies,
         feeds' = Append(CleanedUp, NewFeed(c))
  PROVE  /\ feeds' \in Seq(Feed) /\ feeds' # <<>> /\ Len(feeds') = Len(feeds) + 1
         /\ DOMAIN feeds' = 1 .. Len(feeds) + 1
         /\ \A j \in DOMAIN feeds' : OneLink(feeds'[j])
         /\ feeds'[Len(feeds')].of = c
  <1> DEFINE s == CleanedUp
  <1>1. NewFeed(c) \in Feed /\ OneLink(NewFeed(c)) /\ NewFeed(c).of = c
    BY NewFeedIsFeed
  <1>2. s \in Seq(Feed) /\ Len(s) = Len(feeds) /\ \A j \in DOMAIN s : OneLink(s[j])
    BY CleanedUpFeeds
  <1>3. feeds' = Append(s, NewFeed(c))
    OBVIOUS
  <1> HIDE DEF s
  <1>4. /\ feeds' \in Seq(Feed) /\ feeds' # <<>> /\ Len(feeds') = Len(s) + 1
        /\ \A j \in 1 .. Len(s) : feeds'[j] = s[j]
        /\ feeds'[Len(s) + 1] = NewFeed(c)
    BY <1>1, <1>2, <1>3, AppendProperties
  <1>5. Len(s) \in Nat /\ DOMAIN s = 1 .. Len(s) /\ DOMAIN feeds' = 1 .. Len(feeds')
    BY <1>2, <1>4, LenProperties
  <1>6. ASSUME NEW j \in DOMAIN feeds'
        PROVE  OneLink(feeds'[j])
    <2>1. j \in 1 .. Len(s) \/ j = Len(s) + 1
      BY <1>4, <1>5
    <2> QED
      BY <1>1, <1>2, <1>4, <1>5, <2>1
  <1> QED
    BY <1>1, <1>2, <1>4, <1>5, <1>6

\* A step of a feed: it stays one link of its company.
LEMMA FeedStep ==
  ASSUME LiveInv, NEW i \in DOMAIN feeds, NEW g \in Feed, OneLink(g),
         g.of = feeds[i].of, feeds' = [feeds EXCEPT ![i] = g],
         UNCHANGED <<auth, page, signIns, now, fetches, firstRun>>,
         socketRef' = socketRef \/ (Mounted /\ i >= firstRun /\ socketRef' = i),
         store' \in Fleet, \A d \in Devices : store'[d] <= now[d]
  PROVE  LiveInv'
  <1> USE DEF auth
  <1>1. feeds \in Seq(Feed) /\ \A j \in DOMAIN feeds : OneLink(feeds[j])
    BY FeedFacts DEF LiveInv
  <1>2. /\ feeds' \in Seq(Feed) /\ Len(feeds') = Len(feeds)
        /\ DOMAIN feeds' = DOMAIN feeds
        /\ \A j \in DOMAIN feeds' : OneLink(feeds'[j])
        /\ \A j \in DOMAIN feeds : j # i => feeds'[j] = feeds[j]
        /\ feeds'[i] = g
    BY <1>1, FeedReplaced
  <1>3. TypeOK'
    <2>1. IF page \in {"live", "other"}
          THEN firstRun \in DOMAIN feeds /\ socketRef' \in firstRun .. Len(feeds)
          ELSE firstRun = 0 /\ socketRef' = 0
      BY FeedFacts DEF LiveInv, Mounted
    <2> QED
      BY <1>2, <2>1 DEF LiveInv, TypeOK
  <1>4. OneLinkPerRun'
    <2>1. \A j \in DOMAIN feeds' :
            feeds'[j].opening + feeds'[j].open + feeds'[j].timers = 1
      BY <1>2 DEF OneLink
    <2>2. ASSUME Mounted'
          PROVE  feeds' # <<>> /\ feeds'[Len(feeds')].of = session'
      <3>1. feeds # <<>> /\ feeds[Len(feeds)].of = session
        BY <2>2 DEF LiveInv, OneLinkPerRun, Mounted
      <3>2. Len(feeds) \in DOMAIN feeds
        BY <1>1, <3>1, EmptySeq, LenProperties
      <3>3. feeds'[Len(feeds)].of = feeds[Len(feeds)].of
        BY <1>2, <3>2
      <3>4. feeds' # <<>>
        BY <1>2, <3>2
      <3> QED
        BY <1>2, <3>1, <3>3, <3>4
    <2> QED
      BY <2>1, <2>2 DEF OneLinkPerRun
  <1>5. NotAhead'
    BY DEF LiveInv, NotAhead
  <1> QED
    BY <1>3, <1>4, <1>5 DEF LiveInv

\* A step that leaves the session, the page and the feeds alone.
LEMMA QuietStep ==
  ASSUME LiveInv, UNCHANGED <<auth, page, now, feeds, header>>,
         signIns' \in 0 .. MaxSignIns,
         store' \in Fleet, \A d \in Devices : store'[d] <= now[d],
         fetches' \subseteq Fetch,
         \A f \in fetches' : \A d \in Devices : f.got[d] <= now[d]
  PROVE  LiveInv'
  <1> USE DEF auth, header
  <1>1. TypeOK'
    BY DEF LiveInv, TypeOK
  <1>2. OneLinkPerRun'
    BY DEF LiveInv, OneLinkPerRun, Mounted
  <1>3. NotAhead'
    BY DEF NotAhead
  <1> QED
    BY <1>1, <1>2, <1>3 DEF LiveInv

\* A new request is a request and knows nothing yet.
LEMMA NewFetchIsFetch ==
  ASSUME TypeOK, NEW c \in Companies
  PROVE  NewFetch(c) \in Fetch /\ \A d \in Devices : NewFetch(c).got[d] <= now[d]
  BY NothingIsFleet DEF NewFetch, Fetch, Nothing, TypeOK

\* The requests under way stay requests when one is added.
LEMMA FetchAdded ==
  ASSUME TypeOK, NotAhead, NEW c \in Companies, FetchVehicles(c)
  PROVE  /\ fetches' \subseteq Fetch
         /\ \A f \in fetches' : \A d \in Devices : f.got[d] <= now[d]
  <1>1. fetches' = fetches \union {NewFetch(c)}
    BY DEF FetchVehicles
  <1> QED
    BY <1>1, NewFetchIsFetch DEF TypeOK, NotAhead

\* A step after which the layout is not mounted.
LEMMA UnmountStep ==
  ASSUME LiveInv, session' \in Sessions, saved' \in Sessions, savedUser' \in BOOLEAN,
         page' \in {"away", "login"}, firstRun' = 0, socketRef' = 0,
         signIns' \in 0 .. MaxSignIns,
         now' = now, store' \in Fleet, \A d \in Devices : store'[d] <= now[d],
         fetches' \subseteq fetches,
         feeds' \in Seq(Feed), \A j \in DOMAIN feeds' : OneLink(feeds'[j])
  PROVE  LiveInv'
  <1>1. TypeOK'
    BY DEF LiveInv, TypeOK
  <1>2. OneLinkPerRun'
    BY DEF OneLinkPerRun, Mounted, OneLink
  <1>3. NotAhead'
    BY DEF LiveInv, NotAhead
  <1> QED
    BY <1>1, <1>2, <1>3 DEF LiveInv

\* A step that renders the layout with a new token.
LEMMA RenderStep ==
  ASSUME LiveInv, NEW c \in Companies, NEW p \in {"live", "other"}, Render(c, p),
         session' = c, saved' \in Sessions, savedUser' \in BOOLEAN, now' = now,
         signIns' \in 0 .. MaxSignIns,
         store' \in Fleet, \A d \in Devices : store'[d] <= now[d]
  PROVE  LiveInv'
  <1>1. TypeOK /\ OneLinkPerRun
    BY DEF LiveInv
  <1>2. /\ feeds' \in Seq(Feed) /\ feeds' # <<>> /\ Len(feeds') = Len(feeds) + 1
        /\ DOMAIN feeds' = 1 .. Len(feeds) + 1
        /\ \A j \in DOMAIN feeds' : OneLink(feeds'[j])
        /\ feeds'[Len(feeds')].of = c
    BY <1>1, RenderedFeeds DEF Render
  <1>3. /\ fetches' \subseteq Fetch
        /\ \A f \in fetches' : \A d \in Devices : f.got[d] <= now[d]
    BY FetchAdded DEF Render, LiveInv
  <1>4. firstRun' \in DOMAIN feeds' /\ socketRef' \in firstRun' .. Len(feeds')
    <2>1. /\ Len(feeds) \in Nat /\ DOMAIN feeds = 1 .. Len(feeds)
          /\ Mounted => firstRun \in DOMAIN feeds
      BY <1>1, FeedFacts
    <2>2. /\ socketRef' = Len(feeds) + 1
          /\ firstRun' = IF Mounted THEN firstRun ELSE Len(feeds) + 1
      BY DEF Render
    <2>3. firstRun' \in 1 .. Len(feeds) + 1
      BY <2>1, <2>2
    <2> QED
      BY <1>2, <2>1, <2>2, <2>3
  <1>5. TypeOK'
    BY <1>1, <1>2, <1>3, <1>4, LiveAssumption DEF TypeOK, Render, Sessions
  <1>6. OneLinkPerRun'
    BY <1>2 DEF OneLinkPerRun, OneLink
  <1>7. NotAhead'
    BY <1>3 DEF NotAhead
  <1> QED
    BY <1>5, <1>6, <1>7 DEF LiveInv

-----------------------------------------------------------------------------
\* A page load that ends on the login page keeps the invariant.
LEMMA LoginLoadedStep ==
  ASSUME LiveInv, LoginPageLoaded, session' \in Sessions, saved' \in Sessions,
         savedUser' \in BOOLEAN, now' = now
  PROVE  LiveInv'
  <1>1. \A d \in Devices : Nothing[d] <= now[d]
    BY DEF Nothing, LiveInv, TypeOK
  <1>2. feeds' \in Seq(Feed) /\ \A j \in DOMAIN feeds' : OneLink(feeds'[j])
    BY EmptySeq DEF LoginPageLoaded
  <1>3. signIns' \in 0 .. MaxSignIns
    BY LiveAssumption DEF LoginPageLoaded, LeavePage
  <1> QED
    BY <1>1, <1>2, <1>3, NothingIsFleet, UnmountStep DEF LoginPageLoaded, LeavePage

\* Every action keeps the invariant.
LEMMA LiveStep ==
  ASSUME LiveInv, [LiveNext]_vars
  PROVE  LiveInv'
  <1>1. /\ Nothing \in Fleet /\ \A d \in Devices : Nothing[d] <= now[d]
        /\ store \in Fleet /\ \A d \in Devices : store[d] <= now[d]
    BY NothingIsFleet DEF LiveInv, TypeOK, NotAhead, Nothing
  <1>2. NoCompany \in Sessions /\ Companies \subseteq Sessions
        /\ session \in Sessions /\ saved \in Sessions /\ savedUser \in BOOLEAN
        /\ signIns \in 0 .. MaxSignIns
    BY DEF Sessions, LiveInv, TypeOK
  <1>3. Mounted => session \in Companies
    BY DEF Mounted, LiveInv, TypeOK, Sessions
  <1>4. ASSUME Unmount
        PROVE  /\ feeds' \in Seq(Feed) /\ \A j \in DOMAIN feeds' : OneLink(feeds'[j])
               /\ firstRun' = 0 /\ socketRef' = 0
    BY <1>4, CleanedUpFeeds DEF LiveInv, Unmount
  <1>5. ASSUME NEW d \in Devices, Publish(d)
        PROVE  LiveInv'
    <2>1. now' \in [Devices -> 1 .. MaxVersion] /\ \A e \in Devices : now[e] <= now'[e]
      BY <1>5, LiveAssumption DEF Publish, LiveInv, TypeOK
    <2>2. TypeOK'
      BY <1>5, <2>1 DEF Publish, LiveInv, TypeOK, auth, header
    <2>3. OneLinkPerRun'
      BY <1>5 DEF Publish, LiveInv, OneLinkPerRun, Mounted, auth
    <2>4. \A e \in Devices : store'[e] <= now'[e]
      BY <1>5, <2>1 DEF Publish, LiveInv, TypeOK, NotAhead, Fleet
    <2>5. ASSUME NEW f \in fetches', NEW e \in Devices
          PROVE  f.got[e] <= now'[e]
      <3>1. f \in Fetch /\ f.got[e] <= now[e]
        BY <1>5 DEF Publish, LiveInv, TypeOK, NotAhead
      <3>2. f.got[e] \in Nat /\ now[e] \in Nat /\ now'[e] \in Nat
        BY <2>1, <3>1 DEF Fetch, Fleet, LiveInv, TypeOK
      <3> QED
        BY <2>1, <3>1, <3>2
    <2> QED
      BY <2>2, <2>3, <2>4, <2>5 DEF LiveInv, NotAhead
  <1>6. ASSUME NEW c \in Companies, SignIn(c)
        PROVE  LiveInv'
    <2>1. /\ saved' \in Sessions /\ savedUser' \in BOOLEAN
          /\ session' = c /\ store' = Nothing /\ now' = now
      BY <1>2, <1>6 DEF SignIn, WriteAuth
    <2>2. signIns' \in 0 .. MaxSignIns
      BY <1>2, <1>6, LiveAssumption DEF SignIn
    <2>3. CASE Render(c, "live")
      BY <1>1, <2>1, <2>2, <2>3, RenderStep
    <2>4. CASE Mounted /\ Render(c, page)
      BY <1>1, <2>1, <2>2, <2>4, RenderStep DEF Mounted
    <2>5. CASE ~Mounted /\ UNCHANGED <<page, fetches, feeds, header>>
      <3>1. /\ feeds' \in Seq(Feed) /\ \A j \in DOMAIN feeds' : OneLink(feeds'[j])
            /\ firstRun' = 0 /\ socketRef' = 0
        BY <2>5, FeedFacts DEF LiveInv, header
      <3>2. page' \in {"away", "login"} /\ fetches' \subseteq fetches
        BY <2>5 DEF Mounted, LiveInv, TypeOK
      <3> QED
        BY <1>1, <1>2, <2>1, <2>2, <3>1, <3>2, UnmountStep
    <2> QED
      BY <1>6, <2>3, <2>4, <2>5 DEF SignIn
  <1>7. CASE SubmitSignIn \/ SignInFails
    <2>1. signIns' \in 0 .. MaxSignIns
      BY <1>2, <1>7, LiveAssumption DEF SubmitSignIn, SignInFails
    <2>2. /\ fetches' \subseteq Fetch
          /\ \A f \in fetches' : \A d \in Devices : f.got[d] <= now[d]
      BY <1>7 DEF SubmitSignIn, SignInFails, LiveInv, TypeOK, NotAhead
    <2> QED
      BY <1>1, <1>7, <2>1, <2>2, QuietStep DEF SubmitSignIn, SignInFails
  <1>8. CASE SuperadminSignIn
    <2>1. feeds' \in Seq(Feed) /\ \A j \in DOMAIN feeds' : OneLink(feeds'[j])
      BY <1>8, EmptySeq DEF SuperadminSignIn
    <2>2. signIns' \in 0 .. MaxSignIns /\ store' = Nothing
      BY <1>8, LiveAssumption DEF SuperadminSignIn, LeavePage
    <2> QED
      BY <1>1, <1>2, <1>8, <2>1, <2>2, UnmountStep DEF SuperadminSignIn
  <1>9. CASE HandleLogout
    BY <1>1, <1>2, <1>4, <1>9, UnmountStep DEF HandleLogout, Logout
  <1>10. CASE PageRequestRefused
    <2>1. CASE LoginPageLoaded
      BY <1>2, <1>10, <2>1, LoginLoadedStep DEF PageRequestRefused, Logout
    <2>2. CASE page = "login" /\ UNCHANGED <<page, signIns, store, fetches, feeds, header>>
      <3>1. /\ feeds' \in Seq(Feed) /\ \A j \in DOMAIN feeds' : OneLink(feeds'[j])
            /\ firstRun' = 0 /\ socketRef' = 0
        BY <2>2, FeedFacts DEF LiveInv, header, Mounted
      <3> QED
        BY <1>1, <1>2, <1>10, <2>2, <3>1, UnmountStep DEF PageRequestRefused, Logout
    <2> QED
      BY <1>10, <2>1, <2>2 DEF PageRequestRefused
  <1>11. ASSUME NEW p \in {"login", "live", "other"}, Navigate(p)
         PROVE  LiveInv'
    <2>1. CASE p = "login" /\ page' = p /\ Unmount /\ UNCHANGED fetches
      BY <1>1, <1>2, <1>4, <1>11, <2>1, UnmountStep DEF Navigate, auth
    <2>2. CASE /\ p # "login" /\ Mounted /\ page' = p
               /\ IF p = "live" THEN FetchVehicles(session) ELSE UNCHANGED fetches
               /\ UNCHANGED <<feeds, header>>
      <3>1. /\ fetches' \subseteq Fetch
            /\ \A f \in fetches' : \A d \in Devices : f.got[d] <= now[d]
        BY <1>3, <2>2, FetchAdded DEF LiveInv, TypeOK, NotAhead
      <3>2. TypeOK'
        BY <1>11, <2>2, <3>1 DEF Navigate, LiveInv, TypeOK, Mounted, auth, header
      <3>3. OneLinkPerRun'
        BY <1>11, <2>2 DEF Navigate, LiveInv, OneLinkPerRun, Mounted, auth
      <3>4. NotAhead'
        BY <1>11, <3>1 DEF Navigate, LiveInv, NotAhead
      <3> QED
        BY <3>2, <3>3, <3>4 DEF LiveInv
    <2>3. CASE p # "login" /\ ~Mounted /\ Render(session, p)
      <3>1. session \in Companies /\ p \in {"live", "other"}
        BY <1>2, <1>11, <2>3 DEF Navigate, Sessions
      <3> QED
        BY <1>1, <1>2, <1>11, <2>3, <3>1, RenderStep DEF Navigate, auth
    <2> QED
      BY <1>11, <2>1, <2>2, <2>3 DEF Navigate
  <1>12. ASSUME NEW p \in {"login", "live", "other"}, Load(p)
         PROVE  LiveInv'
    <2> DEFINE c == IF savedUser THEN saved ELSE NoCompany
    <2>1. c \in Sessions /\ session' = c /\ UNCHANGED <<saved, savedUser, now>>
      BY <1>2, <1>12 DEF Load
    <2>2. \/ LoginPageLoaded
          \/ /\ c # NoCompany /\ p # "login" /\ LeavePage /\ page' = p
             /\ feeds' = <<NewFeed(c)>> /\ firstRun' = 1 /\ socketRef' = 1
             /\ fetches' = {NewFetch(c)}
      BY <1>12 DEF Load
    <2> HIDE DEF c
    <2>3. CASE LoginPageLoaded
      BY <1>2, <2>1, <2>3, LoginLoadedStep
    <2>4. CASE /\ c # NoCompany /\ p # "login" /\ LeavePage /\ page' = p
               /\ feeds' = <<NewFeed(c)>> /\ firstRun' = 1 /\ socketRef' = 1
               /\ fetches' = {NewFetch(c)}
      <3>1. c \in Companies
        BY <2>1, <2>4 DEF Sessions
      <3>2. NewFeed(c) \in Feed /\ OneLink(NewFeed(c)) /\ NewFeed(c).of = c
        BY <3>1, NewFeedIsFeed
      <3>3. /\ feeds' \in Seq(Feed) /\ Len(feeds') = 1 /\ DOMAIN feeds' = {1}
            /\ feeds'[1] = NewFeed(c) /\ feeds' # <<>>
        BY <2>4, <3>2
      <3>4. NewFetch(c) \in Fetch
            /\ \A d \in Devices : NewFetch(c).got[d] <= now[d]
        BY <3>1, NewFetchIsFetch DEF LiveInv
      <3>5. signIns' \in 0 .. MaxSignIns /\ store' = Nothing
        BY <2>4, LiveAssumption DEF LeavePage
      <3>6. firstRun' \in DOMAIN feeds' /\ socketRef' \in firstRun' .. Len(feeds')
        BY <2>4, <3>3
      <3>7. TypeOK'
        BY <1>1, <1>2, <2>1, <2>4, <3>3, <3>4, <3>5, <3>6, LiveAssumption
        DEF LiveInv, TypeOK
      <3>8. OneLinkPerRun'
        BY <2>1, <3>2, <3>3 DEF OneLinkPerRun, OneLink
      <3>9. NotAhead'
        BY <1>1, <2>1, <2>4, <3>4, <3>5 DEF NotAhead
      <3> QED
        BY <3>7, <3>8, <3>9 DEF LiveInv
    <2> QED
      BY <2>2, <2>3, <2>4
  <1>13. CASE Poll \/ Refresh
    <2>1. session \in Companies /\ FetchVehicles(session)
      BY <1>3, <1>13 DEF Poll, Refresh, Mounted
    <2>2. /\ fetches' \subseteq Fetch
          /\ \A f \in fetches' : \A d \in Devices : f.got[d] <= now[d]
      BY <2>1, FetchAdded DEF LiveInv
    <2> QED
      BY <1>1, <1>2, <1>13, <2>2, QuietStep DEF Poll, Refresh
  <1>14. ASSUME NEW f \in fetches, FetchRead(f)
         PROVE  LiveInv'
    <2> DEFINE g == [f EXCEPT !.read = TRUE, !.got = FleetOf(f.of)]
    <2>1. f \in Fetch /\ f.of \in Companies
      BY DEF LiveInv, TypeOK, Fetch
    <2>2. FleetOf(f.of) \in Fleet /\ \A d \in Devices : FleetOf(f.of)[d] <= now[d]
      BY FleetOfIsFleet DEF LiveInv
    <2>3. g \in Fetch /\ g.got = FleetOf(f.of)
      BY <2>1, <2>2 DEF Fetch
    <2>4. fetches' = (fetches \ {f}) \union {g}
      BY <1>14 DEF FetchRead
    <2> HIDE DEF g
    <2>5. /\ fetches' \subseteq Fetch
          /\ \A h \in fetches' : \A d \in Devices : h.got[d] <= now[d]
      BY <2>2, <2>3, <2>4 DEF LiveInv, TypeOK, NotAhead
    <2> QED
      BY <1>1, <1>2, <1>14, <2>5, QuietStep DEF FetchRead
  <1>15. ASSUME NEW f \in fetches, FetchArrives(f) \/ FetchFails(f)
         PROVE  LiveInv'
    <2>1. f.got \in Fleet /\ \A d \in Devices : f.got[d] <= now[d]
      BY DEF LiveInv, TypeOK, NotAhead, Fetch
    <2>2. /\ fetches' \subseteq Fetch
          /\ \A h \in fetches' : \A d \in Devices : h.got[d] <= now[d]
      BY <1>15 DEF FetchArrives, FetchFails, LiveInv, TypeOK, NotAhead
    <2> QED
      BY <1>1, <1>2, <1>15, <2>1, <2>2, QuietStep DEF FetchArrives, FetchFails
  <1>16. ASSUME NEW f \in fetches, FetchRefused(f)
         PROVE  LiveInv'
    BY <1>1, <1>2, <1>4, <1>16, UnmountStep DEF FetchRefused, Logout
  <1>17. ASSUME NEW i \in DOMAIN feeds,
                \/ ConnectAgain(i) \/ Opened(i) \/ SocketEnds(i)
                \/ \E d \in Devices, v \in 1 .. MaxVersion : Message(i, d, v)
         PROVE  LiveInv'
    <2>1. feeds[i] \in Feed /\ OneLink(feeds[i])
      BY LenProperties, ElementOfSeq DEF LiveInv, TypeOK, OneLinkPerRun, OneLink
    <2>2. /\ feeds[i].of \in Companies /\ feeds[i].opening \in Nat /\ feeds[i].open \in Nat
          /\ feeds[i].timers \in Nat /\ feeds[i].sent \in Fleet
      BY <2>1 DEF Feed
    <2>3. CASE ConnectAgain(i)
      <3> DEFINE g == Dialled(feeds[i])
      <3>1. g \in Feed /\ OneLink(g) /\ g.of = feeds[i].of
        BY <2>1, <2>2, <2>3 DEF ConnectAgain, Dialled, Feed, OneLink
      <3>2. feeds' = [feeds EXCEPT ![i] = g]
        BY <2>3 DEF ConnectAgain
      <3> HIDE DEF g
      <3> QED
        BY <1>1, <2>3, <3>1, <3>2, FeedStep DEF ConnectAgain
    <2>4. CASE Opened(i)
      <3> DEFINE g == Connected(feeds[i])
      <3>1. FleetOf(feeds[i].of) \in Fleet
        BY FleetOfIsFleet DEF LiveInv
      <3>2. g \in Feed /\ OneLink(g) /\ g.of = feeds[i].of
        BY <2>1, <2>2, <2>4, <3>1 DEF Opened, Connected, Feed, OneLink
      <3>3. feeds' = [feeds EXCEPT ![i] = g]
        BY <2>4 DEF Opened
      <3> HIDE DEF g
      <3> QED
        BY <1>1, <2>4, <3>2, <3>3, FeedStep DEF Opened, header
    <2>5. CASE SocketEnds(i)
      <3>1. OnClose(feeds[i]) \in Feed /\ OneLink(OnClose(feeds[i]))
            /\ OnClose(feeds[i]).of = feeds[i].of
        BY <2>1, <2>5, OnCloseIsFeed DEF SocketEnds
      <3>2. feeds' = [feeds EXCEPT ![i] = OnClose(feeds[i])]
        BY <2>5 DEF SocketEnds
      <3> QED
        BY <1>1, <2>5, <3>1, <3>2, FeedStep DEF SocketEnds, header
    <2>6. ASSUME NEW d \in Devices, NEW v \in 1 .. MaxVersion, Message(i, d, v)
          PROVE  LiveInv'
      <3> DEFINE s == [feeds[i].sent EXCEPT ![d] = v]
      <3> DEFINE g == Delivered(feeds[i], d, v)
      <3>1. s \in Fleet
        BY <2>2, LiveAssumption DEF Fleet
      <3>2. feeds' = [feeds EXCEPT ![i] = g]
        BY <2>6 DEF Message
      <3>3. g = [feeds[i] EXCEPT !.sent = s]
        BY DEF Delivered
      <3> HIDE DEF s, g
      <3>4. g \in Feed /\ OneLink(g) /\ g.of = feeds[i].of
        BY <2>1, <2>2, <3>1, <3>3 DEF Feed, OneLink
      <3>5. v <= now[d]
        BY <2>2, <2>6 DEF Message, Fleet, LiveInv, TypeOK
      <3>6. store' \in Fleet /\ \A e \in Devices : store'[e] <= now[e]
        BY <1>1, <2>6, <3>5, LiveAssumption DEF Message, Fleet
      <3> QED
        BY <2>6, <3>2, <3>4, <3>6, FeedStep DEF Message, header
    <2> QED
      BY <1>17, <2>3, <2>4, <2>5, <2>6
  <1>18. CASE UNCHANGED vars
    BY <1>18 DEF vars, auth, header, LiveInv, TypeOK, OneLinkPerRun, NotAhead, Mounted
  <1> QED
    BY <1>5, <1>6, <1>7, <1>8, <1>9, <1>10, <1>11, <1>12, <1>13, <1>14, <1>15, <1>16,
       <1>17, <1>18 DEF LiveNext

\* A tab that has not been opened.
LEMMA LiveStart == LiveInit => LiveInv
  <1> SUFFICES ASSUME LiveInit PROVE LiveInv
    OBVIOUS
  <1>1. TypeOK
    <2>1. savedUser \in BOOLEAN
      BY Zenon DEF LiveInit
    <2>2. signIns \in 0 .. MaxSignIns
      BY LiveAssumption DEF LiveInit
    <2>3. now \in [Devices -> 1 .. MaxVersion] /\ store \in Fleet /\ feeds \in Seq(Feed)
      BY NothingIsFleet, EmptySeq, LiveAssumption DEF LiveInit
    <2> QED
      BY <2>1, <2>2, <2>3 DEF LiveInit, TypeOK, Sessions
  <1>2. OneLinkPerRun
    BY DEF LiveInit, OneLinkPerRun, Mounted
  <1>3. NotAhead
    BY DEF LiveInit, NotAhead, Nothing
  <1> QED
    BY <1>1, <1>2, <1>3 DEF LiveInv

(***************************************************************************)
(* For every number of companies, devices, sign-ins under way and runs of  *)
(* the socket's effect: the types hold, every run has one socket or timer, *)
(* and nothing in the tab is ahead of the server.                          *)
(***************************************************************************)
THEOREM LiveInvariant == LiveSafety => []LiveInv
  <1>1. LiveInit => LiveInv
    BY LiveStart
  <1>2. LiveInv /\ [LiveNext]_vars => LiveInv'
    BY LiveStep
  <1> QED
    BY <1>1, <1>2, PTL DEF LiveSafety

(***************************************************************************)
(* Every action keeps the session, the store, the requests and the feeds   *)
(* in their types; a page with the layout is only shown to a signed-in     *)
(* user.                                                                   *)
(***************************************************************************)
THEOREM LiveTypesHold == LiveSafety => []TypeOK
  <1>1. LiveInv => TypeOK
    BY DEF LiveInv
  <1> QED
    BY <1>1, LiveInvariant, PTL

(***************************************************************************)
(* useWebSocket never has more or fewer than one socket or timer for a run *)
(* of its effect, in any order of errors, closes, cleanups, timers and of  *)
(* sign-ins answered on whatever page; the newest run of a mounted header  *)
(* is the session's.                                                       *)
(***************************************************************************)
THEOREM FeedsStaySingle == LiveSafety => []OneLinkPerRun
  <1>1. LiveInv => OneLinkPerRun
    BY DEF LiveInv
  <1> QED
    BY <1>1, LiveInvariant, PTL

-----------------------------------------------------------------------------
\* Without a session nothing of the store is the user's.
LEMMA SignedOutView ==
  ASSUME session = NoCompany
  PROVE  OwnPart = View!Nothing
  BY LiveAssumption DEF OwnPart, View!Nothing

\* The same in the next state, and with an empty store.
LEMMA BlankView ==
  ASSUME session' = NoCompany \/ store' = Nothing
  PROVE  OwnPart' = View!Nothing
  BY LiveAssumption DEF OwnPart, View!Nothing, Nothing

\* A step that changes the store and nothing else FleetView sees.
LEMMA ShowStep ==
  ASSUME LiveInv, LiveInv', UNCHANGED <<session, page, now>>
  PROVE  View!Show \/ UNCHANGED View!viewVars
  <1>1. CASE session = NoCompany
    BY <1>1, SignedOutView, BlankView DEF View!viewVars
  <1>2. CASE session # NoCompany
    <2>1. store' \in Fleet /\ \A d \in Devices : store'[d] <= now[d]
      BY DEF LiveInv, TypeOK, NotAhead
    <2>2. OwnPart' \in [Devices -> 0 .. MaxVersion]
      BY <2>1, LiveAssumption DEF OwnPart, Fleet
    <2>3. \A d \in Devices : OwnPart'[d] <= View!FleetOf(session)[d]
      BY <2>1 DEF OwnPart, View!FleetOf
    <2> QED
      BY <1>2, <2>2, <2>3 DEF View!Show
  <1> QED
    BY <1>1, <1>2

\* A step that begins or ends a session, or loads the page.
LEMMA BeginStep ==
  ASSUME LiveInv', session' = NoCompany \/ store' = Nothing, now' = now
  PROVE  View!ViewNext
  <1>1. OwnPart' = View!Nothing
    BY BlankView
  <1>2. View!Begin(session', page')
    BY <1>1 DEF View!Begin
  <1>3. session' \in Companies \union {NoCompany}
        /\ page' \in {"away", "login", "live", "other"}
    BY DEF LiveInv, TypeOK, Sessions
  <1> QED
    BY <1>2, <1>3 DEF View!ViewNext

\* Every step of the tab is a step of FleetView or leaves it alone.
LEMMA ViewStep ==
  ASSUME LiveInv, LiveInv', [LiveNext]_vars
  PROVE  [View!ViewNext]_(View!viewVars)
  <1>1. ASSUME NEW d \in Devices, Publish(d)
        PROVE  View!ViewNext
    <2>1. View!Report(d)
      BY <1>1 DEF Publish, View!Report, OwnPart, auth
    <2> QED
      BY <2>1 DEF View!ViewNext
  <1>2. ASSUME NEW c \in Companies, SignIn(c)
        PROVE  View!ViewNext
    BY <1>2, BeginStep DEF SignIn
  <1>3. CASE SuperadminSignIn \/ HandleLogout \/ PageRequestRefused
    BY <1>3, BeginStep DEF SuperadminSignIn, HandleLogout, PageRequestRefused, Logout
  <1>4. ASSUME NEW p \in {"login", "live", "other"}, Navigate(p)
        PROVE  View!ViewNext
    <2>1. View!Move(p)
      BY <1>4 DEF Navigate, Render, View!Move, OwnPart, auth
    <2> QED
      BY <2>1 DEF View!ViewNext
  <1>5. ASSUME NEW p \in {"login", "live", "other"}, Load(p)
        PROVE  View!ViewNext
    BY <1>5, BeginStep DEF Load, LoginPageLoaded, LeavePage
  <1>6. CASE Poll \/ Refresh \/ SubmitSignIn \/ SignInFails
    BY <1>6, ShowStep DEF Poll, Refresh, SubmitSignIn, SignInFails, auth, View!ViewNext
  <1>7. ASSUME NEW f \in fetches, FetchRead(f) \/ FetchArrives(f) \/ FetchFails(f)
        PROVE  [View!ViewNext]_(View!viewVars)
    BY <1>7, ShowStep DEF FetchRead, FetchArrives, FetchFails, auth, View!ViewNext
  <1>8. ASSUME NEW f \in fetches, FetchRefused(f)
        PROVE  View!ViewNext
    BY <1>8, BeginStep DEF FetchRefused, Logout
  <1>9. ASSUME NEW i \in DOMAIN feeds,
               \/ ConnectAgain(i) \/ Opened(i) \/ SocketEnds(i)
               \/ \E d \in Devices, v \in 1 .. MaxVersion : Message(i, d, v)
        PROVE  [View!ViewNext]_(View!viewVars)
    BY <1>9, ShowStep DEF ConnectAgain, Opened, SocketEnds, Message, auth, View!ViewNext
  <1>10. CASE UNCHANGED vars
    BY <1>10, ShowStep DEF vars, auth, View!ViewNext
  <1> QED
    BY <1>1, <1>2, <1>3, <1>4, <1>5, <1>6, <1>7, <1>8, <1>9, <1>10 DEF LiveNext

(***************************************************************************)
(* The tab implements FleetView: whatever the order of sign-ins, page      *)
(* loads, late answers and feeds of earlier sessions, of the company that  *)
(* is signed in the user sees nothing of before the sign-in and only       *)
(* states the server has had.  (FleetView's fairness is left to TLC.)      *)
(***************************************************************************)
THEOREM TabImplementsView == LiveSafety => View!ViewSafety
  <1>1. LiveInit => View!ViewInit
    <2> SUFFICES ASSUME LiveInit PROVE View!ViewInit
      OBVIOUS
    <2>1. OwnPart = View!Nothing
      BY SignedOutView DEF LiveInit
    <2> QED
      BY <2>1 DEF LiveInit, View!ViewInit
  <1>2. LiveInv /\ LiveInv' /\ [LiveNext]_vars => [View!ViewNext]_(View!viewVars)
    BY ViewStep
  <1> QED
    BY <1>1, <1>2, LiveInvariant, PTL DEF LiveSafety, View!ViewSafety
=============================================================================
