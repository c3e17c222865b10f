---------------------------------- MODULE Hub ----------------------------------
(***************************************************************************)
(* The WebSocket hub of rudra-api (internal/websocket/hub.go), the two     *)
(* goroutines wsTrackingHandler starts for every browser                   *)
(* (internal/handler/handlers_ops.go) and the two Redis subscribers that   *)
(* feed it (cmd/rudra-api/main.go).                                        *)
(*                                                                         *)
(* Register and Unregister are unbuffered Go channels: a send on them is a *)
(* rendezvous with Hub.Run standing at its select.  Broadcast and every    *)
(* client's Send are buffered.  One atomic step is what a goroutine does   *)
(* between two channel or socket operations.                               *)
(***************************************************************************)
EXTENDS Naturals, Sequences

CONSTANTS
  Clients,        \* *Client objects: one for each socket a browser opens
  Companies,      \* tenants
  Devices,        \* device ids
  CompanyOf,      \* claims.CompanyID of the token a client connected with
  Events,         \* [kind, company, device] records Redis can deliver
  NoDevice,       \* device id 0, which BroadcastAlert uses
  NoMsg,          \* no message
  NoClient,       \* no client
  SendCap,        \* capacity of Client.Send (256 in the code)
  BroadcastCap,   \* capacity of Hub.Broadcast (1024 in the code)
  MaxPublished    \* bound on the number of Redis deliveries

ASSUME HubAssumption ==
  /\ CompanyOf \in [Clients -> Companies]
  /\ Events \subseteq [kind : {"position", "alert"}, company : Companies,
                       device : Devices \union {NoDevice}]
  /\ SendCap \in Nat \ {0}
  /\ BroadcastCap \in Nat \ {0}
  /\ MaxPublished \in Nat
  /\ NoClient \notin Clients

(***************************************************************************)
(* A message is the event with the number of its delivery by Redis.        *)
(***************************************************************************)
Msg == [id : Nat, event : Events]

ASSUME NoMsgAssumption == NoMsg \notin Msg

Kinds == {"position", "alert"}

VARIABLES
  clients,      \* Hub.clients: the registered clients of each company
  hubPc,        \* "select", "fanout" or "unregister" (blocked on h.Unregister <-)
  cur,          \* msg, the broadcast being fanned out
  todo,         \* clients the range loop has still to visit
  victim,       \* client of the blocked h.Unregister <- client
  broadcast,    \* Hub.Broadcast
  sub,          \* event each subscriber goroutine is sending to Broadcast
  published,    \* number of events Redis has delivered
  handler,      \* wsTrackingHandler: "idle", "registering" or "returned"
  sock,         \* conn: "none", "open", "stalled" (peer does not read) or "gone"
  reader,       \* program counter of a client's read goroutine
  writer,       \* program counter of a client's write goroutine
  held,         \* message the write goroutine is writing
  send,         \* Client.Send
  sendClosed,   \* Client.Send has been closed
  panicked,     \* send on, or close of, a closed channel
  fanned,       \* history: the messages Run has taken from Broadcast
  span,         \* history: the part of fanned a client was registered for
  enqueued,     \* history: everything ever put in a client's Send
  written       \* history: everything written to a client's socket

hubVars  == <<clients, hubPc, cur, todo, victim>>
chanVars == <<broadcast, sub, published>>
goVars   == <<handler, sock, reader, writer, held>>
sendVars == <<send, sendClosed, panicked>>
histVars == <<fanned, span, enqueued, written>>
vars     == <<hubVars, chanVars, goVars, sendVars, histVars>>

Init ==
  /\ clients = [co \in Companies |-> {}]
  /\ hubPc = "select" /\ cur = NoMsg /\ todo = {} /\ victim = NoClient
  /\ broadcast = <<>>
  /\ sub = [k \in Kinds |-> NoMsg]
  /\ published = 0
  /\ handler = [c \in Clients |-> "idle"]
  /\ sock = [c \in Clients |-> "none"]
  /\ reader = [c \in Clients |-> "none"]
  /\ writer = [c \in Clients |-> "none"]
  /\ held = [c \in Clients |-> NoMsg]
  /\ send = [c \in Clients |-> <<>>]
  /\ sendClosed = [c \in Clients |-> FALSE]
  /\ panicked = FALSE
  /\ fanned = <<>>
  /\ span = [c \in Clients |-> [from |-> 0, to |-> 0]]
  /\ enqueued = [c \in Clients |-> <<>>]
  /\ written = [c \in Clients |-> <<>>]

--------------------------------------------------------------------------------
(* subscribeLivePositions and subscribeLiveAlerts.                          *)

\* An event arrives from Redis.  Payloads that do not unmarshal, positions of
\* device 0 and alerts of company 0 are skipped and change nothing.
Receive(e) ==
  /\ published < MaxPublished
  /\ sub[e.kind] = NoMsg
  /\ published' = published + 1
  /\ sub' = [sub EXCEPT ![e.kind] = [id |-> published + 1, event |-> e]]
  /\ UNCHANGED <<hubVars, broadcast, goVars, sendVars, histVars>>

\* Mutant: a send on Broadcast that ignores its capacity.
BroadcastUnbounded(k) ==
  /\ sub[k] /= NoMsg
  /\ broadcast' = Append(broadcast, sub[k])
  /\ sub' = [sub EXCEPT ![k] = NoMsg]
  /\ UNCHANGED <<hubVars, published, goVars, sendVars, histVars>>

\* hub.BroadcastPosition and hub.BroadcastAlert: a blocking send on Broadcast.
Broadcast(k) ==
  /\ sub[k] /= NoMsg
  /\ Len(broadcast) < BroadcastCap
  /\ broadcast' = Append(broadcast, sub[k])
  /\ sub' = [sub EXCEPT ![k] = NoMsg]
  /\ UNCHANGED <<hubVars, published, goVars, sendVars, histVars>>

--------------------------------------------------------------------------------
(* wsTrackingHandler and the socket.                                        *)

\* A valid token with a tenant, a successful upgrade, NewClient, and the
\* handler blocks on hub.Register.  A refused or failed request changes nothing.
Connect(c) ==
  /\ handler[c] = "idle"
  /\ handler' = [handler EXCEPT ![c] = "registering"]
  /\ sock' = [sock EXCEPT ![c] = "open"]
  /\ UNCHANGED <<hubVars, chanVars, reader, writer, held, sendVars, histVars>>

SetSock(c, from, to) ==
  /\ sock[c] \in from
  /\ sock' = [sock EXCEPT ![c] = to]
  /\ UNCHANGED <<hubVars, chanVars, handler, reader, writer, held, sendVars, histVars>>

\* The peer stops reading (writes block), reads again, or is lost.
PeerStalls(c)  == SetSock(c, {"open"}, "stalled")
PeerResumes(c) == SetSock(c, {"stalled"}, "open")
PeerLost(c)    == SetSock(c, {"open", "stalled"}, "gone")

\* ReadMessage fails: peer lost, no pong for 60 s, or a frame over 512 bytes.
\* What it reads otherwise, a subscribe request included, is discarded.
ReaderFails(c) ==
  /\ reader[c] = "reading"
  /\ reader' = [reader EXCEPT ![c] = "unregister"]
  /\ UNCHANGED <<hubVars, chanVars, handler, sock, writer, held, sendVars, histVars>>

ReaderCloses(c) ==
  /\ reader[c] = "close"
  /\ reader' = [reader EXCEPT ![c] = "done"]
  /\ sock' = [sock EXCEPT ![c] = "gone"]
  /\ UNCHANGED <<hubVars, chanVars, handler, writer, held, sendVars, histVars>>

\* Mutant: the writer sends only the newest of the waiting messages.
WriterTakesNewest(c) ==
  /\ writer[c] = "select" /\ send[c] /= <<>>
  /\ writer' = [writer EXCEPT ![c] = "writing"]
  /\ held' = [held EXCEPT ![c] = send[c][Len(send[c])]]
  /\ send' = [send EXCEPT ![c] = <<>>]
  /\ UNCHANGED <<hubVars, chanVars, handler, sock, reader, sendClosed, panicked, histVars>>

\* case msg, ok := <-client.Send with a message
WriterTakes(c) ==
  /\ writer[c] = "select" /\ send[c] /= <<>>
  /\ writer' = [writer EXCEPT ![c] = "writing"]
  /\ held' = [held EXCEPT ![c] = Head(send[c])]
  /\ send' = [send EXCEPT ![c] = Tail(@)]
  /\ UNCHANGED <<hubVars, chanVars, handler, sock, reader, sendClosed, panicked, histVars>>

\* case <-ticker.C; a ping an open socket takes at once changes nothing.
WriterPings(c) ==
  /\ writer[c] = "select" /\ sock[c] /= "open"
  /\ writer' = [writer EXCEPT ![c] = "writing"]
  /\ UNCHANGED <<hubVars, chanVars, handler, sock, reader, held, sendVars, histVars>>

\* WriteMessage returns; it has no deadline and blocks while the peer stalls.
WriteReturns(c) ==
  /\ writer[c] = "writing" /\ sock[c] = "open"
  /\ writer' = [writer EXCEPT ![c] = "select"]
  /\ held' = [held EXCEPT ![c] = NoMsg]
  /\ written' = [written EXCEPT ![c] = IF held[c] = NoMsg THEN @ ELSE Append(@, held[c])]
  /\ UNCHANGED <<hubVars, chanVars, handler, sock, reader, sendVars, fanned, span, enqueued>>

\* WriteMessage fails, or Send was closed and drained and the close frame is
\* written: the deferred function blocks on hub.Unregister.
WriterEnds(c) ==
  /\ \/ writer[c] = "writing" /\ sock[c] = "gone"
     \/ writer[c] = "select" /\ sendClosed[c] /\ send[c] = <<>> /\ sock[c] /= "stalled"
  /\ writer' = [writer EXCEPT ![c] = "unregister"]
  /\ held' = [held EXCEPT ![c] = NoMsg]
  /\ UNCHANGED <<hubVars, chanVars, handler, sock, reader, sendVars, histVars>>

WriterCloses(c) ==
  /\ writer[c] = "close"
  /\ writer' = [writer EXCEPT ![c] = "done"]
  /\ sock' = [sock EXCEPT ![c] = "gone"]
  /\ UNCHANGED <<hubVars, chanVars, handler, reader, held, sendVars, histVars>>

--------------------------------------------------------------------------------
(* Hub.Run.                                                                 *)

\* case client := <-h.Register; the handler then starts both goroutines.
HubRegister(c) ==
  /\ hubPc = "select" /\ handler[c] = "registering"
  /\ clients' = [clients EXCEPT ![CompanyOf[c]] = @ \union {c}]
  /\ handler' = [handler EXCEPT ![c] = "returned"]
  /\ reader' = [reader EXCEPT ![c] = "reading"]
  /\ writer' = [writer EXCEPT ![c] = "select"]
  /\ span' = [span EXCEPT ![c] = [from |-> Len(fanned), to |-> Len(fanned)]]
  /\ UNCHANGED <<hubPc, cur, todo, victim, chanVars, sock, held, sendVars, fanned, enqueued,
                 written>>

\* Mutant: close(client.Send) without looking the client up first.
RemoveAlways(c) ==
  /\ clients' = [clients EXCEPT ![CompanyOf[c]] = @ \ {c}]
  /\ sendClosed' = [sendClosed EXCEPT ![c] = TRUE]
  /\ panicked' = (panicked \/ sendClosed[c])
  /\ span' = [span EXCEPT ![c] = [from |-> @.from, to |-> Len(fanned)]]

\* Mutant: Send is closed but the client stays in the map.
RemoveKeepsEntry(c) ==
  IF c \in clients[CompanyOf[c]] /\ ~sendClosed[c]
  THEN /\ sendClosed' = [sendClosed EXCEPT ![c] = TRUE]
       /\ UNCHANGED <<clients, panicked, span>>
  ELSE UNCHANGED <<clients, sendClosed, panicked, span>>

\* The body of case client := <-h.Unregister: only the first of the two
\* goroutines' requests finds the client and closes Send.
Remove(c) ==
  IF c \in clients[CompanyOf[c]]
  THEN /\ clients' = [clients EXCEPT ![CompanyOf[c]] = @ \ {c}]
       /\ sendClosed' = [sendClosed EXCEPT ![c] = TRUE]
       /\ panicked' = (panicked \/ sendClosed[c])
       /\ span' = [span EXCEPT ![c] = [from |-> @.from, to |-> Len(fanned)]]
  ELSE UNCHANGED <<clients, sendClosed, panicked, span>>

HubUnregisterReader(c) ==
  /\ hubPc = "select" /\ reader[c] = "unregister"
  /\ Remove(c)
  /\ reader' = [reader EXCEPT ![c] = "close"]
  /\ UNCHANGED <<hubPc, cur, todo, victim, chanVars, handler, sock, writer, held, send,
                 fanned, enqueued, written>>

HubUnregisterWriter(c) ==
  /\ hubPc = "select" /\ writer[c] = "unregister"
  /\ Remove(c)
  /\ writer' = [writer EXCEPT ![c] = "close"]
  /\ UNCHANGED <<hubPc, cur, todo, victim, chanVars, handler, sock, reader, held, send,
                 fanned, enqueued, written>>

\* Mutant: a broadcast visits the clients of every company.
AudienceAll(m) == UNION {clients[co] : co \in Companies}

\* companyClients: the clients the hub visits for a message.
Audience(m) == clients[m.event.company]

\* case msg := <-h.Broadcast, the company has no clients
HubSkips ==
  /\ hubPc = "select" /\ broadcast /= <<>>
  /\ Audience(Head(broadcast)) = {}
  /\ broadcast' = Tail(broadcast)
  /\ fanned' = Append(fanned, Head(broadcast))
  /\ UNCHANGED <<hubVars, sub, published, goVars, sendVars, span, enqueued, written>>

\* case msg := <-h.Broadcast, the range loop starts
HubFansOut ==
  /\ hubPc = "select" /\ broadcast /= <<>>
  /\ Audience(Head(broadcast)) /= {}
  /\ hubPc' = "fanout"
  /\ cur' = Head(broadcast)
  /\ todo' = Audience(Head(broadcast))
  /\ broadcast' = Tail(broadcast)
  /\ fanned' = Append(fanned, Head(broadcast))
  /\ UNCHANGED <<clients, victim, sub, published, goVars, sendVars, span, enqueued, written>>

\* SubscribedDevs stays empty: no code calls Client.Subscribe, so
\* IsSubscribed is true for every device.
SubscribedDevs(c) == {}
IsSubscribed(c, d) == SubscribedDevs(c) = {} \/ d \in SubscribedDevs(c)

\* Mutant: Run forgets to go back to its select after the last client.
HubSendsForever(c) ==
  /\ hubPc = "fanout" /\ c \in todo
  /\ Len(send[c]) < SendCap
  /\ send' = [send EXCEPT ![c] = Append(@, cur)]
  /\ enqueued' = [enqueued EXCEPT ![c] = Append(@, cur)]
  /\ todo' = todo \ {c}
  /\ UNCHANGED <<clients, hubPc, cur, victim, chanVars, goVars, sendClosed, panicked,
                 fanned, span, written>>

\* case client.Send <- msg.Data
HubSends(c) ==
  /\ hubPc = "fanout" /\ c \in todo
  /\ IsSubscribed(c, cur.event.device)
  /\ Len(send[c]) < SendCap
  /\ send' = [send EXCEPT ![c] = Append(@, cur)]
  /\ panicked' = (panicked \/ sendClosed[c])
  /\ enqueued' = [enqueued EXCEPT ![c] = Append(@, cur)]
  /\ todo' = todo \ {c}
  /\ hubPc' = IF todo' = {} THEN "select" ELSE "fanout"
  /\ cur' = IF todo' = {} THEN NoMsg ELSE cur
  /\ UNCHANGED <<clients, victim, chanVars, goVars, sendClosed, fanned, span, written>>

\* Mutant: a full buffer drops the message and keeps the client.
HubDrops(c) ==
  /\ hubPc = "fanout" /\ c \in todo
  /\ Len(send[c]) >= SendCap
  /\ todo' = todo \ {c}
  /\ hubPc' = IF todo' = {} THEN "select" ELSE "fanout"
  /\ cur' = IF todo' = {} THEN NoMsg ELSE cur
  /\ UNCHANGED <<clients, victim, chanVars, goVars, sendVars, histVars>>

\* default: h.Unregister <- client.  Only Run receives from Unregister, and
\* Run is the sender: the send has no matching receive.
HubOverflows(c) ==
  /\ hubPc = "fanout" /\ c \in todo
  /\ IsSubscribed(c, cur.event.device)
  /\ Len(send[c]) >= SendCap
  /\ hubPc' = "unregister"
  /\ victim' = c
  /\ UNCHANGED <<clients, cur, todo, chanVars, goVars, sendVars, histVars>>

--------------------------------------------------------------------------------
\* A client's handler and goroutines rendezvous with Run at its select.
HubServes(c) == HubRegister(c) \/ HubUnregisterReader(c) \/ HubUnregisterWriter(c)

HubDelivers ==
  \/ HubSkips \/ HubFansOut
  \/ \E c \in Clients : HubSends(c) \/ HubOverflows(c)

HubStep == HubDelivers \/ \E c \in Clients : HubServes(c)

WriterStep(c) ==
  WriterTakes(c) \/ WriterPings(c) \/ WriteReturns(c) \/ WriterEnds(c) \/ WriterCloses(c)

Next ==
  \/ \E e \in Events : Receive(e)
  \/ \E k \in Kinds : Broadcast(k)
  \/ HubStep
  \/ \E c \in Clients :
       \/ Connect(c)
       \/ PeerStalls(c) \/ PeerResumes(c) \/ PeerLost(c)
       \/ ReaderFails(c) \/ ReaderCloses(c)
       \/ WriterStep(c)

Spec == Init /\ [][Next]_vars

(***************************************************************************)
(* Go schedules every runnable goroutine; a waiting channel operation is   *)
(* served in turn; ReadMessage fails once the peer has been silent for 60  *)
(* s.  Browsers, the network and Redis promise nothing.                    *)
(***************************************************************************)
Fairness ==
  /\ \A k \in Kinds : WF_vars(Broadcast(k))
  /\ WF_vars(HubDelivers)
  /\ \A c \in Clients :
       /\ WF_vars(HubServes(c))
       /\ WF_vars(ReaderCloses(c) \/ (sock[c] /= "open" /\ ReaderFails(c)))
       /\ WF_vars(WriterStep(c))

FairSpec == Spec /\ Fairness

--------------------------------------------------------------------------------
(* Properties.                                                              *)

TypeOK ==
  /\ clients \in [Companies -> SUBSET Clients]
  /\ hubPc \in {"select", "fanout", "unregister"}
  /\ cur \in Msg \union {NoMsg}
  /\ todo \in SUBSET Clients
  /\ victim \in Clients \union {NoClient}
  /\ broadcast \in Seq(Msg)
  /\ Len(broadcast) <= BroadcastCap
  /\ sub \in [Kinds -> Msg \union {NoMsg}]
  /\ published \in Nat
  /\ handler \in [Clients -> {"idle", "registering", "returned"}]
  /\ sock \in [Clients -> {"none", "open", "stalled", "gone"}]
  /\ reader \in [Clients -> {"none", "reading", "unregister", "close", "done"}]
  /\ writer \in [Clients -> {"none", "select", "writing", "unregister", "close", "done"}]
  /\ held \in [Clients -> Msg \union {NoMsg}]
  /\ send \in [Clients -> Seq(Msg)]
  /\ \A c \in Clients : Len(send[c]) <= SendCap
  /\ sendClosed \in [Clients -> BOOLEAN]
  /\ panicked \in BOOLEAN
  /\ fanned \in Seq(Msg)
  /\ span \in [Clients -> [from : Nat, to : Nat]]
  /\ enqueued \in [Clients -> Seq(Msg)]
  /\ written \in [Clients -> Seq(Msg)]

(***************************************************************************)
(* The hub never sends on, and never closes, a closed Send channel, either *)
(* of which would panic and end rudra-api: although the read and the write *)
(* goroutine of a client both unregister it, in either order and between   *)
(* two broadcasts (hub.go, case client := <-h.Unregister).                 *)
(***************************************************************************)
NoPanic == ~panicked

(***************************************************************************)
(* No client is ever handed an event of another tenant, from the moment it *)
(* registers until its goroutines end (hub.go, h.clients by company).      *)
(***************************************************************************)
TenantIsolation ==
  \A c \in Clients : \A i \in 1..Len(enqueued[c]) :
     enqueued[c][i].event.company = CompanyOf[c]

\* The places in fanned of the events of its company that Run took while a
\* client was registered; the one being fanned out counts once the loop has
\* visited the client.
Registered(c) == c \in clients[CompanyOf[c]]
LastDue(c) ==
  IF Registered(c) THEN Len(fanned) - (IF c \in todo THEN 1 ELSE 0) ELSE span[c].to
Due(c) == {n \in span[c].from + 1 .. LastDue(c) : fanned[n].event.company = CompanyOf[c]}

\* place says which of those events each element of the feed is.
Fed(c) ==
  LET sent == 1..Len(enqueued[c]) IN
  \E place \in [sent -> Due(c)] :
    /\ \A i, j \in sent : i < j => place[i] < place[j]
    /\ \A n \in Due(c) : \E i \in sent : place[i] = n
    /\ \A i \in sent : enqueued[c][i] = fanned[place[i]]

(***************************************************************************)
(* A registered client's feed has no gap, no duplicate and no reordering:  *)
(* what was put in its Send channel is exactly what Run took from          *)
(* Broadcast for its company since it registered, whatever other clients   *)
(* came, went, stalled or overflowed meanwhile (hub.go, Run).              *)
(***************************************************************************)
FeedComplete == \A c \in Clients : handler[c] = "returned" => Fed(c)

(***************************************************************************)
(* Between Send and the socket nothing is lost or reordered while the      *)
(* write goroutine lives, and once it ends the browser holds a prefix of   *)
(* its feed (handlers_ops.go, the write goroutine of wsTrackingHandler).   *)
(***************************************************************************)
FeedInOrder ==
  \A c \in Clients :
    LET inHand == IF held[c] = NoMsg THEN <<>> ELSE <<held[c]>>
    IN  /\ written[c] = SubSeq(enqueued[c], 1, Len(written[c]))
        /\ writer[c] \in {"none", "select", "writing"}
             => written[c] \o inHand \o send[c] = enqueued[c]

HubBlocked == hubPc = "unregister"

(***************************************************************************)
(* Unless Run blocks on its own Unregister channel, a lost browser is      *)
(* forgotten: both goroutines end and the client leaves the registry, so   *)
(* nothing leaks (handlers_ops.go, the deferred functions).                *)
(***************************************************************************)
SessionsEnd ==
  \A c \in Clients :
    (handler[c] = "returned" /\ sock[c] = "gone")
      ~> ((reader[c] = "done" /\ writer[c] = "done" /\ ~Registered(c)) \/ HubBlocked)

(***************************************************************************)
(* Unless Run blocks on its own Unregister channel, every event a          *)
(* subscriber received is fanned out, even past stalled browsers and a     *)
(* full Broadcast channel (hub.go, Run and BroadcastPosition).             *)
(***************************************************************************)
EventsFannedOut ==
  \A n \in 1..MaxPublished : (published >= n) ~> (Len(fanned) >= n \/ HubBlocked)

(***************************************************************************)
(* "Client buffer full - disconnect" (hub.go, default case of the fan      *)
(* out): a client whose buffer is full is disconnected.                    *)
(***************************************************************************)
OverflowDisconnects ==
  \A c \in Clients : (HubBlocked /\ victim = c) ~> ~Registered(c)
================================================================================
