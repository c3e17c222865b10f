---------------------------- MODULE DeviceSessions -----------------------------
(***************************************************************************)
(* The device sessions of rudra-ingest (cmd/rudra-ingest/main.go) and the  *)
(* life of a remote command: sendDeviceCommandHandler of rudra-api inserts *)
(* its row and publishes it on Redis, subscribeCommands writes it to the   *)
(* socket of the device's session, and the goroutine that reads that       *)
(* socket records the reply.  sessions, every lastCommand and the rows of  *)
(* device_commands are shared by these goroutines without a lock, so every *)
(* read and every write of them is a step of its own.                      *)
(*                                                                         *)
(* AVL frames share the sockets but none of this state; they are not       *)
(* modelled here.                                                          *)
(***************************************************************************)
EXTENDS Naturals, Sequences

CONSTANTS
  Conns,        \* TCP connections devices open, one after the other
  Devices,      \* IMEIs
  Commands,     \* rows of device_commands
  TargetOf,     \* the device a command is for
  NoConn,       \* no session
  NoDevice,     \* no IMEI read yet
  NoCmd,        \* lastCommand 0, and no reply
  DbMayFail,    \* statements may fail; every error is ignored by the code
  MaxRestarts   \* bound on crashes of rudra-ingest

ASSUME SessionsAssumption ==
  /\ TargetOf \in [Commands -> Devices]
  /\ NoConn \notin Conns /\ NoDevice \notin Devices /\ NoCmd \notin Commands
  /\ DbMayFail \in BOOLEAN
  /\ MaxRestarts \in Nat

VARIABLES
  main,         \* main: "running", "cancelled", "closing", "waiting", "stopped"
  visited,      \* IMEIs sessions.Range has visited during the shutdown
  restarts,     \* number of crashes
  pc,           \* handleDeviceConnection of each connection
  imei,         \* the IMEI a connection identified itself with
  sock,         \* "none", "open", "lost" (peer gone, not noticed) or "closed"
  sessions,     \* sync.Map: IMEI to the connection of its deviceSession
  lastCommand,  \* deviceSession.lastCommand
  hand,         \* command id handleCommandResponse loaded, and the reply
  toDevice,     \* command frames on their way to the device
  toServer,     \* replies on their way back
  sub,          \* subscribeCommands: program counter, command, session
  bus,          \* messages of events.CommandsChannel not yet received
  request,      \* sendDeviceCommandHandler: "none", "publish" or "done"
  status,       \* device_commands.status, "none" before the INSERT
  response,     \* device_commands.response: the command the text replies to
  wrote,        \* history: connection a command was written to
  replied       \* history: commands the device has replied to

mainVars == <<main, visited, restarts>>
connVars == <<pc, imei, sock, hand>>
wireVars == <<toDevice, toServer>>
rowVars  == <<status, response>>
histVars == <<wrote, replied>>
vars     == <<mainVars, connVars, sessions, lastCommand, wireVars, sub, bus, request,
              rowVars, histVars>>

Idle == [pc |-> "receive", cmd |-> NoCmd, conn |-> NoConn]
Empty == [cmd |-> NoCmd, reply |-> NoCmd]

Init ==
  /\ main = "running" /\ visited = {} /\ restarts = 0
  /\ pc = [k \in Conns |-> "none"]
  /\ imei = [k \in Conns |-> NoDevice]
  /\ sock = [k \in Conns |-> "none"]
  /\ hand = [k \in Conns |-> Empty]
  /\ sessions = [d \in Devices |-> NoConn]
  /\ lastCommand = [k \in Conns |-> NoCmd]
  /\ toDevice = [k \in Conns |-> <<>>]
  /\ toServer = [k \in Conns |-> <<>>]
  /\ sub = Idle
  /\ bus = <<>>
  /\ request = [i \in Commands |-> "none"]
  /\ status = [i \in Commands |-> "none"]
  /\ response = [i \in Commands |-> NoCmd]
  /\ wrote = [i \in Commands |-> NoConn]
  /\ replied = {}

Cancelled == main /= "running"
Up == main /= "stopped"

\* Outcomes of a statement issued with the process's context.
DbOutcomes == IF Cancelled THEN {FALSE} ELSE IF DbMayFail THEN BOOLEAN ELSE {TRUE}

--------------------------------------------------------------------------------
(* sendDeviceCommandHandler in rudra-api.                                   *)

\* INSERT INTO device_commands ... 'Sent'.  A refused request, a wrong PIN or a
\* failed INSERT changes nothing.
InsertCommand(i) ==
  /\ request[i] = "none"
  /\ request' = [request EXCEPT ![i] = "publish"]
  /\ status' = [status EXCEPT ![i] = "Sent"]
  /\ UNCHANGED <<mainVars, connVars, sessions, lastCommand, wireVars, sub, bus,
                 response, histVars>>

\* Redis delivers to current subscribers only: without Redis, after a failed
\* publish or with rudra-ingest down the command reaches no one.
PublishCommand(i) ==
  /\ request[i] = "publish"
  /\ request' = [request EXCEPT ![i] = "done"]
  /\ bus' \in {bus} \union (IF Up THEN {Append(bus, i)} ELSE {})
  /\ UNCHANGED <<mainVars, connVars, sessions, lastCommand, wireVars, sub, rowVars, histVars>>

--------------------------------------------------------------------------------
(* The device, at the other end of the socket.                              *)

\* A device answers the commands it receives in order.
DeviceReplies(k) ==
  /\ sock[k] = "open" /\ toDevice[k] /= <<>>
  /\ toDevice' = [toDevice EXCEPT ![k] = Tail(@)]
  /\ toServer' = [toServer EXCEPT ![k] = Append(@, Head(toDevice[k]))]
  /\ replied' = replied \union {Head(toDevice[k])}
  /\ UNCHANGED <<mainVars, connVars, sessions, lastCommand, sub, bus, request, rowVars, wrote>>

\* The device closes the connection, reboots or loses its network.
PeerLost(k) ==
  /\ sock[k] = "open"
  /\ sock' = [sock EXCEPT ![k] = "lost"]
  /\ UNCHANGED <<mainVars, pc, imei, hand, sessions, lastCommand, wireVars, sub, bus,
                 request, rowVars, histVars>>

--------------------------------------------------------------------------------
(* handleDeviceConnection.                                                  *)

ConnStep(k, from, to) ==
  /\ Up /\ pc[k] = from
  /\ pc' = [pc EXCEPT ![k] = to]

\* listener.Accept, wg.Add(1) and the start of the goroutine
Accept(k) ==
  /\ main \in {"running", "cancelled"}
  /\ ConnStep(k, "none", "imei")
  /\ sock' = [sock EXCEPT ![k] = "open"]
  /\ UNCHANGED <<mainVars, imei, hand, sessions, lastCommand, wireVars, sub, bus, request,
                 rowVars, histVars>>

\* The device identifies itself.  It has one modem: it gave up its previous
\* connection, whether or not rudra-ingest has noticed.
ReadIMEI(k, d) ==
  /\ ConnStep(k, "imei", "resolve")
  /\ sock[k] = "open"
  /\ \A j \in Conns : imei[j] = d => sock[j] /= "open"
  /\ imei' = [imei EXCEPT ![k] = d]
  /\ UNCHANGED <<mainVars, sock, hand, sessions, lastCommand, wireVars, sub, bus, request,
                 rowVars, histVars>>

ConnMoves(k, from, to) ==
  /\ ConnStep(k, from, to)
  /\ UNCHANGED <<mainVars, imei, sock, hand, sessions, lastCommand, wireVars, sub, bus,
                 request, rowVars, histVars>>

\* The read fails, or what was read is not an IMEI.
ReadIMEIFails(k) == ConnMoves(k, "imei", "close")

\* deviceRepo.GetByIMEI finds the device, or it is unknown or the query fails.
Resolves(k)   == TRUE \in DbOutcomes /\ ConnMoves(k, "resolve", "store")
Unresolved(k) == ConnMoves(k, "resolve", "close")

\* sessions.Store(imei, sess), replacing the session of an older connection
StoreSession(k) ==
  /\ ConnStep(k, "store", "accept")
  /\ sessions' = [sessions EXCEPT ![imei[k]] = k]
  /\ UNCHANGED <<mainVars, imei, sock, hand, lastCommand, wireVars, sub, bus, request,
                 rowVars, histVars>>

\* conn.Write(codec.IMEIAccept()) and the heartbeat update
Accepts(k)     == sock[k] /= "closed" /\ ConnMoves(k, "accept", "loop")
AcceptFails(k) == sock[k] /= "open" /\ ConnMoves(k, "accept", "delete")

\* The select on ctx.Done() at the top of the read loop
LoopReads(k) == ~Cancelled /\ ConnMoves(k, "loop", "read")
LoopEnds(k)  == Cancelled /\ ConnMoves(k, "loop", "delete")

\* Mutant: an error of conn.Read is treated like an empty read.
ReadFailsRetries(k) == sock[k] /= "open" /\ ConnMoves(k, "read", "loop")

\* conn.Read fails: the peer is gone or the shutdown closed the socket.
ReadFails(k) == sock[k] /= "open" /\ ConnMoves(k, "read", "delete")

\* Mutant: the check that there is a command to record against is missing.
LoadAnyCommand(k) ==
  /\ sock[k] /= "closed" /\ toServer[k] /= <<>>
  /\ toServer' = [toServer EXCEPT ![k] = Tail(@)]
  /\ ConnStep(k, "read", "record")
  /\ hand' = [hand EXCEPT ![k] = [cmd |-> lastCommand[k], reply |-> Head(toServer[k])]]
  /\ UNCHANGED <<mainVars, imei, sock, sessions, lastCommand, toDevice, sub, bus, request,
                 rowVars, histVars>>

\* conn.Read returns a Codec 12 frame and handleCommandResponse loads
\* lastCommand.  A frame that does not parse, or holds no text, is skipped.
LoadCommand(k) ==
  /\ sock[k] /= "closed" /\ toServer[k] /= <<>>
  /\ toServer' = [toServer EXCEPT ![k] = Tail(@)]
  /\ \/ /\ lastCommand[k] = NoCmd
        /\ ConnStep(k, "read", "loop")
        /\ UNCHANGED hand
     \/ /\ lastCommand[k] /= NoCmd
        /\ ConnStep(k, "read", "record")
        /\ hand' = [hand EXCEPT ![k] = [cmd |-> lastCommand[k], reply |-> Head(toServer[k])]]
  /\ UNCHANGED <<mainVars, imei, sock, sessions, lastCommand, toDevice, sub, bus, request,
                 rowVars, histVars>>

\* UPDATE device_commands SET status = 'Acknowledged' ... WHERE id = $2
RecordResponse(k) ==
  /\ ConnStep(k, "record", "clear")
  /\ \E ok \in DbOutcomes :
       IF ok THEN /\ status' = [status EXCEPT ![hand[k].cmd] = "Acknowledged"]
                  /\ response' = [response EXCEPT ![hand[k].cmd] = hand[k].reply]
             ELSE UNCHANGED <<status, response>>
  /\ UNCHANGED <<mainVars, imei, sock, hand, sessions, lastCommand, wireVars, sub, bus,
                 request, histVars>>

\* sess.lastCommand.Store(0)
ClearCommand(k) ==
  /\ ConnStep(k, "clear", "loop")
  /\ lastCommand' = [lastCommand EXCEPT ![k] = NoCmd]
  /\ hand' = [hand EXCEPT ![k] = Empty]
  /\ UNCHANGED <<mainVars, imei, sock, sessions, wireVars, sub, bus, request, rowVars, histVars>>

\* Mutant: the session is not deleted when its connection ends.
KeepSession(k) == ConnMoves(k, "delete", "close")

\* defer sessions.Delete(imei): whatever session is stored there
DeleteSession(k) ==
  /\ ConnStep(k, "delete", "close")
  /\ sessions' = [sessions EXCEPT ![imei[k]] = NoConn]
  /\ UNCHANGED <<mainVars, imei, sock, hand, lastCommand, wireVars, sub, bus, request,
                 rowVars, histVars>>

\* defer conn.Close(), then wg.Done()
CloseConn(k) ==
  /\ ConnStep(k, "close", "done")
  /\ sock' = [sock EXCEPT ![k] = "closed"]
  /\ UNCHANGED <<mainVars, imei, hand, sessions, lastCommand, wireVars, sub, bus, request,
                 rowVars, histVars>>

--------------------------------------------------------------------------------
(* subscribeCommands.                                                       *)

SubStep(from) == Up /\ sub.pc = from

\* Mutant: the command goes to whichever device has a session.
SubFindsAny ==
  /\ SubStep("receive") /\ bus /= <<>>
  /\ \E d \in Devices :
       /\ sessions[d] /= NoConn
       /\ sub' = [pc |-> "write", cmd |-> Head(bus), conn |-> sessions[d]]
  /\ bus' = Tail(bus)
  /\ UNCHANGED <<mainVars, connVars, sessions, lastCommand, wireVars, request, rowVars, histVars>>

\* case msg, ok := <-channel and sessions.Load(cmd.IMEI), which finds a session
SubFinds ==
  /\ SubStep("receive") /\ bus /= <<>>
  /\ sessions[TargetOf[Head(bus)]] /= NoConn
  /\ sub' = [pc |-> "write", cmd |-> Head(bus), conn |-> sessions[TargetOf[Head(bus)]]]
  /\ bus' = Tail(bus)
  /\ UNCHANGED <<mainVars, connVars, sessions, lastCommand, wireVars, request, rowVars, histVars>>

\* "command queued for offline device": the message is dropped
SubMisses ==
  /\ SubStep("receive") /\ bus /= <<>>
  /\ sessions[TargetOf[Head(bus)]] = NoConn
  /\ bus' = Tail(bus)
  /\ UNCHANGED <<mainVars, connVars, sessions, lastCommand, wireVars, sub, request, rowVars, histVars>>

\* case <-ctx.Done()
SubEnds ==
  /\ SubStep("receive") /\ Cancelled
  /\ sub' = [sub EXCEPT !.pc = "done"]
  /\ UNCHANGED <<mainVars, connVars, sessions, lastCommand, wireVars, bus, request, rowVars, histVars>>

\* sess.conn.Write succeeds; nobody reads what is written to a lost peer.
SubWrites ==
  /\ SubStep("write")
  /\ sock[sub.conn] /= "closed"
  /\ toDevice' = IF sock[sub.conn] = "open"
                 THEN [toDevice EXCEPT ![sub.conn] = Append(@, sub.cmd)] ELSE toDevice
  /\ wrote' = [wrote EXCEPT ![sub.cmd] = sub.conn]
  /\ sub' = [sub EXCEPT !.pc = "store"]
  /\ UNCHANGED <<mainVars, connVars, sessions, lastCommand, toServer, bus, request, rowVars,
                 replied>>

\* Mutant: a failed write is logged and the command is marked all the same.
SubIgnoresFailure ==
  /\ SubStep("write")
  /\ sock[sub.conn] /= "open"
  /\ sub' = [sub EXCEPT !.pc = "store"]
  /\ UNCHANGED <<mainVars, connVars, sessions, lastCommand, wireVars, bus, request, rowVars, histVars>>

\* sess.conn.Write fails: the command stays 'Sent'.
SubWriteFails ==
  /\ SubStep("write")
  /\ sock[sub.conn] /= "open"
  /\ sub' = Idle
  /\ UNCHANGED <<mainVars, connVars, sessions, lastCommand, wireVars, bus, request, rowVars, histVars>>

\* Mutant: one lastCommand for the whole process.
SubStoresGlobally ==
  /\ SubStep("store")
  /\ lastCommand' = [k \in Conns |-> sub.cmd]
  /\ sub' = [sub EXCEPT !.pc = "update"]
  /\ UNCHANGED <<mainVars, connVars, sessions, wireVars, bus, request, rowVars, histVars>>

\* sess.lastCommand.Store(cmd.CommandID)
SubStores ==
  /\ SubStep("store")
  /\ lastCommand' = [lastCommand EXCEPT ![sub.conn] = sub.cmd]
  /\ sub' = [sub EXCEPT !.pc = "update"]
  /\ UNCHANGED <<mainVars, connVars, sessions, wireVars, bus, request, rowVars, histVars>>

\* Mutant: the UPDATE lacks AND status = 'Sent'.
SubUpdatesAlways ==
  /\ SubStep("update")
  /\ \E ok \in DbOutcomes :
       status' = IF ok THEN [status EXCEPT ![sub.cmd] = "Delivered"] ELSE status
  /\ sub' = Idle
  /\ UNCHANGED <<mainVars, connVars, sessions, lastCommand, wireVars, bus, request, response, histVars>>

\* UPDATE device_commands SET status = 'Delivered' WHERE id = $1 AND status = 'Sent'
SubUpdates ==
  /\ SubStep("update")
  /\ \E ok \in DbOutcomes :
       status' = IF ok /\ status[sub.cmd] = "Sent"
                 THEN [status EXCEPT ![sub.cmd] = "Delivered"] ELSE status
  /\ sub' = Idle
  /\ UNCHANGED <<mainVars, connVars, sessions, lastCommand, wireVars, bus, request, response, histVars>>

--------------------------------------------------------------------------------
(* main: shutdown, and a crash followed by a restart.                       *)

Cancel ==
  /\ main = "running"
  /\ main' = "cancelled"
  /\ UNCHANGED <<visited, restarts, connVars, sessions, lastCommand, wireVars, sub, bus,
                 request, rowVars, histVars>>

CloseListener ==
  /\ main = "cancelled"
  /\ main' = "closing"
  /\ UNCHANGED <<visited, restarts, connVars, sessions, lastCommand, wireVars, sub, bus,
                 request, rowVars, histVars>>

\* sessions.Range visits a key and closes the connection it finds there.
RangeCloses(d) ==
  /\ main = "closing" /\ d \notin visited
  /\ visited' = visited \union {d}
  /\ sock' = IF sessions[d] = NoConn THEN sock ELSE [sock EXCEPT ![sessions[d]] = "closed"]
  /\ main' = IF visited' = Devices THEN "waiting" ELSE "closing"
  /\ UNCHANGED <<restarts, pc, imei, hand, sessions, lastCommand, wireVars, sub, bus,
                 request, rowVars, histVars>>

\* wg.Wait() returns: every connection's goroutine has ended.
WaitReturns ==
  /\ main = "waiting"
  /\ \A k \in Conns : pc[k] \in {"none", "done"}
  /\ main' = "stopped"
  /\ UNCHANGED <<visited, restarts, connVars, sessions, lastCommand, wireVars, sub, bus,
                 request, rowVars, histVars>>

\* The process dies, at any point, and is started again: sockets, sessions and
\* undelivered messages are gone, the rows remain.
Restart ==
  /\ restarts < MaxRestarts
  /\ restarts' = restarts + 1
  /\ main' = "running" /\ visited' = {}
  /\ pc' = [k \in Conns |-> IF pc[k] = "none" THEN "none" ELSE "done"]
  /\ sock' = [k \in Conns |-> IF sock[k] = "none" THEN "none" ELSE "closed"]
  /\ sessions' = [d \in Devices |-> NoConn]
  /\ lastCommand' = [k \in Conns |-> NoCmd]
  /\ hand' = [k \in Conns |-> Empty]
  /\ toDevice' = [k \in Conns |-> <<>>]
  /\ toServer' = [k \in Conns |-> <<>>]
  /\ sub' = Idle /\ bus' = <<>>
  /\ UNCHANGED <<imei, request, rowVars, histVars>>

--------------------------------------------------------------------------------
HandlerStep(k) ==
  \/ Resolves(k) \/ Unresolved(k) \/ StoreSession(k)
  \/ Accepts(k) \/ AcceptFails(k) \/ LoopReads(k) \/ LoopEnds(k)
  \/ ReadFails(k) \/ LoadCommand(k) \/ RecordResponse(k) \/ ClearCommand(k)
  \/ DeleteSession(k) \/ CloseConn(k)

SubscriberStep ==
  SubFinds \/ SubMisses \/ SubEnds \/ SubWrites \/ SubWriteFails \/ SubStores \/ SubUpdates

ShutdownStep == CloseListener \/ (\E d \in Devices : RangeCloses(d)) \/ WaitReturns

Next ==
  \/ \E i \in Commands : InsertCommand(i) \/ PublishCommand(i)
  \/ \E k \in Conns :
       \/ DeviceReplies(k) \/ PeerLost(k)
       \/ Accept(k) \/ (\E d \in Devices : ReadIMEI(k, d)) \/ ReadIMEIFails(k)
       \/ HandlerStep(k)
  \/ SubscriberStep
  \/ Cancel \/ ShutdownStep
  \/ Restart

Spec == Init /\ [][Next]_vars

(***************************************************************************)
(* Go schedules every runnable goroutine, TCP keepalive makes a read from  *)
(* a lost peer fail, and statements and writes return.  A device that is   *)
(* still connected may stay silent for ever, also before its IMEI.         *)
(***************************************************************************)
Fairness ==
  /\ \A k \in Conns :
       /\ WF_vars(HandlerStep(k))
       /\ WF_vars(sock[k] /= "open" /\ ReadIMEIFails(k))
  /\ WF_vars(SubscriberStep)
  /\ WF_vars(ShutdownStep)

FairSpec == Spec /\ Fairness

--------------------------------------------------------------------------------
(* Properties.                                                              *)

States == {"none", "imei", "resolve", "store", "accept", "loop", "read", "record",
           "clear", "delete", "close", "done"}

TypeOK ==
  /\ main \in {"running", "cancelled", "closing", "waiting", "stopped"}
  /\ visited \in SUBSET Devices /\ restarts \in 0..MaxRestarts
  /\ pc \in [Conns -> States]
  /\ imei \in [Conns -> Devices \union {NoDevice}]
  /\ sock \in [Conns -> {"none", "open", "lost", "closed"}]
  /\ hand \in [Conns -> [cmd : Commands \union {NoCmd}, reply : Commands \union {NoCmd}]]
  /\ sessions \in [Devices -> Conns \union {NoConn}]
  /\ lastCommand \in [Conns -> Commands \union {NoCmd}]
  /\ toDevice \in [Conns -> Seq(Commands)] /\ toServer \in [Conns -> Seq(Commands)]
  /\ sub \in [pc : {"receive", "write", "store", "update", "done"},
              cmd : Commands \union {NoCmd}, conn : Conns \union {NoConn}]
  /\ bus \in Seq(Commands)
  /\ request \in [Commands -> {"none", "publish", "done"}]
  /\ status \in [Commands -> {"none", "Sent", "Delivered", "Acknowledged"}]
  /\ response \in [Commands -> Commands \union {NoCmd}]
  /\ wrote \in [Commands -> Conns \union {NoConn}]
  /\ replied \in SUBSET Commands
  /\ \A k \in Conns :
       /\ pc[k] \in {"record", "clear"} => hand[k].cmd /= NoCmd /\ hand[k].reply /= NoCmd
       /\ pc[k] \in {"resolve", "store", "accept", "loop", "read", "record", "clear", "delete"}
            => imei[k] /= NoDevice
  /\ sub.pc \in {"write", "store", "update"} => sub.cmd /= NoCmd /\ sub.conn /= NoConn

Rank == [none |-> 0, Sent |-> 1, Delivered |-> 2, Acknowledged |-> 3]

(***************************************************************************)
(* The status of a command never goes back, although the subscriber marks  *)
(* it 'Delivered' after the write while the connection's goroutine may     *)
(* already have recorded the reply (main.go, subscribeCommands).           *)
(***************************************************************************)
StatusMonotone == [][\A i \in Commands : Rank[status'[i]] >= Rank[status[i]]]_vars

(***************************************************************************)
(* A command that is 'Delivered' or 'Acknowledged' has been written to a   *)
(* socket of its own device, whatever became of that connection meanwhile  *)
(* (main.go, subscribeCommands and handleCommandResponse).                 *)
(***************************************************************************)
ProgressMeansWritten ==
  \A i \in Commands : status[i] \in {"Delivered", "Acknowledged"} =>
    wrote[i] /= NoConn /\ imei[wrote[i]] = TargetOf[i]

(***************************************************************************)
(* A response is never recorded against a command of another device, with  *)
(* devices reconnecting and several commands under way (main.go,           *)
(* deviceSession.lastCommand).                                             *)
(***************************************************************************)
OwnDeviceResponse ==
  \A i \in Commands : response[i] /= NoCmd => TargetOf[response[i]] = TargetOf[i]

(***************************************************************************)
(* A session in the registry is of the IMEI it is stored under and its     *)
(* connection's goroutine has not ended: commands are never handed to a    *)
(* dead handler for ever (main.go, the deferred sessions.Delete).          *)
(***************************************************************************)
RegistryLive ==
  \A d \in Devices : sessions[d] /= NoConn =>
    /\ imei[sessions[d]] = d
    /\ pc[sessions[d]] \notin {"none", "imei", "resolve", "store", "close", "done"}

(***************************************************************************)
(* A lost connection's goroutine ends and leaves the registry, at any      *)
(* stage of the handshake or of a reply, also during the shutdown          *)
(* (main.go, handleDeviceConnection).                                      *)
(***************************************************************************)
LostConnectionEnds ==
  \A k \in Conns :
    (sock[k] \in {"lost", "closed"})
      ~> (pc[k] = "done" /\ \A d \in Devices : sessions[d] /= k)

(***************************************************************************)
(* "Acknowledged (device replied; ackAt/response set)"                     *)
(* (docs/api-contract.md): a command is acknowledged only once the device  *)
(* has replied to it.                                                      *)
(***************************************************************************)
AcknowledgedMeansReplied ==
  \A i \in Commands : status[i] = "Acknowledged" => i \in replied

Online(d) == \E k \in Conns : imei[k] = d /\ sock[k] = "open" /\ pc[k] = "read"

(***************************************************************************)
(* "commands for offline devices stay Sent" (docs/api-contract.md): the    *)
(* subscriber takes a device for offline only if it has no identified,     *)
(* open connection.                                                        *)
(***************************************************************************)
MissedOnlyIfOffline ==
  [][SubMisses => ~Online(TargetOf[Head(bus)])]_vars
================================================================================
