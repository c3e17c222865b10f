-------------------------- MODULE DeviceSessionsProofs -------------------------
(***************************************************************************)
(* Theorems about DeviceSessions for every set of devices, connections and *)
(* commands.                                                               *)
(*                                                                         *)
(* The properties speak of rows and of the registry; to keep them, the     *)
(* invariant follows a command id along its way: from the row to the bus,  *)
(* to the subscriber, into the socket and lastCommand of a session, and    *)
(* through handleCommandResponse back to a row.  At each place the id is   *)
(* of a requested command of the device at the other end of the socket,    *)
(* and past the write it has been written to a socket of that device.      *)
(* This stays true because a connection never changes the IMEI it read.    *)
(***************************************************************************)
EXTENDS DeviceSessions, TLAPS

Requested(i) == request[i] /= "none"
WrittenTo(i) == wrote[i] \in Conns /\ imei[wrote[i]] = TargetOf[i]

FreshConn == \A k \in Conns : pc[k] \in {"none", "imei"} => imei[k] = NoDevice

BusInv == \A n \in 1..Len(bus) : Requested(bus[n])

SubInv ==
  /\ sub.pc \in {"write", "store", "update"} =>
       Requested(sub.cmd) /\ imei[sub.conn] = TargetOf[sub.cmd]
  /\ sub.pc \in {"store", "update"} => WrittenTo(sub.cmd)

WireInv ==
  \A k \in Conns :
    /\ \A n \in 1..Len(toDevice[k]) : TargetOf[toDevice[k][n]] = imei[k]
    /\ \A n \in 1..Len(toServer[k]) : TargetOf[toServer[k][n]] = imei[k]

Recordable(k, i) == Requested(i) /\ WrittenTo(i) /\ TargetOf[i] = imei[k]

LastInv == \A k \in Conns : lastCommand[k] /= NoCmd => Recordable(k, lastCommand[k])

HandInv ==
  \A k \in Conns : pc[k] \in {"record", "clear"} =>
    Recordable(k, hand[k].cmd) /\ TargetOf[hand[k].reply] = imei[k]

StatusInv == \A i \in Commands : ~Requested(i) => status[i] = "none"

PathInv == FreshConn /\ BusInv /\ SubInv /\ WireInv /\ LastInv /\ HandInv /\ StatusInv

SessionsInv == TypeOK /\ PathInv /\ RegistryLive /\ ProgressMeansWritten /\ OwnDeviceResponse

--------------------------------------------------------------------------------
LEMMA InitSessionsInv == Init => SessionsInv
<1> SUFFICES ASSUME Init PROVE SessionsInv
  OBVIOUS
<1> USE SessionsAssumption DEF Init
<1>1. TypeOK
  <2>1. /\ toDevice \in [Conns -> Seq(Commands)] /\ toServer \in [Conns -> Seq(Commands)]
        /\ bus \in Seq(Commands)
    OBVIOUS
  <2>2. /\ pc \in [Conns -> States]
        /\ hand \in [Conns -> [cmd : Commands \union {NoCmd}, reply : Commands \union {NoCmd}]]
        /\ sub \in [pc : {"receive", "write", "store", "update", "done"},
                    cmd : Commands \union {NoCmd}, conn : Conns \union {NoConn}]
    BY DEF States, Empty, Idle
  <2>3. restarts \in 0..MaxRestarts
    OBVIOUS
  <2> QED
    BY <2>1, <2>2, <2>3 DEF TypeOK, Idle
<1>2. PathInv
  BY DEF PathInv, FreshConn, BusInv, SubInv, WireInv, LastInv, HandInv, StatusInv,
         Requested, Idle
<1>3. RegistryLive /\ ProgressMeansWritten /\ OwnDeviceResponse
  BY DEF RegistryLive, ProgressMeansWritten, OwnDeviceResponse
<1> QED
  BY <1>1, <1>2, <1>3 DEF SessionsInv

--------------------------------------------------------------------------------
\* A step that moves one connection's program counter, outside a reply.
Moves == {<<"imei", "close">>, <<"resolve", "store">>, <<"resolve", "close">>,
          <<"accept", "loop">>, <<"accept", "delete">>, <<"loop", "read">>,
          <<"loop", "delete">>, <<"read", "delete">>}

LEMMA MoveStep ==
  ASSUME SessionsInv, NEW k \in Conns, NEW from, NEW to, <<from, to>> \in Moves,
         ConnMoves(k, from, to)
  PROVE  SessionsInv' /\ UNCHANGED status
<1> USE DEF ConnMoves, ConnStep, mainVars, wireVars, rowVars, histVars
<1>0. /\ from \in States /\ to \in States
      /\ to \notin {"none", "imei", "record", "clear"}
      /\ from \in {"imei", "resolve"} \/ to \notin {"none", "imei", "resolve", "store", "close", "done"}
      /\ from = "imei" => to = "close"
      /\ from \in {"imei", "resolve", "accept", "loop", "read"}
  BY DEF Moves, States
<1>1. TypeOK'
  <2>1. pc' \in [Conns -> States]
    BY <1>0 DEF SessionsInv, TypeOK
  <2>2. \A j \in Conns :
          /\ pc'[j] \in {"record", "clear"} => hand[j].cmd /= NoCmd /\ hand[j].reply /= NoCmd
          /\ pc'[j] \in {"resolve", "store", "accept", "loop", "read", "record", "clear", "delete"}
               => imei[j] /= NoDevice
    BY <1>0 DEF SessionsInv, TypeOK
  <2> QED
    BY <2>1, <2>2 DEF SessionsInv, TypeOK
<1>2. FreshConn' /\ HandInv'
  BY <1>0 DEF SessionsInv, TypeOK, PathInv, FreshConn, HandInv, Recordable, Requested, WrittenTo
<1>3. BusInv' /\ SubInv' /\ WireInv' /\ LastInv' /\ StatusInv'
  BY DEF SessionsInv, PathInv, BusInv, SubInv, WireInv, LastInv, StatusInv, Recordable,
         Requested, WrittenTo
<1>4. RegistryLive'
  BY <1>0 DEF SessionsInv, TypeOK, RegistryLive
<1>5. ProgressMeansWritten' /\ OwnDeviceResponse'
  BY DEF SessionsInv, ProgressMeansWritten, OwnDeviceResponse
<1> QED
  BY <1>1, <1>2, <1>3, <1>4, <1>5 DEF SessionsInv, PathInv

\* A step of main, or of a peer, that changes none of the facts above.
LEMMA MainStep ==
  ASSUME SessionsInv,
         \/ \E k \in Conns : PeerLost(k)
         \/ Cancel \/ ShutdownStep
  PROVE  SessionsInv' /\ UNCHANGED status
<1>1. UNCHANGED <<pc, imei, hand, sessions, lastCommand, wireVars, sub, bus, request, rowVars,
                  histVars, restarts>>
  BY DEF PeerLost, Cancel, ShutdownStep, CloseListener, RangeCloses, WaitReturns, connVars,
         mainVars
<1>2. /\ main' \in {"running", "cancelled", "closing", "waiting", "stopped"}
      /\ visited' \in SUBSET Devices
  BY DEF PeerLost, Cancel, ShutdownStep, CloseListener, RangeCloses, WaitReturns, mainVars,
         SessionsInv, TypeOK
<1>3. sock' \in [Conns -> {"none", "open", "lost", "closed"}]
  <2>1. \/ sock' = sock
        \/ \E k \in Conns : sock' = [sock EXCEPT ![k] = "lost"]
        \/ \E d \in Devices : sock' = [sock EXCEPT ![sessions[d]] = "closed"]
    BY DEF PeerLost, Cancel, ShutdownStep, CloseListener, RangeCloses, WaitReturns, connVars
  <2> QED
    BY <2>1 DEF SessionsInv, TypeOK
<1>4. TypeOK'
  BY <1>1, <1>2, <1>3 DEF SessionsInv, TypeOK, wireVars, rowVars, histVars
<1>5. PathInv'
  BY <1>1 DEF SessionsInv, PathInv, FreshConn, BusInv, SubInv, WireInv, LastInv, HandInv,
              StatusInv, Recordable, Requested, WrittenTo, wireVars, rowVars, histVars
<1>6. RegistryLive' /\ ProgressMeansWritten' /\ OwnDeviceResponse'
  BY <1>1 DEF SessionsInv, RegistryLive, ProgressMeansWritten, OwnDeviceResponse, rowVars, histVars
<1> QED
  BY <1>1, <1>4, <1>5, <1>6 DEF SessionsInv, rowVars

\* A new connection, and its IMEI: nothing refers to the connection yet.
LEMMA AcceptStep ==
  ASSUME SessionsInv, NEW k \in Conns, Accept(k)
  PROVE  SessionsInv' /\ UNCHANGED status
<1> USE DEF Accept, ConnStep, mainVars, wireVars, rowVars, histVars
<1>1. TypeOK'
  BY DEF SessionsInv, TypeOK, States
<1>2. FreshConn' /\ HandInv'
  BY DEF SessionsInv, TypeOK, PathInv, FreshConn, HandInv, Recordable, Requested, WrittenTo
<1>3. BusInv' /\ SubInv' /\ WireInv' /\ LastInv' /\ StatusInv'
  BY DEF SessionsInv, PathInv, BusInv, SubInv, WireInv, LastInv, StatusInv, Recordable,
         Requested, WrittenTo
<1>4. RegistryLive'
  BY DEF SessionsInv, TypeOK, RegistryLive
<1>5. ProgressMeansWritten' /\ OwnDeviceResponse'
  BY DEF SessionsInv, ProgressMeansWritten, OwnDeviceResponse
<1> QED
  BY <1>1, <1>2, <1>3, <1>4, <1>5 DEF SessionsInv, PathInv

LEMMA IdentifyStep ==
  ASSUME SessionsInv, NEW k \in Conns, NEW d \in Devices, ReadIMEI(k, d)
  PROVE  SessionsInv' /\ UNCHANGED status
<1> USE SessionsAssumption DEF ReadIMEI, ConnStep, mainVars, wireVars, rowVars, histVars
<1>0. imei[k] = NoDevice /\ \A i \in Commands : TargetOf[i] /= NoDevice
  BY DEF SessionsInv, PathInv, FreshConn
<1>1. TypeOK'
  BY DEF SessionsInv, TypeOK, States
<1>2. \A i \in Commands : WrittenTo(i) => WrittenTo(i)'
  BY <1>0 DEF SessionsInv, TypeOK, WrittenTo
<1>3. FreshConn'
  BY DEF SessionsInv, TypeOK, PathInv, FreshConn
<1>4. WireInv'
  <2>1. Len(toDevice[k]) = 0 /\ Len(toServer[k]) = 0
    <3>1. \A n \in 1..Len(toDevice[k]) : toDevice[k][n] \in Commands
      BY DEF SessionsInv, TypeOK
    <3>2. \A n \in 1..Len(toServer[k]) : toServer[k][n] \in Commands
      BY DEF SessionsInv, TypeOK
    <3>3. 1 \notin 1..Len(toDevice[k]) /\ 1 \notin 1..Len(toServer[k])
      BY <1>0, <3>1, <3>2 DEF SessionsInv, PathInv, WireInv
    <3>4. Len(toDevice[k]) \in Nat /\ Len(toServer[k]) \in Nat
      BY DEF SessionsInv, TypeOK
    <3> QED
      BY <3>3, <3>4
  <2> QED
    BY <2>1 DEF SessionsInv, TypeOK, PathInv, WireInv
<1>5. LastInv'
  BY <1>0, <1>2 DEF SessionsInv, TypeOK, PathInv, LastInv, Recordable, Requested
<1>6. HandInv'
  BY <1>0, <1>2 DEF SessionsInv, TypeOK, PathInv, HandInv, Recordable, Requested
<1>7. SubInv'
  BY <1>0, <1>2 DEF SessionsInv, TypeOK, PathInv, SubInv, Requested
<1>8. BusInv' /\ StatusInv'
  BY DEF SessionsInv, PathInv, BusInv, StatusInv, Requested
<1>9. RegistryLive'
  BY DEF SessionsInv, TypeOK, RegistryLive
<1>10. ProgressMeansWritten' /\ OwnDeviceResponse'
  BY <1>0 DEF SessionsInv, TypeOK, ProgressMeansWritten, OwnDeviceResponse
<1> QED
  BY <1>1, <1>3, <1>4, <1>5, <1>6, <1>7, <1>8, <1>9, <1>10 DEF SessionsInv, PathInv

\* Storing, deleting and closing a session change the registry and nothing
\* that is known of commands.
LEMMA RegistryStep ==
  ASSUME SessionsInv, NEW k \in Conns,
         StoreSession(k) \/ DeleteSession(k) \/ CloseConn(k)
  PROVE  SessionsInv' /\ UNCHANGED status
<1>0. /\ UNCHANGED <<mainVars, imei, hand, lastCommand, wireVars, sub, bus, request, rowVars,
                     histVars>>
      /\ \/ pc[k] = "store" /\ pc' = [pc EXCEPT ![k] = "accept"] /\ UNCHANGED sock
            /\ sessions' = [sessions EXCEPT ![imei[k]] = k]
         \/ pc[k] = "delete" /\ pc' = [pc EXCEPT ![k] = "close"] /\ UNCHANGED sock
            /\ sessions' = [sessions EXCEPT ![imei[k]] = NoConn]
         \/ pc[k] = "close" /\ pc' = [pc EXCEPT ![k] = "done"]
            /\ sock' = [sock EXCEPT ![k] = "closed"] /\ UNCHANGED sessions
  BY DEF StoreSession, DeleteSession, CloseConn, ConnStep
<1>1. TypeOK'
  <2>0. pc' \in [Conns -> States]
    <3>1. \E to \in States : pc' = [pc EXCEPT ![k] = to]
      BY <1>0 DEF States
    <3> QED
      BY <3>1 DEF SessionsInv, TypeOK
  <2>1. sessions' \in [Devices -> Conns \union {NoConn}]
    <3>1. sessions' = sessions \/ \E v \in Conns \union {NoConn} :
                                    sessions' = [sessions EXCEPT ![imei[k]] = v]
      BY <1>0
    <3>2. sessions \in [Devices -> Conns \union {NoConn}]
      BY DEF SessionsInv, TypeOK
    <3> QED
      BY <3>1, <3>2
  <2>3. sock' \in [Conns -> {"none", "open", "lost", "closed"}]
    <3>1. sock' = sock \/ sock' = [sock EXCEPT ![k] = "closed"]
      BY <1>0
    <3> QED
      BY <3>1 DEF SessionsInv, TypeOK
  <2>2. \A j \in Conns :
          /\ pc'[j] \in {"record", "clear"} => hand[j].cmd /= NoCmd /\ hand[j].reply /= NoCmd
          /\ pc'[j] \in {"resolve", "store", "accept", "loop", "read", "record", "clear", "delete"}
               => imei[j] /= NoDevice
    BY <1>0 DEF SessionsInv, TypeOK
  <2> QED
    BY <1>0, <2>0, <2>1, <2>2, <2>3 DEF SessionsInv, TypeOK, mainVars, wireVars, rowVars, histVars
<1>2. FreshConn' /\ HandInv'
  BY <1>0 DEF SessionsInv, TypeOK, PathInv, FreshConn, HandInv, Recordable, Requested,
              WrittenTo, histVars
<1>3. BusInv' /\ SubInv' /\ WireInv' /\ LastInv' /\ StatusInv'
  BY <1>0 DEF SessionsInv, PathInv, BusInv, SubInv, WireInv, LastInv, StatusInv, Recordable,
              Requested, WrittenTo, wireVars, rowVars, histVars
<1>4. RegistryLive'
  BY <1>0, SessionsAssumption DEF SessionsInv, TypeOK, RegistryLive
<1>5. ProgressMeansWritten' /\ OwnDeviceResponse'
  BY <1>0 DEF SessionsInv, ProgressMeansWritten, OwnDeviceResponse, rowVars, histVars
<1> QED
  BY <1>0, <1>1, <1>2, <1>3, <1>4, <1>5 DEF SessionsInv, PathInv, rowVars

\* The head and the tail of a sequence that is not empty.
LEMMA HeadTail ==
  ASSUME NEW S, NEW s \in Seq(S), s /= <<>>
  PROVE  /\ Head(s) \in S /\ Tail(s) \in Seq(S)
         /\ 1 \in 1..Len(s) /\ Head(s) = s[1]
         /\ \A n \in 1..Len(Tail(s)) : n + 1 \in 1..Len(s) /\ Tail(s)[n] = s[n + 1]
  OBVIOUS

\* Reading a reply leaves the others on the wire.
LEMMA ReplyRead ==
  ASSUME SessionsInv, NEW k \in Conns, toServer[k] /= <<>>, UNCHANGED <<toDevice, imei>>,
         toServer' = [toServer EXCEPT ![k] = Tail(toServer[k])]
  PROVE  WireInv'
<1>1. toServer[k] \in Seq(Commands) /\ toServer \in [Conns -> Seq(Commands)]
  BY DEF SessionsInv, TypeOK
<1>2. \A n \in 1..Len(Tail(toServer[k])) :
        n + 1 \in 1..Len(toServer[k]) /\ Tail(toServer[k])[n] = toServer[k][n + 1]
  BY <1>1, HeadTail
<1>3. \A n \in 1..Len(Tail(toServer[k])) : TargetOf[Tail(toServer[k])[n]] = imei[k]
  BY <1>2 DEF SessionsInv, PathInv, WireInv
<1>4. toServer'[k] = Tail(toServer[k]) /\ \A j \in Conns \ {k} : toServer'[j] = toServer[j]
  BY <1>1
<1> QED
  BY <1>3, <1>4 DEF SessionsInv, PathInv, WireInv

\* handleCommandResponse: what it records was written to this device.
LEMMA ReplyStep ==
  ASSUME SessionsInv, NEW k \in Conns,
         LoadCommand(k) \/ ClearCommand(k)
  PROVE  SessionsInv' /\ UNCHANGED status
<1>0. UNCHANGED <<mainVars, imei, sock, sessions, toDevice, sub, bus, request, rowVars,
                  wrote, replied>>
  BY DEF LoadCommand, ClearCommand, wireVars, histVars
<1>1. CASE LoadCommand(k) /\ lastCommand[k] = NoCmd
  <2>0. /\ pc[k] = "read" /\ pc' = [pc EXCEPT ![k] = "loop"] /\ toServer[k] /= <<>>
        /\ toServer' = [toServer EXCEPT ![k] = Tail(toServer[k])]
        /\ UNCHANGED <<hand, lastCommand>>
    BY <1>1 DEF LoadCommand, ConnStep
  <2>1. Head(toServer[k]) \in Commands /\ Tail(toServer[k]) \in Seq(Commands)
    BY <2>0 DEF SessionsInv, TypeOK
  <2>2. TypeOK'
    <3>1. pc' \in [Conns -> States]
      BY <2>0 DEF SessionsInv, TypeOK, States
    <3>2. toServer' \in [Conns -> Seq(Commands)]
      BY <2>0, <2>1 DEF SessionsInv, TypeOK
    <3>3. \A j \in Conns :
            /\ pc'[j] \in {"record", "clear"} => hand[j].cmd /= NoCmd /\ hand[j].reply /= NoCmd
            /\ pc'[j] \in {"resolve", "store", "accept", "loop", "read", "record", "clear", "delete"}
                 => imei[j] /= NoDevice
      BY <2>0 DEF SessionsInv, TypeOK
    <3> QED
      BY <1>0, <2>0, <3>1, <3>2, <3>3 DEF SessionsInv, TypeOK, mainVars, rowVars
  <2>3. FreshConn' /\ HandInv'
    BY <1>0, <2>0 DEF SessionsInv, TypeOK, PathInv, FreshConn, HandInv, Recordable, Requested,
                      WrittenTo
  <2>4. WireInv'
    BY <1>0, <2>0, ReplyRead
  <2>5. BusInv' /\ SubInv' /\ LastInv' /\ StatusInv'
    BY <1>0, <2>0 DEF SessionsInv, PathInv, BusInv, SubInv, LastInv, StatusInv, Recordable,
                      Requested, WrittenTo, rowVars
  <2>6. RegistryLive'
    BY <1>0, <2>0 DEF SessionsInv, TypeOK, RegistryLive
  <2>7. ProgressMeansWritten' /\ OwnDeviceResponse'
    BY <1>0 DEF SessionsInv, ProgressMeansWritten, OwnDeviceResponse, rowVars
  <2> QED
    BY <1>0, <2>2, <2>3, <2>4, <2>5, <2>6, <2>7 DEF SessionsInv, PathInv, rowVars
<1>2. CASE LoadCommand(k) /\ lastCommand[k] /= NoCmd
  <2>0. /\ pc[k] = "read" /\ pc' = [pc EXCEPT ![k] = "record"] /\ toServer[k] /= <<>>
        /\ toServer' = [toServer EXCEPT ![k] = Tail(toServer[k])]
        /\ hand' = [hand EXCEPT ![k] = [cmd |-> lastCommand[k], reply |-> Head(toServer[k])]]
        /\ UNCHANGED lastCommand
    BY <1>2 DEF LoadCommand, ConnStep
  <2>1. /\ Head(toServer[k]) \in Commands /\ Tail(toServer[k]) \in Seq(Commands)
        /\ TargetOf[Head(toServer[k])] = imei[k] /\ lastCommand[k] \in Commands
    BY <1>2, <2>0, HeadTail DEF SessionsInv, TypeOK, PathInv, WireInv
  <2>2. TypeOK'
    <3>1. pc' \in [Conns -> States]
      BY <2>0 DEF SessionsInv, TypeOK, States
    <3>2. hand' \in [Conns -> [cmd : Commands \union {NoCmd}, reply : Commands \union {NoCmd}]]
          /\ toServer' \in [Conns -> Seq(Commands)]
      BY <2>0, <2>1 DEF SessionsInv, TypeOK
    <3>3. \A j \in Conns :
            /\ pc'[j] \in {"record", "clear"} => hand'[j].cmd /= NoCmd /\ hand'[j].reply /= NoCmd
            /\ pc'[j] \in {"resolve", "store", "accept", "loop", "read", "record", "clear", "delete"}
                 => imei[j] /= NoDevice
      BY <2>0, <2>1, SessionsAssumption DEF SessionsInv, TypeOK
    <3> QED
      BY <1>0, <2>0, <3>1, <3>2, <3>3 DEF SessionsInv, TypeOK, mainVars, rowVars
  <2>3. FreshConn'
    BY <1>0, <2>0 DEF SessionsInv, TypeOK, PathInv, FreshConn
  <2>4. HandInv'
    <3>1. Recordable(k, lastCommand[k])
      BY <1>2 DEF SessionsInv, PathInv, LastInv
    <3> QED
      BY <1>0, <2>0, <2>1, <3>1 DEF SessionsInv, TypeOK, PathInv, HandInv, Recordable, Requested,
                                    WrittenTo
  <2>5. WireInv'
    BY <1>0, <2>0, ReplyRead
  <2>6. BusInv' /\ SubInv' /\ LastInv' /\ StatusInv'
    BY <1>0, <2>0 DEF SessionsInv, PathInv, BusInv, SubInv, LastInv, StatusInv, Recordable,
                      Requested, WrittenTo, rowVars
  <2>7. RegistryLive'
    BY <1>0, <2>0 DEF SessionsInv, TypeOK, RegistryLive
  <2>8. ProgressMeansWritten' /\ OwnDeviceResponse'
    BY <1>0 DEF SessionsInv, ProgressMeansWritten, OwnDeviceResponse, rowVars
  <2> QED
    BY <1>0, <2>2, <2>3, <2>4, <2>5, <2>6, <2>7, <2>8 DEF SessionsInv, PathInv, rowVars
<1>3. CASE ClearCommand(k)
  <2>0. /\ pc[k] = "clear" /\ pc' = [pc EXCEPT ![k] = "loop"]
        /\ lastCommand' = [lastCommand EXCEPT ![k] = NoCmd]
        /\ UNCHANGED toServer
        /\ hand' = [hand EXCEPT ![k] = Empty]
    BY <1>3 DEF ClearCommand, ConnStep, wireVars
  <2>2. TypeOK'
    <3>1. pc' \in [Conns -> States]
      BY <2>0 DEF SessionsInv, TypeOK, States
    <3>2. /\ hand' \in [Conns -> [cmd : Commands \union {NoCmd}, reply : Commands \union {NoCmd}]]
          /\ lastCommand' \in [Conns -> Commands \union {NoCmd}]
      BY <2>0 DEF SessionsInv, TypeOK, Empty
    <3>3. \A j \in Conns :
            /\ pc'[j] \in {"record", "clear"} => hand'[j].cmd /= NoCmd /\ hand'[j].reply /= NoCmd
            /\ pc'[j] \in {"resolve", "store", "accept", "loop", "read", "record", "clear", "delete"}
                 => imei[j] /= NoDevice
      BY <2>0 DEF SessionsInv, TypeOK
    <3> QED
      BY <1>0, <2>0, <3>1, <3>2, <3>3 DEF SessionsInv, TypeOK, mainVars, rowVars
  <2>3. FreshConn' /\ HandInv'
    BY <1>0, <2>0 DEF SessionsInv, TypeOK, PathInv, FreshConn, HandInv, Recordable, Requested,
                      WrittenTo
  <2>4. LastInv'
    BY <1>0, <2>0 DEF SessionsInv, TypeOK, PathInv, LastInv, Recordable, Requested, WrittenTo
  <2>5. BusInv' /\ SubInv' /\ WireInv' /\ StatusInv'
    BY <1>0, <2>0 DEF SessionsInv, PathInv, BusInv, SubInv, WireInv, StatusInv, Requested,
                      WrittenTo, rowVars
  <2>6. RegistryLive'
    BY <1>0, <2>0 DEF SessionsInv, TypeOK, RegistryLive
  <2>7. ProgressMeansWritten' /\ OwnDeviceResponse'
    BY <1>0 DEF SessionsInv, ProgressMeansWritten, OwnDeviceResponse, rowVars
  <2> QED
    BY <1>0, <2>2, <2>3, <2>4, <2>5, <2>6, <2>7 DEF SessionsInv, PathInv, rowVars
<1> QED
  BY <1>1, <1>2, <1>3

\* UPDATE ... 'Acknowledged': the row was requested, and written to a socket
\* of the device that replied.
LEMMA RecordStep ==
  ASSUME SessionsInv, NEW k \in Conns, RecordResponse(k)
  PROVE  SessionsInv' /\ \A i \in Commands : Rank[status'[i]] >= Rank[status[i]]
<1>0. /\ UNCHANGED <<mainVars, imei, sock, hand, sessions, lastCommand, wireVars, sub, bus,
                     request, histVars>>
      /\ pc[k] = "record" /\ pc' = [pc EXCEPT ![k] = "clear"]
      /\ \/ UNCHANGED <<status, response>>
         \/ /\ status' = [status EXCEPT ![hand[k].cmd] = "Acknowledged"]
            /\ response' = [response EXCEPT ![hand[k].cmd] = hand[k].reply]
  BY DEF RecordResponse, ConnStep
<1>1. /\ hand[k].cmd \in Commands /\ hand[k].reply \in Commands
      /\ Recordable(k, hand[k].cmd) /\ TargetOf[hand[k].reply] = imei[k]
  BY <1>0 DEF SessionsInv, TypeOK, PathInv, HandInv
<1>2. TypeOK'
  <2>1. pc' \in [Conns -> States]
    BY <1>0 DEF SessionsInv, TypeOK, States
  <2>2. /\ status' \in [Commands -> {"none", "Sent", "Delivered", "Acknowledged"}]
        /\ response' \in [Commands -> Commands \union {NoCmd}]
    BY <1>0, <1>1 DEF SessionsInv, TypeOK
  <2>3. \A j \in Conns :
          /\ pc'[j] \in {"record", "clear"} => hand[j].cmd /= NoCmd /\ hand[j].reply /= NoCmd
          /\ pc'[j] \in {"resolve", "store", "accept", "loop", "read", "record", "clear", "delete"}
               => imei[j] /= NoDevice
    BY <1>0 DEF SessionsInv, TypeOK
  <2> QED
    BY <1>0, <2>1, <2>2, <2>3 DEF SessionsInv, TypeOK, mainVars, wireVars, histVars
<1>3. FreshConn' /\ HandInv'
  BY <1>0 DEF SessionsInv, TypeOK, PathInv, FreshConn, HandInv, Recordable, Requested, WrittenTo,
              histVars
<1>4. BusInv' /\ SubInv' /\ WireInv' /\ LastInv'
  BY <1>0 DEF SessionsInv, PathInv, BusInv, SubInv, WireInv, LastInv, Recordable, Requested,
              WrittenTo, wireVars, histVars
<1>5. StatusInv'
  BY <1>0, <1>1 DEF SessionsInv, TypeOK, PathInv, StatusInv, Recordable, Requested
<1>6. RegistryLive'
  BY <1>0 DEF SessionsInv, TypeOK, RegistryLive
<1>7. ProgressMeansWritten'
  BY <1>0, <1>1, SessionsAssumption
     DEF SessionsInv, TypeOK, ProgressMeansWritten, Recordable, WrittenTo, histVars
<1>8. OwnDeviceResponse'
  BY <1>0, <1>1 DEF SessionsInv, TypeOK, OwnDeviceResponse, Recordable
<1>9. \A i \in Commands : Rank[status'[i]] >= Rank[status[i]]
  BY <1>0, <1>1 DEF SessionsInv, TypeOK, Rank
<1> QED
  BY <1>2, <1>3, <1>4, <1>5, <1>6, <1>7, <1>8, <1>9 DEF SessionsInv, PathInv

--------------------------------------------------------------------------------
(* subscribeCommands.                                                       *)

\* A subscriber that changes only its own state and the bus, and ends up
\* waiting or with a requested command and a session of its device.
LEMMA SubMoves ==
  ASSUME SessionsInv,
         UNCHANGED <<mainVars, connVars, sessions, lastCommand, wireVars, request, rowVars,
                     histVars>>,
         bus' \in Seq(Commands), BusInv',
         sub' \in [pc : {"receive", "write", "store", "update", "done"},
                   cmd : Commands \union {NoCmd}, conn : Conns \union {NoConn}],
         sub'.pc \in {"write", "store", "update"} => sub'.cmd /= NoCmd /\ sub'.conn /= NoConn,
         SubInv'
  PROVE  SessionsInv' /\ UNCHANGED status
<1> USE DEF mainVars, connVars, wireVars, rowVars, histVars
<1>1. TypeOK'
  BY DEF SessionsInv, TypeOK
<1>2. FreshConn' /\ WireInv' /\ LastInv' /\ HandInv' /\ StatusInv'
  BY DEF SessionsInv, PathInv, FreshConn, WireInv, LastInv, HandInv, StatusInv, Recordable,
         Requested, WrittenTo
<1>3. RegistryLive' /\ ProgressMeansWritten' /\ OwnDeviceResponse'
  BY DEF SessionsInv, RegistryLive, ProgressMeansWritten, OwnDeviceResponse
<1> QED
  BY <1>1, <1>2, <1>3 DEF SessionsInv, PathInv

\* Receiving a message: sessions.Load finds a connection of the device.
LEMMA SubReceives ==
  ASSUME SessionsInv, SubFinds \/ SubMisses
  PROVE  SessionsInv' /\ UNCHANGED status
<1>0. /\ UNCHANGED <<mainVars, connVars, sessions, lastCommand, wireVars, request, rowVars,
                     histVars>>
      /\ bus /= <<>> /\ bus' = Tail(bus)
  BY DEF SubFinds, SubMisses
<1>1. /\ bus \in Seq(Commands) /\ request \in [Commands -> {"none", "publish", "done"}]
      /\ sessions \in [Devices -> Conns \union {NoConn}]
  BY DEF SessionsInv, TypeOK
<1>2. /\ Head(bus) \in Commands /\ Tail(bus) \in Seq(Commands)
      /\ 1 \in 1..Len(bus) /\ Head(bus) = bus[1]
      /\ \A n \in 1..Len(Tail(bus)) : n + 1 \in 1..Len(bus) /\ Tail(bus)[n] = bus[n + 1]
  BY <1>0, <1>1, HeadTail
<1>3. BusInv' /\ Requested(Head(bus))
  BY <1>0, <1>2 DEF SessionsInv, PathInv, BusInv, Requested
<1>4. CASE SubMisses
  <2>1. sub' = sub
    BY <1>4 DEF SubMisses
  <2>2. SubInv'
    BY <1>0, <2>1 DEF SessionsInv, PathInv, SubInv, Requested, WrittenTo, histVars, connVars
  <2> QED
    BY <1>0, <1>2, <1>3, <2>1, <2>2, SubMoves DEF SessionsInv, TypeOK
<1>5. CASE SubFinds
  <2> DEFINE c == sessions[TargetOf[Head(bus)]]
  <2>1. c \in Conns /\ imei[c] = TargetOf[Head(bus)]
    BY <1>1, <1>2, <1>5, SessionsAssumption DEF SubFinds, SessionsInv, RegistryLive
  <2>2. sub' = [pc |-> "write", cmd |-> Head(bus), conn |-> c]
    BY <1>5 DEF SubFinds
  <2> HIDE DEF c
  <2>3. sub'.pc = "write" /\ sub'.cmd = Head(bus) /\ sub'.conn = c
    BY <2>2
  <2>4. SubInv'
    BY <1>0, <1>3, <2>1, <2>3 DEF SubInv, Requested, connVars
  <2>5. sub' \in [pc : {"receive", "write", "store", "update", "done"},
                  cmd : Commands \union {NoCmd}, conn : Conns \union {NoConn}]
    BY <1>2, <2>1, <2>2
  <2>6. sub'.cmd /= NoCmd /\ sub'.conn /= NoConn
    BY <1>2, <2>1, <2>3, SessionsAssumption
  <2> QED
    BY <1>0, <1>2, <1>3, <2>4, <2>5, <2>6, SubMoves
<1> QED
  BY <1>4, <1>5

\* ctx.Done(), and a write that fails
LEMMA SubStops ==
  ASSUME SessionsInv, SubEnds \/ SubWriteFails
  PROVE  SessionsInv' /\ UNCHANGED status
<1>1. UNCHANGED <<mainVars, connVars, sessions, lastCommand, wireVars, bus, request, rowVars,
                  histVars>>
  BY DEF SubEnds, SubWriteFails
<1>2. /\ sub'.pc \in {"receive", "done"}
      /\ sub' \in [pc : {"receive", "write", "store", "update", "done"},
                   cmd : Commands \union {NoCmd}, conn : Conns \union {NoConn}]
  <2>1. /\ sub \in [pc : {"receive", "write", "store", "update", "done"},
                    cmd : Commands \union {NoCmd}, conn : Conns \union {NoConn}]
    BY DEF SessionsInv, TypeOK
  <2>2. CASE sub' = [sub EXCEPT !.pc = "done"]
    BY <2>1, <2>2
  <2>3. CASE sub' = Idle
    BY <2>3 DEF Idle
  <2> QED
    BY <2>2, <2>3 DEF SubEnds, SubWriteFails
<1>3. SubInv'
  BY <1>2 DEF SubInv
<1>4. BusInv' /\ bus' \in Seq(Commands)
  BY <1>1 DEF SessionsInv, TypeOK, PathInv, BusInv, Requested
<1> QED
  BY <1>1, <1>2, <1>3, <1>4, SubMoves

\* sess.conn.Write: from now on the command has been written to its device.
LEMMA SubWriteStep ==
  ASSUME SessionsInv, SubWrites
  PROVE  SessionsInv' /\ UNCHANGED status
<1>0. /\ UNCHANGED <<mainVars, connVars, sessions, lastCommand, toServer, bus, request, rowVars,
                     replied>>
      /\ sub.pc = "write" /\ sub' = [sub EXCEPT !.pc = "store"]
      /\ wrote' = [wrote EXCEPT ![sub.cmd] = sub.conn]
      /\ \/ toDevice' = toDevice
         \/ toDevice' = [toDevice EXCEPT ![sub.conn] = Append(toDevice[sub.conn], sub.cmd)]
  BY DEF SubWrites, SubStep
<1>1. /\ sub.cmd \in Commands /\ sub.conn \in Conns
      /\ Requested(sub.cmd) /\ imei[sub.conn] = TargetOf[sub.cmd]
  BY <1>0 DEF SessionsInv, TypeOK, PathInv, SubInv
<1>2. sub'.pc = "store" /\ sub'.cmd = sub.cmd /\ sub'.conn = sub.conn
  BY <1>0 DEF SessionsInv, TypeOK
<1>3. \A i \in Commands : wrote'[i] = IF i = sub.cmd THEN sub.conn ELSE wrote[i]
  BY <1>0 DEF SessionsInv, TypeOK
<1>4. TypeOK'
  <2>1. sub' \in [pc : {"receive", "write", "store", "update", "done"},
                  cmd : Commands \union {NoCmd}, conn : Conns \union {NoConn}]
    BY <1>0 DEF SessionsInv, TypeOK
  <2>2. wrote' \in [Commands -> Conns \union {NoConn}]
    BY <1>0, <1>1 DEF SessionsInv, TypeOK
  <2>3. toDevice' \in [Conns -> Seq(Commands)]
    <3>1. toDevice[sub.conn] \in Seq(Commands)
      BY <1>1 DEF SessionsInv, TypeOK
    <3>2. Append(toDevice[sub.conn], sub.cmd) \in Seq(Commands)
      BY <1>1, <3>1
    <3> QED
      BY <1>0, <3>2 DEF SessionsInv, TypeOK
  <2>4. sub'.cmd /= NoCmd /\ sub'.conn /= NoConn
    BY <1>1, <1>2, SessionsAssumption
  <2> QED
    BY <1>0, <2>1, <2>2, <2>3, <2>4 DEF SessionsInv, TypeOK, mainVars, connVars, rowVars
<1>5. WrittenTo(sub.cmd)' /\ \A i \in Commands : WrittenTo(i) => WrittenTo(i)'
  BY <1>0, <1>1, <1>3, SessionsAssumption DEF WrittenTo, connVars
<1>6. SubInv'
  BY <1>0, <1>1, <1>2, <1>5 DEF SubInv, Requested, WrittenTo, connVars
<1>7. WireInv'
  <2>1. CASE toDevice' = toDevice
    BY <1>0, <2>1 DEF SessionsInv, PathInv, WireInv, connVars
  <2>2. CASE toDevice' = [toDevice EXCEPT ![sub.conn] = Append(toDevice[sub.conn], sub.cmd)]
    <3>1. toDevice \in [Conns -> Seq(Commands)] /\ toDevice[sub.conn] \in Seq(Commands)
      BY <1>1 DEF SessionsInv, TypeOK
    <3>2. /\ toDevice'[sub.conn] = Append(toDevice[sub.conn], sub.cmd)
          /\ \A j \in Conns \ {sub.conn} : toDevice'[j] = toDevice[j]
      BY <1>1, <2>2, <3>1
    <3>3. \A n \in 1..Len(Append(toDevice[sub.conn], sub.cmd)) :
            \/ Append(toDevice[sub.conn], sub.cmd)[n] = sub.cmd
            \/ n \in 1..Len(toDevice[sub.conn])
               /\ Append(toDevice[sub.conn], sub.cmd)[n] = toDevice[sub.conn][n]
      BY <1>1, <3>1
    <3>4. \A n \in 1..Len(toDevice'[sub.conn]) : TargetOf[toDevice'[sub.conn][n]] = imei[sub.conn]
      BY <1>1, <3>2, <3>3 DEF SessionsInv, PathInv, WireInv
    <3> QED
      BY <1>0, <3>2, <3>4 DEF SessionsInv, PathInv, WireInv, connVars
  <2> QED
    BY <1>0, <2>1, <2>2
<1>8. LastInv'
  BY <1>0, <1>5 DEF SessionsInv, TypeOK, PathInv, LastInv, Recordable, Requested, connVars
<1>9. HandInv'
  BY <1>0, <1>5 DEF SessionsInv, TypeOK, PathInv, HandInv, Recordable, Requested, connVars
<1>10. FreshConn' /\ BusInv' /\ StatusInv'
  BY <1>0 DEF SessionsInv, PathInv, FreshConn, BusInv, StatusInv, Requested, connVars, rowVars
<1>11. RegistryLive' /\ OwnDeviceResponse'
  BY <1>0 DEF SessionsInv, RegistryLive, OwnDeviceResponse, connVars, rowVars
<1>12. ProgressMeansWritten'
  BY <1>0, <1>1, <1>3, SessionsAssumption DEF SessionsInv, ProgressMeansWritten, connVars, rowVars
<1> QED
  BY <1>0, <1>4, <1>6, <1>7, <1>8, <1>9, <1>10, <1>11, <1>12 DEF SessionsInv, PathInv, rowVars

\* sess.lastCommand.Store: after the write, so what it holds was written.
LEMMA SubStoreStep ==
  ASSUME SessionsInv, SubStores
  PROVE  SessionsInv' /\ UNCHANGED status
<1>0. /\ UNCHANGED <<mainVars, connVars, sessions, wireVars, bus, request, rowVars, histVars>>
      /\ sub.pc = "store" /\ sub' = [sub EXCEPT !.pc = "update"]
      /\ lastCommand' = [lastCommand EXCEPT ![sub.conn] = sub.cmd]
  BY DEF SubStores, SubStep
<1>1. /\ sub.cmd \in Commands /\ sub.conn \in Conns /\ Recordable(sub.conn, sub.cmd)
  BY <1>0 DEF SessionsInv, TypeOK, PathInv, SubInv, Recordable
<1>2. sub'.pc = "update" /\ sub'.cmd = sub.cmd /\ sub'.conn = sub.conn
  BY <1>0 DEF SessionsInv, TypeOK
<1>3. TypeOK'
  <2>1. sub' \in [pc : {"receive", "write", "store", "update", "done"},
                  cmd : Commands \union {NoCmd}, conn : Conns \union {NoConn}]
    BY <1>0 DEF SessionsInv, TypeOK
  <2>2. lastCommand' \in [Conns -> Commands \union {NoCmd}]
    BY <1>0, <1>1 DEF SessionsInv, TypeOK
  <2>3. sub'.cmd /= NoCmd /\ sub'.conn /= NoConn
    BY <1>1, <1>2, SessionsAssumption
  <2> QED
    BY <1>0, <2>1, <2>2, <2>3 DEF SessionsInv, TypeOK, mainVars, connVars, wireVars, rowVars,
                                  histVars
<1>4. SubInv'
  BY <1>0, <1>1, <1>2 DEF SubInv, Recordable, Requested, WrittenTo, connVars, histVars
<1>5. LastInv'
  BY <1>0, <1>1 DEF SessionsInv, TypeOK, PathInv, LastInv, Recordable, Requested, WrittenTo,
                    connVars, histVars
<1>6. FreshConn' /\ BusInv' /\ WireInv' /\ HandInv' /\ StatusInv'
  BY <1>0 DEF SessionsInv, PathInv, FreshConn, BusInv, WireInv, HandInv, StatusInv, Recordable,
              Requested, WrittenTo, connVars, wireVars, rowVars, histVars
<1>7. RegistryLive' /\ ProgressMeansWritten' /\ OwnDeviceResponse'
  BY <1>0 DEF SessionsInv, RegistryLive, ProgressMeansWritten, OwnDeviceResponse, connVars,
              rowVars, histVars
<1> QED
  BY <1>0, <1>3, <1>4, <1>5, <1>6, <1>7 DEF SessionsInv, PathInv, rowVars

\* UPDATE ... 'Delivered' ... AND status = 'Sent'
LEMMA SubUpdateStep ==
  ASSUME SessionsInv, SubUpdates
  PROVE  SessionsInv' /\ \A i \in Commands : Rank[status'[i]] >= Rank[status[i]]
<1>0. /\ UNCHANGED <<mainVars, connVars, sessions, lastCommand, wireVars, bus, request, response,
                     histVars>>
      /\ sub.pc = "update" /\ sub' = Idle
      /\ \/ UNCHANGED status
         \/ /\ status[sub.cmd] = "Sent"
            /\ status' = [status EXCEPT ![sub.cmd] = "Delivered"]
  BY DEF SubUpdates, SubStep
<1>1. sub.cmd \in Commands /\ Requested(sub.cmd) /\ WrittenTo(sub.cmd)
  BY <1>0 DEF SessionsInv, TypeOK, PathInv, SubInv
<1>2. TypeOK'
  <2>1. /\ sub' \in [pc : {"receive", "write", "store", "update", "done"},
                     cmd : Commands \union {NoCmd}, conn : Conns \union {NoConn}]
        /\ sub'.pc = "receive"
    BY <1>0 DEF Idle
  <2>2. status' \in [Commands -> {"none", "Sent", "Delivered", "Acknowledged"}]
    <3>1. status' = status \/ status' = [status EXCEPT ![sub.cmd] = "Delivered"]
      BY <1>0
    <3> QED
      BY <3>1 DEF SessionsInv, TypeOK
  <2> QED
    BY <1>0, <2>1, <2>2 DEF SessionsInv, TypeOK, mainVars, connVars, wireVars, histVars
<1>3. SubInv'
  BY <1>0 DEF SubInv, Idle
<1>4. StatusInv'
  BY <1>0, <1>1 DEF SessionsInv, TypeOK, PathInv, StatusInv, Requested
<1>5. FreshConn' /\ BusInv' /\ WireInv' /\ LastInv' /\ HandInv'
  BY <1>0 DEF SessionsInv, PathInv, FreshConn, BusInv, WireInv, LastInv, HandInv, Recordable,
              Requested, WrittenTo, connVars, wireVars, histVars
<1>6. RegistryLive' /\ OwnDeviceResponse'
  BY <1>0 DEF SessionsInv, RegistryLive, OwnDeviceResponse, connVars
<1>7. ProgressMeansWritten'
  BY <1>0, <1>1, SessionsAssumption
     DEF SessionsInv, TypeOK, ProgressMeansWritten, WrittenTo, connVars, histVars
<1>8. \A i \in Commands : Rank[status'[i]] >= Rank[status[i]]
  BY <1>0, <1>1 DEF SessionsInv, TypeOK, Rank
<1> QED
  BY <1>2, <1>3, <1>4, <1>5, <1>6, <1>7, <1>8 DEF SessionsInv, PathInv

--------------------------------------------------------------------------------
(* rudra-api, the device, and a restart.                                    *)

\* INSERT ... 'Sent': the only step that makes a row, and the id is new.
LEMMA InsertStep ==
  ASSUME SessionsInv, NEW i \in Commands, InsertCommand(i)
  PROVE  SessionsInv' /\ \A j \in Commands : Rank[status'[j]] >= Rank[status[j]]
<1>0. /\ UNCHANGED <<mainVars, connVars, sessions, lastCommand, wireVars, sub, bus,
                     response, histVars>>
      /\ request[i] = "none" /\ request' = [request EXCEPT ![i] = "publish"]
      /\ status' = [status EXCEPT ![i] = "Sent"]
  BY DEF InsertCommand
<1>1. status[i] = "none"
  BY <1>0 DEF SessionsInv, PathInv, StatusInv, Requested
<1>2. TypeOK'
  BY <1>0 DEF SessionsInv, TypeOK, mainVars, connVars, wireVars, histVars
<1>3. \A j \in Commands : Requested(j) => Requested(j)'
  BY <1>0 DEF SessionsInv, TypeOK, Requested
<1>4. StatusInv'
  BY <1>0 DEF SessionsInv, TypeOK, PathInv, StatusInv, Requested
<1>5. BusInv'
  <2>1. \A n \in 1..Len(bus) : bus[n] \in Commands
    BY DEF SessionsInv, TypeOK
  <2> QED
    BY <1>0, <1>3, <2>1 DEF SessionsInv, PathInv, BusInv
<1>6. SubInv'
  BY <1>0, <1>3 DEF SessionsInv, TypeOK, PathInv, SubInv, WrittenTo, connVars, histVars
<1>7. LastInv'
  BY <1>0, <1>3 DEF SessionsInv, TypeOK, PathInv, LastInv, Recordable, WrittenTo, connVars, histVars
<1>8. HandInv'
  BY <1>0, <1>3 DEF SessionsInv, TypeOK, PathInv, HandInv, Recordable, WrittenTo, connVars, histVars
<1>9. FreshConn' /\ WireInv'
  BY <1>0 DEF SessionsInv, PathInv, FreshConn, WireInv, connVars, wireVars
<1>10. RegistryLive' /\ OwnDeviceResponse'
  BY <1>0 DEF SessionsInv, RegistryLive, OwnDeviceResponse, connVars
<1>11. ProgressMeansWritten'
  BY <1>0 DEF SessionsInv, TypeOK, ProgressMeansWritten, connVars, histVars
<1>12. \A j \in Commands : Rank[status'[j]] >= Rank[status[j]]
  BY <1>0, <1>1 DEF SessionsInv, TypeOK, Rank
<1> QED
  BY <1>2, <1>4, <1>5, <1>6, <1>7, <1>8, <1>9, <1>10, <1>11, <1>12 DEF SessionsInv, PathInv

LEMMA PublishStep ==
  ASSUME SessionsInv, NEW i \in Commands, PublishCommand(i)
  PROVE  SessionsInv' /\ UNCHANGED status
<1>0. /\ UNCHANGED <<mainVars, connVars, sessions, lastCommand, wireVars, sub, rowVars, histVars>>
      /\ request[i] = "publish" /\ request' = [request EXCEPT ![i] = "done"]
      /\ bus' = bus \/ bus' = Append(bus, i)
  BY DEF PublishCommand
<1>1. bus \in Seq(Commands) /\ request \in [Commands -> {"none", "publish", "done"}]
  BY DEF SessionsInv, TypeOK
<1>2. /\ bus' \in Seq(Commands)
      /\ \A n \in 1..Len(bus') : bus'[n] = i \/ (n \in 1..Len(bus) /\ bus'[n] = bus[n])
  <2>1. CASE bus' = bus
    BY <1>1, <2>1
  <2>2. CASE bus' = Append(bus, i)
    <3>1. /\ Append(bus, i) \in Seq(Commands)
          /\ \A n \in 1..Len(Append(bus, i)) :
               Append(bus, i)[n] = i \/ (n \in 1..Len(bus) /\ Append(bus, i)[n] = bus[n])
      BY <1>1
    <3> QED
      BY <2>2, <3>1
  <2> QED
    BY <1>0, <2>1, <2>2
<1>3. \A j \in Commands : Requested(j) <=> Requested(j)'
  BY <1>0, <1>1 DEF Requested
<1>4. TypeOK'
  BY <1>0, <1>2 DEF SessionsInv, TypeOK, mainVars, connVars, wireVars, rowVars, histVars
<1>5. BusInv'
  <2>1. \A n \in 1..Len(bus) : bus[n] \in Commands
    BY <1>1
  <2>2. Requested(i)
    BY <1>0 DEF Requested
  <2> QED
    BY <1>2, <1>3, <2>1, <2>2 DEF SessionsInv, PathInv, BusInv
<1>6. SubInv'
  BY <1>0, <1>3 DEF SessionsInv, TypeOK, PathInv, SubInv, WrittenTo, connVars, histVars
<1>7. LastInv'
  BY <1>0, <1>3 DEF SessionsInv, TypeOK, PathInv, LastInv, Recordable, WrittenTo, connVars, histVars
<1>8. HandInv'
  BY <1>0, <1>3 DEF SessionsInv, TypeOK, PathInv, HandInv, Recordable, WrittenTo, connVars, histVars
<1>9. FreshConn' /\ WireInv' /\ StatusInv'
  BY <1>0, <1>3 DEF SessionsInv, PathInv, FreshConn, WireInv, StatusInv, connVars, wireVars, rowVars
<1>10. RegistryLive' /\ ProgressMeansWritten' /\ OwnDeviceResponse'
  BY <1>0 DEF SessionsInv, RegistryLive, ProgressMeansWritten, OwnDeviceResponse, connVars,
              rowVars, histVars
<1> QED
  BY <1>0, <1>4, <1>5, <1>6, <1>7, <1>8, <1>9, <1>10 DEF SessionsInv, PathInv, rowVars

LEMMA DeviceStep ==
  ASSUME SessionsInv, NEW k \in Conns, DeviceReplies(k)
  PROVE  SessionsInv' /\ UNCHANGED status
<1>0. /\ UNCHANGED <<mainVars, connVars, sessions, lastCommand, sub, bus, request, rowVars,
                     wrote>>
      /\ toDevice[k] /= <<>>
      /\ toDevice' = [toDevice EXCEPT ![k] = Tail(toDevice[k])]
      /\ toServer' = [toServer EXCEPT ![k] = Append(toServer[k], Head(toDevice[k]))]
      /\ replied' = replied \union {Head(toDevice[k])}
  BY DEF DeviceReplies
<1> DEFINE i == Head(toDevice[k])
           t == Tail(toDevice[k])
<1>1. /\ toDevice \in [Conns -> Seq(Commands)] /\ toServer \in [Conns -> Seq(Commands)]
      /\ toDevice[k] \in Seq(Commands) /\ toServer[k] \in Seq(Commands)
  BY DEF SessionsInv, TypeOK
<1>2. /\ i \in Commands /\ t \in Seq(Commands)
      /\ 1 \in 1..Len(toDevice[k]) /\ i = toDevice[k][1]
      /\ \A n \in 1..Len(t) : n + 1 \in 1..Len(toDevice[k]) /\ t[n] = toDevice[k][n + 1]
  BY <1>0, <1>1, HeadTail
<1> HIDE DEF i, t
<1>3. TargetOf[i] = imei[k] /\ \A n \in 1..Len(t) : TargetOf[t[n]] = imei[k]
  <2>1. \A n \in 1..Len(toDevice[k]) : TargetOf[toDevice[k][n]] = imei[k]
    BY DEF SessionsInv, PathInv, WireInv
  <2> QED
    BY <1>2, <2>1
<1>4. /\ Append(toServer[k], i) \in Seq(Commands)
      /\ \A n \in 1..Len(Append(toServer[k], i)) :
           \/ Append(toServer[k], i)[n] = i
           \/ n \in 1..Len(toServer[k]) /\ Append(toServer[k], i)[n] = toServer[k][n]
  BY <1>1, <1>2
<1>5. \A n \in 1..Len(Append(toServer[k], i)) : TargetOf[Append(toServer[k], i)[n]] = imei[k]
  BY <1>3, <1>4 DEF SessionsInv, PathInv, WireInv
<1>6. /\ toDevice' \in [Conns -> Seq(Commands)] /\ toServer' \in [Conns -> Seq(Commands)]
      /\ toDevice'[k] = t /\ toServer'[k] = Append(toServer[k], i)
      /\ \A j \in Conns \ {k} : toDevice'[j] = toDevice[j] /\ toServer'[j] = toServer[j]
  BY <1>0, <1>1, <1>2, <1>4 DEF i, t
<1>7. WireInv'
  BY <1>0, <1>3, <1>5, <1>6 DEF SessionsInv, PathInv, WireInv, connVars
<1>8. TypeOK'
  <2>1. replied' \in SUBSET Commands
    BY <1>0, <1>2 DEF SessionsInv, TypeOK, i
  <2> QED
    BY <1>0, <1>6, <2>1 DEF SessionsInv, TypeOK, mainVars, connVars, rowVars
<1>9. FreshConn' /\ BusInv' /\ SubInv' /\ LastInv' /\ HandInv' /\ StatusInv'
  BY <1>0 DEF SessionsInv, PathInv, FreshConn, BusInv, SubInv, LastInv, HandInv, StatusInv,
              Recordable, Requested, WrittenTo, connVars, rowVars
<1>10. RegistryLive' /\ ProgressMeansWritten' /\ OwnDeviceResponse'
  BY <1>0 DEF SessionsInv, RegistryLive, ProgressMeansWritten, OwnDeviceResponse, connVars, rowVars
<1> QED
  BY <1>0, <1>7, <1>8, <1>9, <1>10 DEF SessionsInv, PathInv, rowVars

\* Only the rows, and what was written where, outlive the process.
LEMMA RestartStep ==
  ASSUME SessionsInv, Restart
  PROVE  SessionsInv' /\ UNCHANGED status
<1> USE SessionsAssumption DEF Restart, rowVars, histVars
<1>1. TypeOK'
  <2>1. restarts' \in 0..MaxRestarts
    BY DEF SessionsInv, TypeOK
  <2>2. pc' \in [Conns -> States] /\ \A k \in Conns : pc'[k] \in {"none", "done"}
    BY DEF States
  <2>3. sock' \in [Conns -> {"none", "open", "lost", "closed"}]
    OBVIOUS
  <2>4. /\ hand' \in [Conns -> [cmd : Commands \union {NoCmd}, reply : Commands \union {NoCmd}]]
        /\ sub' \in [pc : {"receive", "write", "store", "update", "done"},
                     cmd : Commands \union {NoCmd}, conn : Conns \union {NoConn}]
        /\ sub'.pc = "receive"
    BY DEF Empty, Idle
  <2>5. /\ toDevice' \in [Conns -> Seq(Commands)] /\ toServer' \in [Conns -> Seq(Commands)]
        /\ bus' \in Seq(Commands)
    OBVIOUS
  <2>6. /\ sessions' \in [Devices -> Conns \union {NoConn}]
        /\ lastCommand' \in [Conns -> Commands \union {NoCmd}]
        /\ main' = "running" /\ visited' \in SUBSET Devices
    OBVIOUS
  <2>7. UNCHANGED <<imei, request, status, response, wrote, replied>>
    OBVIOUS
  <2> QED
    BY <2>1, <2>2, <2>3, <2>4, <2>5, <2>6, <2>7 DEF SessionsInv, TypeOK
<1>2. FreshConn'
  BY DEF SessionsInv, PathInv, FreshConn
<1>3. BusInv' /\ SubInv' /\ WireInv' /\ LastInv' /\ HandInv'
  BY DEF BusInv, SubInv, WireInv, LastInv, HandInv, Idle
<1>4. StatusInv' /\ ProgressMeansWritten' /\ OwnDeviceResponse'
  BY DEF SessionsInv, PathInv, StatusInv, Requested, ProgressMeansWritten, OwnDeviceResponse
<1>5. RegistryLive'
  BY DEF RegistryLive
<1> QED
  BY <1>1, <1>2, <1>3, <1>4, <1>5 DEF SessionsInv, PathInv

--------------------------------------------------------------------------------
LEMMA StutterStep ==
  ASSUME SessionsInv, UNCHANGED vars
  PROVE  SessionsInv' /\ UNCHANGED status
<1> USE DEF vars, mainVars, connVars, wireVars, rowVars, histVars
<1>1. TypeOK'
  BY DEF SessionsInv, TypeOK
<1>2. PathInv'
  BY DEF SessionsInv, PathInv, FreshConn, BusInv, SubInv, WireInv, LastInv, HandInv, StatusInv,
         Recordable, Requested, WrittenTo
<1>3. RegistryLive' /\ ProgressMeansWritten' /\ OwnDeviceResponse'
  BY DEF SessionsInv, RegistryLive, ProgressMeansWritten, OwnDeviceResponse
<1> QED
  BY <1>1, <1>2, <1>3 DEF SessionsInv

LEMMA HandlerStepInv ==
  ASSUME SessionsInv, NEW k \in Conns, HandlerStep(k)
  PROVE  SessionsInv' /\ (UNCHANGED status \/ \A i \in Commands : Rank[status'[i]] >= Rank[status[i]])
<1>1. /\ <<"resolve", "store">> \in Moves /\ <<"resolve", "close">> \in Moves
      /\ <<"accept", "loop">> \in Moves /\ <<"accept", "delete">> \in Moves
      /\ <<"loop", "read">> \in Moves /\ <<"loop", "delete">> \in Moves
      /\ <<"read", "delete">> \in Moves
  BY DEF Moves
<1>2. CASE Resolves(k) \/ Unresolved(k)
  BY <1>1, <1>2, MoveStep DEF Resolves, Unresolved
<1>3. CASE Accepts(k) \/ AcceptFails(k)
  BY <1>1, <1>3, MoveStep DEF Accepts, AcceptFails
<1>4. CASE LoopReads(k) \/ LoopEnds(k) \/ ReadFails(k)
  BY <1>1, <1>4, MoveStep DEF LoopReads, LoopEnds, ReadFails
<1>5. CASE StoreSession(k) \/ DeleteSession(k) \/ CloseConn(k)
  BY <1>5, RegistryStep
<1>6. CASE LoadCommand(k) \/ ClearCommand(k)
  BY <1>6, ReplyStep
<1>7. CASE RecordResponse(k)
  BY <1>7, RecordStep
<1> QED
  BY <1>2, <1>3, <1>4, <1>5, <1>6, <1>7 DEF HandlerStep

LEMMA SubscriberStepInv ==
  ASSUME SessionsInv, SubscriberStep
  PROVE  SessionsInv' /\ (UNCHANGED status \/ \A i \in Commands : Rank[status'[i]] >= Rank[status[i]])
  BY SubReceives, SubStops, SubWriteStep, SubStoreStep, SubUpdateStep DEF SubscriberStep

\* Every step keeps the invariant and takes no status back.
LEMMA NextSessionsInv ==
  ASSUME SessionsInv, [Next]_vars
  PROVE  SessionsInv' /\ \A i \in Commands : Rank[status'[i]] >= Rank[status[i]]
<1>0. UNCHANGED status => \A i \in Commands : Rank[status'[i]] >= Rank[status[i]]
  <2>1. \A i \in Commands : Rank[status[i]] \in Nat
    BY DEF SessionsInv, TypeOK, Rank
  <2>2. \A i \in Commands : Rank[status[i]] >= Rank[status[i]]
    BY <2>1
  <2> QED
    BY <2>2
<1>1. CASE \E i \in Commands : InsertCommand(i) \/ PublishCommand(i)
  BY <1>0, <1>1, InsertStep, PublishStep
<1>2. ASSUME NEW k \in Conns,
             \/ DeviceReplies(k) \/ PeerLost(k) \/ Accept(k)
             \/ (\E d \in Devices : ReadIMEI(k, d)) \/ ReadIMEIFails(k)
      PROVE  SessionsInv' /\ UNCHANGED status
  <2>1. CASE ReadIMEIFails(k)
    BY <2>1, MoveStep DEF ReadIMEIFails, Moves
  <2>2. CASE PeerLost(k)
    BY <2>2, MainStep
  <2> QED
    BY <1>2, <2>1, <2>2, DeviceStep, AcceptStep, IdentifyStep
<1>3. ASSUME NEW k \in Conns, HandlerStep(k)
      PROVE  SessionsInv' /\ \A i \in Commands : Rank[status'[i]] >= Rank[status[i]]
  BY <1>0, <1>3, HandlerStepInv
<1>4. CASE SubscriberStep
  BY <1>0, <1>4, SubscriberStepInv
<1>5. CASE Cancel \/ ShutdownStep
  BY <1>0, <1>5, MainStep
<1>6. CASE Restart
  BY <1>0, <1>6, RestartStep
<1>7. CASE UNCHANGED vars
  BY <1>0, <1>7, StutterStep
<1> QED
  BY <1>0, <1>1, <1>2, <1>3, <1>4, <1>5, <1>6, <1>7 DEF Next

(***************************************************************************)
(* Wherever a command id is on its way through rudra-ingest it is of a     *)
(* requested command of the device at the end of that connection, and past *)
(* the write it has been written to a socket of that device (main.go,      *)
(* subscribeCommands and handleCommandResponse).                           *)
(***************************************************************************)
THEOREM SessionsInvariant == Spec => []SessionsInv
<1>1. SessionsInv /\ [Next]_vars => SessionsInv'
  BY NextSessionsInv
<1> QED
  BY InitSessionsInv, <1>1, PTL DEF Spec

(***************************************************************************)
(* Every variable keeps its type, in particular a program counter, a       *)
(* buffer and a registry entry never hold anything the goroutines of       *)
(* main.go do not know.                                                    *)
(***************************************************************************)
THEOREM SessionTypesHold == Spec => []TypeOK
<1>1. SessionsInv => TypeOK
  BY DEF SessionsInv
<1> QED
  BY SessionsInvariant, <1>1, PTL

(***************************************************************************)
(* For every number of devices and connections, a command that is          *)
(* 'Delivered' or 'Acknowledged' was written to a socket of its own device *)
(* (main.go, subscribeCommands).                                           *)
(***************************************************************************)
THEOREM ProgressWasWritten == Spec => []ProgressMeansWritten
<1>1. SessionsInv => ProgressMeansWritten
  BY DEF SessionsInv
<1> QED
  BY SessionsInvariant, <1>1, PTL

(***************************************************************************)
(* No response is recorded against a command of another device, however    *)
(* connections and commands overlap (main.go, handleCommandResponse).      *)
(***************************************************************************)
THEOREM ResponsesStayHome == Spec => []OwnDeviceResponse
<1>1. SessionsInv => OwnDeviceResponse
  BY DEF SessionsInv
<1> QED
  BY SessionsInvariant, <1>1, PTL

(***************************************************************************)
(* A registered session is of its IMEI and its goroutine has not ended     *)
(* (main.go, the deferred sessions.Delete).                                *)
(***************************************************************************)
THEOREM RegistryStaysLive == Spec => []RegistryLive
<1>1. SessionsInv => RegistryLive
  BY DEF SessionsInv
<1> QED
  BY SessionsInvariant, <1>1, PTL

(***************************************************************************)
(* No step takes the status of a command back: 'Delivered' only replaces   *)
(* 'Sent', and a recorded reply is of a row that exists (main.go, the two  *)
(* UPDATEs of device_commands).                                            *)
(***************************************************************************)
THEOREM StatusNeverGoesBack == Spec => StatusMonotone
<1>1. SessionsInv /\ [Next]_vars => [\A i \in Commands : Rank[status'[i]] >= Rank[status[i]]]_vars
  BY NextSessionsInv
<1> QED
  BY SessionsInvariant, <1>1, PTL DEF Spec, StatusMonotone
================================================================================
