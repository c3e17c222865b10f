------------------------------- MODULE HubProofs -------------------------------
(***************************************************************************)
(* Theorems about Hub for every set of clients, tenants, devices and       *)
(* events, and every capacity of the channels.                             *)
(*                                                                         *)
(* NoPanic and TenantIsolation are not inductive.  What Run relies on is   *)
(* split in three: the registry holds a client under its own company only  *)
(* and only while its Send is open; a client that has not been registered  *)
(* yet has no goroutine and an open Send; and the range loop visits        *)
(* registered clients of the message's company, because nothing but Run    *)
(* changes the registry and Run does so only at its select.                *)
(***************************************************************************)
EXTENDS Hub, SequenceTheorems, TLAPS

RegistryInv ==
  \A co \in Companies : \A c \in clients[co] : co = CompanyOf[c] /\ ~sendClosed[c]

FreshInv ==
  \A c \in Clients : handler[c] /= "returned" =>
    ~sendClosed[c] /\ reader[c] = "none" /\ writer[c] = "none"

FanoutInv ==
  hubPc /= "select" => cur \in Msg /\ todo \subseteq clients[cur.event.company]

HubInv == TypeOK /\ RegistryInv /\ FreshInv /\ FanoutInv /\ NoPanic /\ TenantIsolation

--------------------------------------------------------------------------------
\* What a message carries.
LEMMA MsgFields ==
  ASSUME NEW m \in Msg
  PROVE  m.event \in Events /\ m.event.company \in Companies
BY HubAssumption DEF Msg

\* Run starts with an empty registry and nothing to fan out.
LEMMA InitHubInv == Init => HubInv
<1> SUFFICES ASSUME Init PROVE HubInv
  OBVIOUS
<1>1. TypeOK
  <2>1. clients \in [Companies -> SUBSET Clients] /\ sub \in [Kinds -> Msg \union {NoMsg}]
    BY DEF Init
  <2>2. /\ send \in [Clients -> Seq(Msg)] /\ \A c \in Clients : Len(send[c]) <= SendCap
        /\ broadcast \in Seq(Msg) /\ Len(broadcast) <= BroadcastCap
    BY HubAssumption DEF Init
  <2>3. /\ fanned \in Seq(Msg) /\ span \in [Clients -> [from : Nat, to : Nat]]
        /\ enqueued \in [Clients -> Seq(Msg)] /\ written \in [Clients -> Seq(Msg)]
    BY DEF Init
  <2> QED
    BY <2>1, <2>2, <2>3 DEF Init, TypeOK
<1>2. RegistryInv /\ FreshInv /\ FanoutInv
  BY DEF Init, RegistryInv, FreshInv, FanoutInv
<1>3. NoPanic /\ TenantIsolation
  BY DEF Init, NoPanic, TenantIsolation
<1> QED
  BY <1>1, <1>2, <1>3 DEF HubInv

\* An action that leaves the registry, the loop, Send and the goroutines'
\* births alone keeps everything but its own types.
LEMMA Framed ==
  ASSUME HubInv, TypeOK',
         UNCHANGED <<clients, hubPc, cur, todo, sendClosed, panicked, enqueued>>,
         \A c \in Clients : handler'[c] /= "returned" =>
            handler[c] /= "returned" /\ reader'[c] = reader[c] /\ writer'[c] = writer[c]
  PROVE  HubInv'
BY DEF HubInv, RegistryInv, FreshInv, FanoutInv, NoPanic, TenantIsolation

\* The subscribers and the browsers' side never touch what Run relies on.
LEMMA SubscriberStep ==
  ASSUME HubInv,
         (\E e \in Events : Receive(e)) \/ (\E k \in Kinds : Broadcast(k))
  PROVE  HubInv'
<1>1. CASE \E e \in Events : Receive(e)
  <2> PICK e \in Events : Receive(e)
    BY <1>1
  <2>1. e.kind \in Kinds
    BY HubAssumption DEF Kinds
  <2>2. [id |-> published + 1, event |-> e] \in Msg
    BY DEF Msg, HubInv, TypeOK
  <2>3. TypeOK'
    BY <2>1, <2>2 DEF Receive, HubInv, TypeOK, hubVars, goVars, sendVars, histVars
  <2> QED
    BY <2>3, Framed DEF Receive, HubInv, hubVars, goVars, sendVars, histVars
<1>2. CASE \E k \in Kinds : Broadcast(k)
  <2> PICK k \in Kinds : Broadcast(k)
    BY <1>2
  <2>1. sub[k] \in Msg
    BY DEF Broadcast, HubInv, TypeOK
  <2>2. broadcast' \in Seq(Msg) /\ Len(broadcast') <= BroadcastCap
    BY <2>1, HubAssumption DEF Broadcast, HubInv, TypeOK
  <2>3. TypeOK'
    BY <2>2 DEF Broadcast, HubInv, TypeOK, hubVars, goVars, sendVars, histVars
  <2> QED
    BY <2>3, Framed DEF Broadcast, HubInv, hubVars, goVars, sendVars, histVars
<1> QED
  BY <1>1, <1>2

LEMMA ClientStep ==
  ASSUME HubInv, NEW c \in Clients,
         \/ Connect(c)
         \/ PeerStalls(c) \/ PeerResumes(c) \/ PeerLost(c)
         \/ ReaderFails(c) \/ ReaderCloses(c)
         \/ WriterStep(c)
  PROVE  HubInv'
<1> USE DEF hubVars, chanVars, goVars, sendVars, histVars
<1>1. CASE Connect(c)
  <2>1. TypeOK'
    BY <1>1 DEF Connect, HubInv, TypeOK
  <2>2. /\ handler' = [handler EXCEPT ![c] = "registering"] /\ handler[c] = "idle"
        /\ UNCHANGED <<clients, hubPc, cur, todo, sendClosed, panicked, enqueued, reader, writer>>
    BY <1>1 DEF Connect
  <2>3. \A x \in Clients : handler'[x] /= "returned" => handler[x] /= "returned"
    BY <2>2 DEF HubInv, TypeOK
  <2> QED
    BY <2>1, <2>2, <2>3, Framed
<1>2. CASE PeerStalls(c) \/ PeerResumes(c) \/ PeerLost(c)
  <2>1. TypeOK'
    <3>1. \E to \in {"stalled", "open", "gone"} : sock' = [sock EXCEPT ![c] = to]
      BY <1>2 DEF PeerStalls, PeerResumes, PeerLost, SetSock
    <3>2. sock' \in [Clients -> {"none", "open", "stalled", "gone"}]
      BY <3>1 DEF HubInv, TypeOK
    <3>3. UNCHANGED <<hubVars, chanVars, handler, reader, writer, held, sendVars, histVars>>
      BY <1>2 DEF PeerStalls, PeerResumes, PeerLost, SetSock
    <3> QED
      BY <3>2, <3>3 DEF HubInv, TypeOK
  <2> QED
    BY <1>2, <2>1, Framed DEF PeerStalls, PeerResumes, PeerLost, SetSock
<1>4. CASE ReaderFails(c)
  <2>1. TypeOK'
    BY <1>4 DEF ReaderFails, HubInv, TypeOK
  <2>2. handler[c] = "returned"
    BY <1>4 DEF ReaderFails, HubInv, FreshInv
  <2> QED
    BY <1>4, <2>1, <2>2, Framed DEF ReaderFails, HubInv, TypeOK
<1>5. CASE ReaderCloses(c)
  <2>1. TypeOK'
    BY <1>5 DEF ReaderCloses, HubInv, TypeOK
  <2>2. handler[c] = "returned"
    BY <1>5 DEF ReaderCloses, HubInv, FreshInv
  <2> QED
    BY <1>5, <2>1, <2>2, Framed DEF ReaderCloses, HubInv, TypeOK
<1>6. CASE WriterStep(c)
  <2>1. handler[c] = "returned" /\ writer[c] /= "none"
    BY <1>6 DEF WriterStep, WriterTakes, WriterPings, WriteReturns, WriterEnds, WriterCloses,
                HubInv, FreshInv
  <2>2. TypeOK'
    <3>1. CASE WriterTakes(c)
      <4>1. Head(send[c]) \in Msg /\ Tail(send[c]) \in Seq(Msg)
            /\ Len(Tail(send[c])) <= SendCap
        BY <3>1, HubAssumption DEF WriterTakes, HubInv, TypeOK
      <4> QED
        BY <3>1, <4>1 DEF WriterTakes, HubInv, TypeOK
    <3>2. CASE WriterPings(c)
      BY <3>2 DEF WriterPings, HubInv, TypeOK
    <3>3. CASE WriteReturns(c)
      <4>1. \/ written' = [written EXCEPT ![c] = written[c]]
            \/ written' = [written EXCEPT ![c] = Append(written[c], held[c])] /\ held[c] \in Msg
        BY <3>3 DEF WriteReturns, HubInv, TypeOK
      <4>2. written' \in [Clients -> Seq(Msg)]
        <5>1. written \in [Clients -> Seq(Msg)] /\ written[c] \in Seq(Msg)
          BY DEF HubInv, TypeOK
        <5>2. held[c] \in Msg => Append(written[c], held[c]) \in Seq(Msg)
          BY <5>1
        <5> QED
          BY <4>1, <5>1, <5>2
      <4>3. /\ writer' \in [Clients -> {"none", "select", "writing", "unregister", "close", "done"}]
            /\ held' \in [Clients -> Msg \union {NoMsg}]
        BY <3>3 DEF WriteReturns, HubInv, TypeOK
      <4>4. UNCHANGED <<hubVars, chanVars, handler, sock, reader, sendVars, fanned, span, enqueued>>
        BY <3>3 DEF WriteReturns
      <4> QED
        BY <4>2, <4>3, <4>4 DEF HubInv, TypeOK
    <3>4. CASE WriterEnds(c)
      BY <3>4 DEF WriterEnds, HubInv, TypeOK
    <3>5. CASE WriterCloses(c)
      BY <3>5 DEF WriterCloses, HubInv, TypeOK
    <3> QED
      BY <1>6, <3>1, <3>2, <3>3, <3>4, <3>5 DEF WriterStep
  <2>3. UNCHANGED <<clients, hubPc, cur, todo, sendClosed, panicked, enqueued, handler, reader>>
    BY <1>6 DEF WriterStep, WriterTakes, WriterPings, WriteReturns, WriterEnds, WriterCloses
  <2>4. \A x \in Clients \ {c} : writer'[x] = writer[x]
    BY <1>6 DEF WriterStep, WriterTakes, WriterPings, WriteReturns, WriterEnds, WriterCloses,
                HubInv, TypeOK
  <2> QED
    BY <2>1, <2>2, <2>3, <2>4, Framed
<1> QED
  BY <1>1, <1>2, <1>4, <1>5, <1>6

\* Register: the client's Send is still open.
LEMMA RegisterStep ==
  ASSUME HubInv, NEW c \in Clients, HubRegister(c)
  PROVE  HubInv'
<1> USE DEF HubRegister
<1>1. CompanyOf[c] \in Companies
  BY HubAssumption
<1>2. TypeOK'
  BY <1>1 DEF HubInv, TypeOK, chanVars, sendVars
<1>3. RegistryInv'
  BY <1>1 DEF HubInv, TypeOK, RegistryInv, FreshInv, sendVars
<1>4. FreshInv'
  BY DEF HubInv, TypeOK, FreshInv, sendVars
<1>5. FanoutInv' /\ NoPanic' /\ TenantIsolation'
  BY DEF HubInv, FanoutInv, NoPanic, TenantIsolation, sendVars
<1> QED
  BY <1>2, <1>3, <1>4, <1>5 DEF HubInv

\* Unregister: of the two requests only the first finds the client, so Send
\* is closed once, and never while the client is in the registry.
LEMMA UnregisterStep ==
  ASSUME HubInv, NEW c \in Clients, HubUnregisterReader(c) \/ HubUnregisterWriter(c)
  PROVE  HubInv'
<1> USE DEF HubUnregisterReader, HubUnregisterWriter
<1>1. CompanyOf[c] \in Companies
  BY HubAssumption
<1>2. handler[c] = "returned"
  BY DEF HubInv, FreshInv
<1>3. TypeOK'
  <2>1. clients' \in [Companies -> SUBSET Clients]
    <3>1. clients[CompanyOf[c]] \ {c} \in SUBSET Clients
      BY <1>1 DEF HubInv, TypeOK
    <3>2. \/ clients' = clients
          \/ clients' = [clients EXCEPT ![CompanyOf[c]] = clients[CompanyOf[c]] \ {c}]
      BY DEF Remove
    <3>3. clients \in [Companies -> SUBSET Clients]
      BY DEF HubInv, TypeOK
    <3> HIDE DEF HubUnregisterReader, HubUnregisterWriter
    <3> QED
      BY <1>1, <3>1, <3>2, <3>3
  <2>2. sendClosed' \in [Clients -> BOOLEAN]
    <3>1. sendClosed' = sendClosed \/ sendClosed' = [sendClosed EXCEPT ![c] = TRUE]
      BY DEF Remove
    <3> HIDE DEF HubUnregisterReader, HubUnregisterWriter
    <3> QED
      BY <3>1 DEF HubInv, TypeOK
  <2>3. panicked' \in BOOLEAN
    BY DEF Remove, HubInv, TypeOK
  <2>4. span' \in [Clients -> [from : Nat, to : Nat]]
    <3>1. \/ span' = span
          \/ span' = [span EXCEPT ![c] = [from |-> span[c].from, to |-> Len(fanned)]]
      BY DEF Remove
    <3>2. /\ span \in [Clients -> [from : Nat, to : Nat]]
          /\ [from |-> span[c].from, to |-> Len(fanned)] \in [from : Nat, to : Nat]
      BY DEF HubInv, TypeOK
    <3> HIDE DEF HubUnregisterReader, HubUnregisterWriter
    <3> QED
      BY <3>1, <3>2
  <2>5. /\ reader' \in [Clients -> {"none", "reading", "unregister", "close", "done"}]
        /\ writer' \in [Clients -> {"none", "select", "writing", "unregister", "close", "done"}]
    <3>1. \/ reader' = [reader EXCEPT ![c] = "close"] /\ writer' = writer
          \/ writer' = [writer EXCEPT ![c] = "close"] /\ reader' = reader
      OBVIOUS
    <3> HIDE DEF HubUnregisterReader, HubUnregisterWriter
    <3>2. /\ reader \in [Clients -> {"none", "reading", "unregister", "close", "done"}]
          /\ writer \in [Clients -> {"none", "select", "writing", "unregister", "close", "done"}]
      BY DEF HubInv, TypeOK
    <3>3. CASE reader' = [reader EXCEPT ![c] = "close"] /\ writer' = writer
      BY <3>2, <3>3
    <3>4. CASE writer' = [writer EXCEPT ![c] = "close"] /\ reader' = reader
      BY <3>2, <3>4
    <3> QED
      BY <3>1, <3>3, <3>4
  <2>6. UNCHANGED <<hubPc, cur, todo, victim, chanVars, handler, sock, held, send,
                    fanned, enqueued, written>>
    OBVIOUS
  <2> HIDE DEF HubUnregisterReader, HubUnregisterWriter
  <2> QED
    BY <2>1, <2>2, <2>3, <2>4, <2>5, <2>6 DEF HubInv, TypeOK, chanVars
<1>4. RegistryInv'
  <2> SUFFICES ASSUME NEW co \in Companies, NEW x \in clients'[co]
               PROVE  co = CompanyOf[x] /\ ~sendClosed'[x]
    BY DEF RegistryInv
  <2>1. x \in clients[co] /\ x \in Clients /\ co = CompanyOf[x] /\ ~sendClosed[x]
    BY <1>1 DEF Remove, HubInv, TypeOK, RegistryInv
  <2>2. x = c => c \notin clients[CompanyOf[c]] \/ c \notin clients'[CompanyOf[c]]
    BY <1>1 DEF Remove, HubInv, TypeOK
  <2> QED
    BY <2>1, <2>2 DEF Remove, HubInv, TypeOK
<1>5. FreshInv'
  <2>1. \A x \in Clients \ {c} : /\ reader'[x] = reader[x] /\ writer'[x] = writer[x]
                                 /\ sendClosed'[x] = sendClosed[x]
    BY DEF Remove, HubInv, TypeOK
  <2>2. handler' = handler
    OBVIOUS
  <2> HIDE DEF HubUnregisterReader, HubUnregisterWriter
  <2> QED
    BY <1>2, <2>1, <2>2 DEF HubInv, FreshInv
<1>6. NoPanic'
  BY <1>1 DEF Remove, HubInv, NoPanic, RegistryInv
<1>7. FanoutInv' /\ TenantIsolation'
  BY DEF HubInv, FanoutInv, TenantIsolation
<1> QED
  BY <1>3, <1>4, <1>5, <1>6, <1>7 DEF HubInv

\* Broadcast: the loop's clients are the registered clients of the company.
LEMMA FanoutStarts ==
  ASSUME HubInv, HubSkips \/ HubFansOut
  PROVE  HubInv'
<1>1. Head(broadcast) \in Msg /\ Tail(broadcast) \in Seq(Msg)
      /\ Len(Tail(broadcast)) <= BroadcastCap
  BY HubAssumption DEF HubSkips, HubFansOut, HubInv, TypeOK
<1>2. Head(broadcast).event.company \in Companies
  BY <1>1, MsgFields
<1>3. CASE HubSkips
  <2>1. TypeOK'
    BY <1>1, <1>3 DEF HubSkips, HubInv, TypeOK, hubVars, goVars, sendVars
  <2> QED
    BY <1>3, <2>1, Framed DEF HubSkips, hubVars, goVars, sendVars
<1>4. CASE HubFansOut
  <2>1. TypeOK'
    <3>1. todo' \in SUBSET Clients
      BY <1>2, <1>4 DEF HubFansOut, Audience, HubInv, TypeOK
    <3>2. fanned' \in Seq(Msg) /\ cur' \in Msg /\ broadcast' \in Seq(Msg)
          /\ Len(broadcast') <= BroadcastCap
      BY <1>1, <1>4 DEF HubFansOut, HubInv, TypeOK
    <3> QED
      BY <1>4, <3>1, <3>2 DEF HubFansOut, HubInv, TypeOK, goVars, sendVars
  <2>2. FanoutInv'
    BY <1>1, <1>4 DEF HubFansOut, Audience, FanoutInv
  <2> QED
    BY <1>4, <2>1, <2>2 DEF HubFansOut, HubInv, RegistryInv, FreshInv, NoPanic,
                            TenantIsolation, goVars, sendVars
<1> QED
  BY <1>3, <1>4

\* A visit of the loop: the client's Send is open and the message is of its
\* own company.
LEMMA VisitStep ==
  ASSUME HubInv, NEW c \in Clients, HubSends(c) \/ HubOverflows(c)
  PROVE  HubInv'
<1>1. hubPc = "fanout" /\ c \in todo
  BY DEF HubSends, HubOverflows
<1>2. cur \in Msg /\ cur.event.company \in Companies
      /\ c \in clients[cur.event.company]
  BY <1>1, MsgFields DEF HubInv, FanoutInv
<1>3. cur.event.company = CompanyOf[c] /\ ~sendClosed[c]
  BY <1>2 DEF HubInv, RegistryInv
<1>4. CASE HubSends(c)
  <2> USE <1>4 DEF HubSends
  <2>1. /\ Append(send[c], cur) \in Seq(Msg) /\ Len(Append(send[c], cur)) <= SendCap
        /\ Append(enqueued[c], cur) \in Seq(Msg)
    BY <1>2, HubAssumption DEF HubInv, TypeOK
  <2>2. TypeOK'
    BY <2>1 DEF HubInv, TypeOK, chanVars, goVars
  <2>3. RegistryInv' /\ FreshInv'
    BY DEF HubInv, RegistryInv, FreshInv, goVars
  <2>4. FanoutInv'
    BY <1>1, <1>2 DEF HubInv, FanoutInv
  <2>5. NoPanic'
    BY <1>3 DEF HubInv, NoPanic
  <2>6. TenantIsolation'
    <3> SUFFICES ASSUME NEW x \in Clients, NEW i \in 1..Len(enqueued'[x])
                 PROVE  enqueued'[x][i].event.company = CompanyOf[x]
      BY DEF TenantIsolation
    <3> DEFINE old == enqueued[c]
    <3>0. /\ old \in Seq(Msg)
          /\ enqueued'[x] = IF x = c THEN Append(old, cur) ELSE enqueued[x]
      BY DEF HubInv, TypeOK
    <3> HIDE <1>4 DEF HubSends, old
    <3>1. CASE x /= c
      BY <3>0, <3>1 DEF HubInv, TenantIsolation
    <3>2. CASE x = c /\ i <= Len(old)
      <4>1. enqueued'[x][i] = old[i] /\ i \in 1..Len(old)
        BY <3>0, <3>2, <1>2
      <4> QED
        BY <3>2, <4>1 DEF HubInv, TenantIsolation, old
    <3>3. CASE x = c /\ ~(i <= Len(old))
      <4>1. enqueued'[x][i] = cur
        BY <3>0, <3>3, <1>2
      <4> QED
        BY <3>3, <4>1, <1>3
    <3> QED
      BY <3>1, <3>2, <3>3
  <2> QED
    BY <2>2, <2>3, <2>4, <2>5, <2>6 DEF HubInv
<1>5. CASE HubOverflows(c)
  <2> USE <1>5 DEF HubOverflows
  <2>1. TypeOK'
    BY DEF HubInv, TypeOK, chanVars, goVars, sendVars, histVars
  <2>2. FanoutInv'
    BY <1>1 DEF HubInv, FanoutInv
  <2> QED
    BY <2>1, <2>2 DEF HubInv, RegistryInv, FreshInv, NoPanic, TenantIsolation,
                      goVars, sendVars, histVars
<1> QED
  BY <1>4, <1>5

\* Every step, or stuttering, keeps the inductive invariant.
LEMMA NextHubInv == HubInv /\ [Next]_vars => HubInv'
<1> SUFFICES ASSUME HubInv, [Next]_vars PROVE HubInv'
  OBVIOUS
<1>1. CASE UNCHANGED vars
  <2>1. TypeOK'
    BY <1>1 DEF HubInv, TypeOK, vars, hubVars, chanVars, goVars, sendVars, histVars
  <2> QED
    BY <1>1, <2>1, Framed DEF vars, hubVars, goVars, sendVars, histVars
<1>2. CASE HubStep
  BY <1>2, RegisterStep, UnregisterStep, FanoutStarts, VisitStep DEF HubStep, HubServes, HubDelivers
<1> QED
  BY <1>1, <1>2, SubscriberStep, ClientStep DEF Next

\* The inductive invariant holds of every behaviour of the hub.
THEOREM HubInvariant == Spec => []HubInv
BY InitHubInv, NextHubInv, PTL DEF Spec

\* Every variable keeps its type, and no channel ever holds more than its
\* capacity (hub.go, NewClient and NewHub).
THEOREM TypeCorrect == Spec => []TypeOK
<1>1. HubInv => TypeOK
  BY DEF HubInv
<1> QED
  BY <1>1, HubInvariant, PTL

\* The hub never sends on or closes a closed Send channel, whatever the order
\* of the unregister requests of a client's two goroutines (hub.go, Run).
THEOREM HubNeverPanics == Spec => []NoPanic
<1>1. HubInv => NoPanic
  BY DEF HubInv
<1> QED
  BY <1>1, HubInvariant, PTL

\* A browser is only ever handed events of its own company (hub.go, Run).
THEOREM TenantsIsolated == Spec => []TenantIsolation
<1>1. HubInv => TenantIsolation
  BY DEF HubInv
<1> QED
  BY <1>1, HubInvariant, PTL

--------------------------------------------------------------------------------
(***************************************************************************)
(* The feed of a client.  FeedInOrder and FeedComplete are stated about    *)
(* histories; the steps keep them because of how far the write goroutine   *)
(* and the range loop have come: nothing has happened for a client that is *)
(* not registered yet, the writer holds a message only while it writes it, *)
(* and the message of the loop is the last one Run took, taken after every *)
(* client it has still to visit had registered.                            *)
(***************************************************************************)
InHand(c) == IF held[c] = NoMsg THEN <<>> ELSE <<held[c]>>

StartInv ==
  /\ \A co \in Companies : \A c \in clients[co] : handler[c] = "returned"
  /\ \A c \in Clients : handler[c] /= "returned" =>
       written[c] = <<>> /\ send[c] = <<>> /\ enqueued[c] = <<>> /\ held[c] = NoMsg

WriterOK(c) ==
  /\ writer[c] /= "writing" => held[c] = NoMsg
  /\ Len(written[c]) <= Len(enqueued[c])
  /\ written[c] = SubSeq(enqueued[c], 1, Len(written[c]))
  /\ writer[c] \in {"none", "select", "writing"}
       => written[c] \o InHand(c) \o send[c] = enqueued[c]

WriterInv == \A c \in Clients : WriterOK(c)

LastInv == hubPc /= "select" => Len(fanned) > 0 /\ fanned[Len(fanned)] = cur

LoopInv ==
  /\ hubPc = "select" => todo = {}
  /\ LastInv
  /\ \A c \in Clients :
       /\ Registered(c) => span[c].from <= Len(fanned)
       /\ c \in todo => span[c].from < Len(fanned)
       /\ span[c].to <= Len(fanned)

FeedInv == StartInv /\ WriterInv /\ LoopInv /\ FeedComplete

--------------------------------------------------------------------------------
\* Handing the head of a queue over leaves what is behind and ahead of it.
LEMMA TakeHead ==
  ASSUME NEW S, NEW w \in Seq(S), NEW s \in Seq(S), s /= <<>>
  PROVE  w \o <<>> \o s = w \o <<Head(s)>> \o Tail(s)
<1>1. s = <<Head(s)>> \o Tail(s)
  <2>1. /\ Tail(s) \in Seq(S) /\ Head(s) \in S /\ Len(Tail(s)) = Len(s) - 1
        /\ <<Head(s)>> \in Seq(S) /\ Len(<<Head(s)>>) = 1
    BY HeadTailProperties
  <2>2. \A i \in 1..Len(s) : s[i] = (<<Head(s)>> \o Tail(s))[i]
    BY <2>1
  <2> QED
    BY <2>1, <2>2, SeqEqual, ConcatProperties
<1>2. Head(s) \in S /\ Tail(s) \in Seq(S) /\ <<Head(s)>> \in Seq(S)
  BY HeadTailProperties
<1>3. w \o <<>> = w
  BY ConcatEmptySeq
<1>4. (w \o <<Head(s)>>) \o Tail(s) = w \o (<<Head(s)>> \o Tail(s))
  BY <1>2, ConcatAssociative
<1> QED
  BY <1>1, <1>3, <1>4

\* A message that joins the queue joins the feed.
LEMMA PutLast ==
  ASSUME NEW S, NEW w \in Seq(S), NEW h \in Seq(S), NEW s \in Seq(S), NEW m \in S
  PROVE  w \o h \o Append(s, m) = Append(w \o h \o s, m)
<1>1. w \o h \in Seq(S) /\ w \o h \o s \in Seq(S) /\ <<m>> \in Seq(S)
  BY ConcatProperties
<1>2. Append(s, m) = s \o <<m>>
  BY AppendIsConcat
<1>3. Append(w \o h \o s, m) = (w \o h \o s) \o <<m>>
  BY <1>1, AppendIsConcat
<1>4. ((w \o h) \o s) \o <<m>> = (w \o h) \o (s \o <<m>>)
  BY <1>1, ConcatAssociative
<1> QED
  BY <1>2, <1>3, <1>4

\* A message in hand that is written moves from one side to the other.
LEMMA WriteOne ==
  ASSUME NEW S, NEW w \in Seq(S), NEW s \in Seq(S), NEW m \in S
  PROVE  w \o <<m>> \o s = Append(w, m) \o <<>> \o s
<1>1. Append(w, m) = w \o <<m>> /\ Append(w, m) \in Seq(S)
  BY AppendIsConcat, AppendProperties
<1>2. Append(w, m) \o <<>> = Append(w, m)
  BY <1>1, ConcatEmptySeq
<1> QED
  BY <1>1, <1>2

LEMMA PrefixOfConcat ==
  ASSUME NEW S, NEW s \in Seq(S), NEW t \in Seq(S)
  PROVE  Len(s) <= Len(s \o t) /\ s = SubSeq(s \o t, 1, Len(s))
<1>1. s \o t \in Seq(S) /\ Len(s \o t) = Len(s) + Len(t) /\ Len(s) \in Nat /\ Len(t) \in Nat
  BY ConcatProperties
<1>2. \A i \in 1..Len(s) : (s \o t)[i] = s[i] /\ s[i] \in S
  BY ConcatProperties
<1> DEFINE u == SubSeq(s \o t, 1, Len(s))
<1>3. u \in Seq(S) /\ Len(u) = Len(s) /\ \A i \in 1..Len(s) : u[i] = s[i]
  BY <1>1, <1>2, SubSeqProperties
<1> QED
  BY <1>1, <1>3, SeqEqual

LEMMA PrefixOfAppend ==
  ASSUME NEW S, NEW s \in Seq(S), NEW e \in Seq(S), NEW m \in S,
         Len(s) <= Len(e), s = SubSeq(e, 1, Len(s))
  PROVE  Len(s) <= Len(Append(e, m)) /\ s = SubSeq(Append(e, m), 1, Len(s))
<1>1. /\ Append(e, m) \in Seq(S) /\ Len(Append(e, m)) = Len(e) + 1
      /\ \A i \in 1..Len(e) : Append(e, m)[i] = e[i]
  BY AppendProperties
<1>2. \A i \in 1..Len(s) : Append(e, m)[i] = e[i] /\ e[i] \in S
  BY <1>1
<1> DEFINE u == SubSeq(Append(e, m), 1, Len(s))
           v == SubSeq(e, 1, Len(s))
<1>3. u \in Seq(S) /\ Len(u) = Len(s) /\ \A i \in 1..Len(s) : u[i] = e[i]
  BY <1>1, <1>2, SubSeqProperties
<1>4. v \in Seq(S) /\ Len(v) = Len(s) /\ \A i \in 1..Len(s) : v[i] = e[i]
  BY <1>2, SubSeqProperties
<1>5. u = v
  BY <1>3, <1>4, SeqEqual
<1> QED
  BY <1>1, <1>5

--------------------------------------------------------------------------------
\* A client nobody touches keeps its feed.
LEMMA WriterFrame ==
  ASSUME NEW c \in Clients, WriterOK(c),
         writer'[c] = writer[c], held'[c] = held[c], send'[c] = send[c],
         written'[c] = written[c], enqueued'[c] = enqueued[c]
  PROVE  WriterOK(c)'
BY DEF WriterOK, InHand

LEMMA FedFrame ==
  ASSUME NEW c \in Clients, Fed(c), Due(c)' = Due(c), enqueued'[c] = enqueued[c],
         \A n \in Due(c) : fanned'[n] = fanned[n]
  PROVE  Fed(c)'
<1> DEFINE sent == 1..Len(enqueued[c])
<1>1. PICK place \in [sent -> Due(c)] :
         /\ \A i, j \in sent : i < j => place[i] < place[j]
         /\ \A n \in Due(c) : \E i \in sent : place[i] = n
         /\ \A i \in sent : enqueued[c][i] = fanned[place[i]]
  BY DEF Fed
<1>2. \A i \in sent : enqueued'[c][i] = fanned'[place[i]]
  BY <1>1
<1> QED
  BY <1>1, <1>2 DEF Fed

\* A step that leaves the registry, the loop and the histories of Run alone.
LEMMA RunFrame ==
  ASSUME FeedInv, WriterInv',
         UNCHANGED <<clients, cur, todo, fanned, span, enqueued>>,
         hubPc' = "select" <=> hubPc = "select",
         \A c \in Clients : handler'[c] = "returned" <=> handler[c] = "returned",
         \A c \in Clients : handler[c] /= "returned" =>
            written'[c] = written[c] /\ send'[c] = send[c] /\ held'[c] = held[c],
         HubInv
  PROVE  FeedInv'
<1>1. StartInv'
  BY DEF FeedInv, StartInv, HubInv, TypeOK
<1>2. LoopInv'
  BY DEF FeedInv, LoopInv, LastInv, Registered
<1>3. FeedComplete'
  <2> SUFFICES ASSUME NEW c \in Clients, handler'[c] = "returned" PROVE Fed(c)'
    BY DEF FeedComplete
  <2>1. Fed(c)
    BY DEF FeedInv, FeedComplete
  <2>2. Due(c)' = Due(c)
    BY DEF Due, LastDue, Registered
  <2> QED
    BY <2>1, <2>2, FedFrame
<1> QED
  BY <1>1, <1>2, <1>3 DEF FeedInv

\* Every client's part of the invariant is about its own variables only.
LEMMA WriterInvFrame ==
  ASSUME FeedInv, UNCHANGED <<writer, held, send, written, enqueued>>
  PROVE  WriterInv'
BY WriterFrame DEF FeedInv, WriterInv

LEMMA InitFeedInv == Init => FeedInv
<1> SUFFICES ASSUME Init PROVE FeedInv
  OBVIOUS
<1>1. StartInv
  BY DEF Init, StartInv
<1>2. WriterInv
  <2> SUFFICES ASSUME NEW c \in Clients PROVE WriterOK(c)
    BY DEF WriterInv
  <2>1. <<>> \in Seq(Msg) /\ <<>> \o <<>> = <<>> /\ Len(<<>>) = 0
    BY EmptySeq, ConcatEmptySeq
  <2>2. SubSeq(<<>>, 1, 0) = <<>>
    BY SubSeqEmpty
  <2> QED
    BY <2>1, <2>2 DEF Init, WriterOK, InHand
<1>3. LoopInv /\ FeedComplete
  BY DEF Init, LoopInv, LastInv, Registered, FeedComplete
<1> QED
  BY <1>1, <1>2, <1>3 DEF FeedInv

\* The subscribers and the handler's and reader's side of a session.
LEMMA OthersFeed ==
  ASSUME HubInv, FeedInv,
         \/ \E e \in Events : Receive(e)
         \/ \E k \in Kinds : Broadcast(k)
         \/ \E c \in Clients : \/ Connect(c) \/ PeerStalls(c) \/ PeerResumes(c) \/ PeerLost(c)
                               \/ ReaderFails(c) \/ ReaderCloses(c) \/ HubOverflows(c)
  PROVE  FeedInv'
<1> USE DEF hubVars, chanVars, goVars, sendVars, histVars
<1>1. /\ UNCHANGED <<clients, cur, todo, fanned, span, enqueued, writer, held, send, written>>
      /\ hubPc' = "select" <=> hubPc = "select"
  BY DEF Receive, Broadcast, Connect, PeerStalls, PeerResumes, PeerLost, SetSock, ReaderFails,
         ReaderCloses, HubOverflows
<1>2. \/ handler' = handler
      \/ \E c \in Clients : handler[c] = "idle" /\ handler' = [handler EXCEPT ![c] = "registering"]
  BY DEF Receive, Broadcast, Connect, PeerStalls, PeerResumes, PeerLost, SetSock, ReaderFails,
         ReaderCloses, HubOverflows
<1>3. \A c \in Clients : handler'[c] = "returned" <=> handler[c] = "returned"
  BY <1>2 DEF HubInv, TypeOK
<1>4. WriterInv'
  BY <1>1, WriterInvFrame
<1> QED
  BY <1>1, <1>3, <1>4, RunFrame

\* The write goroutine moves a message from Send to its hand to the socket,
\* and drops what it holds only when it ends.
LEMMA WriterFeed ==
  ASSUME HubInv, FeedInv, NEW c \in Clients, WriterStep(c)
  PROVE  FeedInv'
<1> USE DEF hubVars, chanVars, goVars, sendVars, histVars
<1> DEFINE w == written[c]
           s == send[c]
           e == enqueued[c]
<1>1. UNCHANGED <<clients, hubPc, cur, todo, fanned, span, enqueued, handler>>
  BY DEF WriterStep, WriterTakes, WriterPings, WriteReturns, WriterEnds, WriterCloses
<1>2. handler[c] = "returned"
  BY DEF WriterStep, WriterTakes, WriterPings, WriteReturns, WriterEnds, WriterCloses,
         HubInv, FreshInv
<1>3. \A x \in Clients \ {c} : /\ writer'[x] = writer[x] /\ held'[x] = held[x]
                               /\ send'[x] = send[x] /\ written'[x] = written[x]
  BY DEF WriterStep, WriterTakes, WriterPings, WriteReturns, WriterEnds, WriterCloses,
         HubInv, TypeOK
<1>4. w \in Seq(Msg) /\ s \in Seq(Msg) /\ e \in Seq(Msg) /\ held[c] \in Msg \union {NoMsg}
  BY DEF HubInv, TypeOK
<1>5. WriterOK(c)
  BY DEF FeedInv, WriterInv
<1>6. WriterOK(c)'
  <2>1. CASE WriterTakes(c)
    <3>1. /\ writer[c] = "select" /\ s /= <<>> /\ writer'[c] = "writing"
          /\ held'[c] = Head(s) /\ send'[c] = Tail(s) /\ written'[c] = w /\ enqueued'[c] = e
      BY <2>1 DEF WriterTakes, HubInv, TypeOK
    <3>2. w \o <<>> \o s = e
      BY <1>5, <3>1 DEF WriterOK, InHand
    <3>3. w \o <<Head(s)>> \o Tail(s) = e
      BY <1>4, <3>1, <3>2, TakeHead
    <3>4. Head(s) /= NoMsg
      BY <1>4, <3>1, NoMsgAssumption, HeadTailProperties
    <3> HIDE DEF w, s, e
    <3>5. Len(w) <= Len(e) /\ w = SubSeq(e, 1, Len(w))
      BY <1>5 DEF WriterOK, w, e
    <3> QED
      BY <3>1, <3>3, <3>4, <3>5 DEF WriterOK, InHand
  <2>2. CASE WriterPings(c)
    <3>1. /\ writer[c] = "select" /\ writer'[c] = "writing" /\ held'[c] = held[c]
          /\ send'[c] = s /\ written'[c] = w /\ enqueued'[c] = e
      BY <2>2 DEF WriterPings, HubInv, TypeOK
    <3> QED
      BY <1>5, <3>1 DEF WriterOK, InHand
  <2>3. CASE WriteReturns(c)
    <3>1. /\ writer[c] = "writing" /\ writer'[c] = "select" /\ held'[c] = NoMsg
          /\ send'[c] = s /\ enqueued'[c] = e
          /\ written'[c] = IF held[c] = NoMsg THEN w ELSE Append(w, held[c])
      BY <2>3 DEF WriteReturns, HubInv, TypeOK
    <3>2. CASE held[c] = NoMsg
      BY <1>5, <3>1, <3>2 DEF WriterOK, InHand
    <3>3. CASE held[c] /= NoMsg
      <4>1. held[c] \in Msg /\ w \o <<held[c]>> \o s = e
        BY <1>4, <1>5, <3>1, <3>3 DEF WriterOK, InHand
      <4> DEFINE v == Append(w, held[c])
      <4>2. v \in Seq(Msg) /\ v \o <<>> \o s = e
        <5>1. v \in Seq(Msg)
          BY <1>4, <4>1, AppendProperties
        <5>2. w \o <<held[c]>> \o s = v \o <<>> \o s
          BY <1>4, <4>1, WriteOne
        <5> QED
          BY <4>1, <5>1, <5>2
      <4>3. v \o <<>> = v
        BY <4>2, ConcatEmptySeq
      <4>4. Len(v) <= Len(e) /\ v = SubSeq(e, 1, Len(v))
        BY <1>4, <4>2, <4>3, PrefixOfConcat
      <4> HIDE DEF v
      <4> QED
        BY <3>1, <3>3, <4>2, <4>4 DEF WriterOK, InHand, v
    <3> QED
      BY <3>2, <3>3
  <2>4. CASE WriterEnds(c) \/ WriterCloses(c)
    <3>1. /\ writer'[c] \in {"unregister", "done"} /\ held'[c] = NoMsg
          /\ send'[c] = s /\ written'[c] = w /\ enqueued'[c] = e
      BY <1>5, <2>4 DEF WriterEnds, WriterCloses, WriterOK, HubInv, TypeOK
    <3> QED
      BY <1>5, <3>1 DEF WriterOK
  <2> QED
    BY <2>1, <2>2, <2>3, <2>4 DEF WriterStep
<1>7. WriterInv'
  BY <1>1, <1>3, <1>6, WriterFrame DEF FeedInv, WriterInv
<1> QED
  BY <1>1, <1>2, <1>3, <1>7, RunFrame

\* Register: the feed of a client starts empty, after everything Run has taken.
LEMMA RegisterFeed ==
  ASSUME HubInv, FeedInv, NEW c \in Clients, HubRegister(c)
  PROVE  FeedInv'
<1> USE DEF chanVars, sendVars
<1>1. /\ handler[c] = "registering" /\ hubPc = "select" /\ todo = {}
      /\ clients' = [clients EXCEPT ![CompanyOf[c]] = @ \union {c}]
      /\ handler' = [handler EXCEPT ![c] = "returned"]
      /\ writer' = [writer EXCEPT ![c] = "select"]
      /\ span' = [span EXCEPT ![c] = [from |-> Len(fanned), to |-> Len(fanned)]]
      /\ UNCHANGED <<hubPc, cur, todo, held, send, fanned, enqueued, written>>
  BY DEF HubRegister, FeedInv, LoopInv, LastInv
<1>2. CompanyOf \in [Clients -> Companies] /\ CompanyOf[c] \in Companies
  BY HubAssumption
<1>3. /\ written[c] = <<>> /\ send[c] = <<>> /\ enqueued[c] = <<>> /\ held[c] = NoMsg
      /\ writer[c] = "none"
  BY <1>1 DEF FeedInv, StartInv, HubInv, FreshInv
<1>4. clients \in [Companies -> SUBSET Clients] /\ span \in [Clients -> [from : Nat, to : Nat]]
      /\ fanned \in Seq(Msg) /\ Len(fanned) \in Nat 
      /\ handler \in [Clients -> {"idle", "registering", "returned"}]
      /\ writer \in [Clients -> {"none", "select", "writing", "unregister", "close", "done"}]
  BY DEF HubInv, TypeOK
<1>5. StartInv'
  BY <1>1, <1>2, <1>4 DEF FeedInv, StartInv
<1>6. WriterInv'
  <2> SUFFICES ASSUME NEW x \in Clients PROVE WriterOK(x)'
    BY DEF WriterInv
  <2>1. WriterOK(x)
    BY DEF FeedInv, WriterInv
  <2>2. CASE x = c
    BY <1>1, <1>3, <1>4, <2>1, <2>2 DEF WriterOK, InHand
  <2>3. CASE x /= c
    BY <1>1, <1>4, <2>1, <2>3, WriterFrame
  <2> QED
    BY <2>2, <2>3
<1>7. \A x \in Clients \ {c} : Registered(x)' <=> Registered(x)
  BY <1>1, <1>2, <1>4 DEF Registered
<1>8. LoopInv'
  BY <1>1, <1>4, <1>7 DEF FeedInv, LoopInv, LastInv
<1>9. FeedComplete'
  <2> SUFFICES ASSUME NEW x \in Clients, handler'[x] = "returned" PROVE Fed(x)'
    BY DEF FeedComplete
  <2>1. CASE x = c
    <3>1. Registered(c)'
      BY <1>1, <1>2, <1>4 DEF Registered
    <3>2. span'[c].from = Len(fanned) /\ LastDue(c)' = Len(fanned)
      BY <1>1, <1>4, <3>1 DEF LastDue
    <3>3. Due(c)' = {}
      BY <1>1, <1>4, <3>2 DEF Due
    <3>4. enqueued'[c] = <<>> /\ 1..Len(enqueued'[c]) = {}
      BY <1>1, <1>3
    <3>5. [n \in {} |-> n] \in [1..Len(enqueued'[c]) -> Due(c)']
      BY <3>4
    <3> QED
      BY <2>1, <3>3, <3>4, <3>5 DEF Fed
  <2>2. CASE x /= c
    <3>1. handler[x] = "returned" /\ span'[x] = span[x]
      BY <1>1, <1>4, <2>2
    <3>2. Fed(x)
      BY <3>1 DEF FeedInv, FeedComplete
    <3>3. Due(x)' = Due(x)
      BY <1>1, <1>7, <2>2, <3>1 DEF Due, LastDue
    <3> QED
      BY <1>1, <3>2, <3>3, FedFrame
  <2> QED
    BY <2>1, <2>2
<1> QED
  BY <1>5, <1>6, <1>8, <1>9 DEF FeedInv

\* Unregister: the feed ends with everything Run has taken so far.
LEMMA UnregisterFeed ==
  ASSUME HubInv, FeedInv, NEW c \in Clients, HubUnregisterReader(c) \/ HubUnregisterWriter(c)
  PROVE  FeedInv'
<1>1. /\ hubPc = "select" /\ todo = {}
      /\ UNCHANGED <<hubPc, cur, todo, handler, held, send, fanned, enqueued, written>>
  BY DEF HubUnregisterReader, HubUnregisterWriter, FeedInv, LoopInv, LastInv
<1>2. \/ writer' = writer
      \/ writer[c] = "unregister" /\ writer' = [writer EXCEPT ![c] = "close"]
  BY DEF HubUnregisterReader, HubUnregisterWriter
<1>3. \/ UNCHANGED <<clients, span>>
      \/ /\ Registered(c)
         /\ clients' = [clients EXCEPT ![CompanyOf[c]] = clients[CompanyOf[c]] \ {c}]
         /\ span' = [span EXCEPT ![c] = [from |-> span[c].from, to |-> Len(fanned)]]
  BY DEF HubUnregisterReader, HubUnregisterWriter, Remove, Registered
<1>4. clients \in [Companies -> SUBSET Clients] /\ span \in [Clients -> [from : Nat, to : Nat]]
      /\ fanned \in Seq(Msg) /\ Len(fanned) \in Nat
      /\ writer \in [Clients -> {"none", "select", "writing", "unregister", "close", "done"}]
      /\ CompanyOf \in [Clients -> Companies]
  BY HubAssumption DEF HubInv, TypeOK
<1>5. StartInv'
  <2>1. \A co \in Companies : clients'[co] \subseteq clients[co]
    BY <1>3, <1>4
  <2> QED
    BY <1>1, <2>1 DEF FeedInv, StartInv
<1>6. WriterInv'
  <2> SUFFICES ASSUME NEW x \in Clients PROVE WriterOK(x)'
    BY DEF WriterInv
  <2>1. WriterOK(x)
    BY DEF FeedInv, WriterInv
  <2>2. \/ writer'[x] = writer[x]
        \/ writer[x] = "unregister" /\ writer'[x] = "close"
    BY <1>2, <1>4
  <2> QED
    BY <1>1, <2>1, <2>2 DEF WriterOK, InHand
<1>7. \A x \in Clients :
        /\ Registered(x)' => Registered(x)
        /\ span'[x].from = span[x].from
        /\ span'[x].to = IF Registered(x) /\ ~Registered(x)' THEN Len(fanned) ELSE span[x].to
  <2> TAKE x \in Clients
  <2>1. CASE UNCHANGED <<clients, span>>
    BY <2>1 DEF Registered
  <2>2. CASE /\ Registered(c)
             /\ clients' = [clients EXCEPT ![CompanyOf[c]] = clients[CompanyOf[c]] \ {c}]
             /\ span' = [span EXCEPT ![c] = [from |-> span[c].from, to |-> Len(fanned)]]
    <3>1. CASE x = c
      BY <1>4, <2>2, <3>1 DEF Registered
    <3>2. CASE x /= c
      BY <1>4, <2>2, <3>2 DEF Registered
    <3> QED
      BY <3>1, <3>2
  <2> QED
    BY <1>3, <2>1, <2>2
<1>8. LoopInv'
  <2>1. \A x \in Clients : Registered(x)' => span'[x].from <= Len(fanned)
    BY <1>7 DEF FeedInv, LoopInv, LastInv
  <2>2. \A x \in Clients : span'[x].to <= Len(fanned)
    <3> SUFFICES ASSUME NEW x \in Clients PROVE span'[x].to <= Len(fanned)
      OBVIOUS
    <3>1. span[x].to <= Len(fanned)
      BY DEF FeedInv, LoopInv, LastInv
    <3>2. span'[x].to = Len(fanned) \/ span'[x].to = span[x].to
      BY <1>7
    <3> QED
      BY <1>4, <3>1, <3>2
  <2> QED
    BY <1>1, <2>1, <2>2 DEF FeedInv, LoopInv, LastInv
<1>9. FeedComplete'
  <2> SUFFICES ASSUME NEW x \in Clients, handler'[x] = "returned" PROVE Fed(x)'
    BY DEF FeedComplete
  <2>1. Fed(x)
    BY <1>1 DEF FeedInv, FeedComplete
  <2>2. span'[x].from = span[x].from /\ LastDue(x)' = LastDue(x)
    BY <1>1, <1>4, <1>7 DEF LastDue
  <2>3. Due(x)' = Due(x)
    BY <1>1, <2>2 DEF Due
  <2> QED
    BY <1>1, <2>1, <2>3, FedFrame
<1> QED
  BY <1>5, <1>6, <1>8, <1>9 DEF FeedInv

\* Broadcast: what Run takes is due to the clients it goes on to visit, and
\* to no other that is registered.
LEMMA TakenFeed ==
  ASSUME HubInv, FeedInv, HubSkips \/ HubFansOut
  PROVE  FeedInv'
<1> USE DEF hubVars, goVars, sendVars
<1> DEFINE m == Head(broadcast)
<1>1. /\ hubPc = "select" /\ todo = {} /\ broadcast /= <<>>
      /\ todo' = clients[m.event.company]
      /\ fanned' = Append(fanned, m)
      /\ UNCHANGED <<clients, handler, writer, held, send, span, enqueued, written>>
      /\ hubPc' = "select" => todo' = {}
      /\ hubPc' /= "select" => cur' = m
  BY DEF HubSkips, HubFansOut, Audience, FeedInv, LoopInv, LastInv
<1>2. m \in Msg /\ m.event.company \in Companies
  BY <1>1, MsgFields, HeadTailProperties DEF HubInv, TypeOK
<1>3. /\ fanned \in Seq(Msg) /\ Len(fanned) \in Nat /\ CompanyOf \in [Clients -> Companies]
      /\ span \in [Clients -> [from : Nat, to : Nat]]
  BY HubAssumption DEF HubInv, TypeOK
<1> HIDE DEF m
<1>4. /\ Len(fanned') = Len(fanned) + 1 /\ fanned'[Len(fanned')] = m
      /\ \A n \in 1..Len(fanned) : fanned'[n] = fanned[n]
  BY <1>1, <1>2, <1>3, AppendProperties
<1>5. \A x \in Clients : x \in todo' <=> Registered(x) /\ CompanyOf[x] = m.event.company
  BY <1>1, <1>2 DEF Registered, HubInv, RegistryInv
<1>6. StartInv' /\ WriterInv'
  BY <1>1, WriterInvFrame DEF FeedInv, StartInv
<1>7. LoopInv'
  <2>1. \A x \in Clients : /\ Registered(x)' => span'[x].from <= Len(fanned')
                           /\ x \in todo' => span'[x].from < Len(fanned')
                           /\ span'[x].to <= Len(fanned')
    BY <1>1, <1>3, <1>4, <1>5 DEF FeedInv, LoopInv, LastInv, Registered
  <2> QED
    <3>1. LastInv'
      BY <1>1, <1>3, <1>4 DEF LastInv
    <3>2. hubPc' = "select" => todo' = {}
      BY <1>1
    <3> QED
      BY <2>1, <3>1, <3>2 DEF LoopInv
<1>8. FeedComplete'
  <2> SUFFICES ASSUME NEW x \in Clients, handler'[x] = "returned" PROVE Fed(x)'
    BY DEF FeedComplete
  <2>1. Fed(x) /\ span[x].to <= Len(fanned) /\ span[x].from \in Nat /\ span[x].to \in Nat
    BY <1>1, <1>3 DEF FeedInv, FeedComplete, LoopInv, LastInv
  <2>2. Due(x) \subseteq 1..Len(fanned)
    BY <1>1, <1>3, <2>1 DEF Due, LastDue
  <2>3. Due(x)' = Due(x)
    <3>1. CASE x \in todo'
      <4>1. LastDue(x)' = Len(fanned) /\ LastDue(x) = Len(fanned)
        BY <1>1, <1>3, <1>4, <1>5, <3>1 DEF LastDue, Registered
      <4> QED
        BY <1>1, <1>3, <1>4, <2>1, <4>1 DEF Due
    <3>2. CASE x \notin todo' /\ Registered(x)
      <4>1. LastDue(x)' = Len(fanned) + 1 /\ LastDue(x) = Len(fanned)
        BY <1>1, <1>3, <1>4, <3>2 DEF LastDue, Registered
      <4>2. fanned'[Len(fanned) + 1].event.company /= CompanyOf[x]
        BY <1>4, <1>5, <3>2
      <4>3. \A n \in span[x].from + 1 .. Len(fanned) + 1 :
               n = Len(fanned) + 1 \/ (n \in span[x].from + 1 .. Len(fanned) /\ n \in 1..Len(fanned))
        BY <1>3, <2>1
      <4> QED
        BY <1>1, <1>3, <1>4, <2>1, <4>1, <4>2, <4>3 DEF Due
    <3>3. CASE ~Registered(x)
      <4>1. LastDue(x)' = span[x].to /\ LastDue(x) = span[x].to
        BY <1>1, <3>3 DEF LastDue, Registered
      <4> QED
        BY <1>1, <1>3, <1>4, <2>1, <4>1 DEF Due
    <3> QED
      BY <3>1, <3>2, <3>3
  <2> QED
    BY <1>1, <1>4, <2>1, <2>2, <2>3, FedFrame
<1> QED
  BY <1>6, <1>7, <1>8 DEF FeedInv

\* A visit of the loop: the message becomes due to the client and is put
\* last in its Send.
LEMMA SendFeed ==
  ASSUME HubInv, FeedInv, NEW c \in Clients, HubSends(c)
  PROVE  FeedInv'
<1> USE DEF chanVars, goVars
<1> DEFINE N == Len(fanned)
           e == enqueued[c]
<1>1. /\ hubPc = "fanout" /\ c \in todo /\ todo' = todo \ {c}
      /\ send' = [send EXCEPT ![c] = Append(send[c], cur)]
      /\ enqueued' = [enqueued EXCEPT ![c] = Append(e, cur)]
      /\ hubPc' = "select" => todo' = {}
      /\ hubPc' /= "select" => cur' = cur
      /\ UNCHANGED <<clients, handler, writer, held, fanned, span, written>>
  BY DEF HubSends
<1>2. /\ cur \in Msg /\ cur.event.company \in Companies /\ c \in clients[cur.event.company]
      /\ cur.event.company = CompanyOf[c] /\ Registered(c) /\ handler[c] = "returned"
  BY <1>1, MsgFields DEF HubInv, FanoutInv, RegistryInv, FeedInv, StartInv, Registered
<1>3. /\ fanned \in Seq(Msg) /\ N \in Nat /\ N > 0 /\ fanned[N] = cur /\ span[c].from < N
      /\ span \in [Clients -> [from : Nat, to : Nat]]
  BY <1>1 DEF HubInv, TypeOK, FeedInv, LoopInv, LastInv
<1>4. /\ written[c] \in Seq(Msg) /\ send[c] \in Seq(Msg) /\ e \in Seq(Msg)
      /\ send \in [Clients -> Seq(Msg)] /\ enqueued \in [Clients -> Seq(Msg)]
      /\ held[c] \in Msg \union {NoMsg}
  BY DEF HubInv, TypeOK
<1>5. StartInv'
  <2>1. \A x \in Clients : handler'[x] /= "returned" => enqueued'[x] = enqueued[x] /\ send'[x] = send[x]
    BY <1>1, <1>2, <1>4
  <2> QED
    BY <1>1, <2>1 DEF FeedInv, StartInv
<1>6. WriterInv'
  <2> SUFFICES ASSUME NEW x \in Clients PROVE WriterOK(x)'
    BY DEF WriterInv
  <2>1. WriterOK(x)
    BY DEF FeedInv, WriterInv
  <2>2. CASE x /= c
    BY <1>1, <1>4, <2>1, <2>2, WriterFrame
  <2>3. CASE x = c
    <3>1. /\ enqueued'[c] = Append(e, cur) /\ send'[c] = Append(send[c], cur)
          /\ written'[c] = written[c] /\ InHand(c)' = InHand(c) /\ InHand(c) \in Seq(Msg)
      BY <1>1, <1>4 DEF InHand
    <3>2. /\ Len(written[c]) <= Len(Append(e, cur))
          /\ written[c] = SubSeq(Append(e, cur), 1, Len(written[c]))
      BY <1>2, <1>4, <2>1, <2>3, PrefixOfAppend DEF WriterOK
    <3>3. written[c] \o InHand(c) \o Append(send[c], cur)
            = Append(written[c] \o InHand(c) \o send[c], cur)
      <4> DEFINE h == InHand(c)
                 w == written[c]
                 s == send[c]
      <4>1. h \in Seq(Msg) /\ w \in Seq(Msg) /\ s \in Seq(Msg) /\ cur \in Msg
        BY <1>2, <1>4, <3>1
      <4> HIDE DEF h, w, s
      <4>2. w \o h \o Append(s, cur) = Append(w \o h \o s, cur)
        BY <4>1, PutLast
      <4> QED
        BY <4>2 DEF h, w, s
    <3> HIDE DEF e
    <3> QED
      BY <1>1, <2>1, <2>3, <3>1, <3>2, <3>3 DEF WriterOK, e
  <2> QED
    BY <2>2, <2>3
<1>7. LoopInv'
  BY <1>1 DEF FeedInv, LoopInv, LastInv, Registered
<1>8. FeedComplete'
  <2> SUFFICES ASSUME NEW x \in Clients, handler'[x] = "returned" PROVE Fed(x)'
    BY DEF FeedComplete
  <2>1. Fed(x)
    BY <1>1 DEF FeedInv, FeedComplete
  <2>2. CASE x /= c
    <3>1. enqueued'[x] = enqueued[x] /\ Due(x)' = Due(x)
      BY <1>1, <1>4, <2>2 DEF Due, LastDue, Registered
    <3> QED
      BY <1>1, <2>1, <3>1, FedFrame
  <2>3. CASE x = c
    <3> DEFINE sent == 1..Len(e)
    <3>1. PICK place \in [sent -> Due(c)] :
             /\ \A i, j \in sent : i < j => place[i] < place[j]
             /\ \A n \in Due(c) : \E i \in sent : place[i] = n
             /\ \A i \in sent : e[i] = fanned[place[i]]
      BY <2>1, <2>3 DEF Fed
    <3>2. LastDue(c) = N - 1 /\ LastDue(c)' = N
      BY <1>1, <1>2, <1>3 DEF LastDue, Registered
    <3>3. Due(c) \subseteq 1 .. N - 1
      BY <1>3, <3>2 DEF Due
    <3>4. Due(c)' = Due(c) \union {N}
      BY <1>1, <1>2, <1>3, <3>2 DEF Due
    <3>5. /\ enqueued'[c] = Append(e, cur) /\ Len(Append(e, cur)) = Len(e) + 1
          /\ Len(e) \in Nat /\ Append(e, cur)[Len(e) + 1] = cur
          /\ \A i \in sent : Append(e, cur)[i] = e[i]
      BY <1>1, <1>2, <1>4, AppendProperties
    <3> DEFINE to == [i \in 1 .. Len(e) + 1 |-> IF i \in sent THEN place[i] ELSE N]
    <3> HIDE DEF N, e
    <3>6. to \in [1 .. Len(e) + 1 -> Due(c)']
      BY <3>1, <3>4
    <3>7. /\ \A i \in sent : to[i] = place[i] /\ place[i] \in 1 .. N - 1
          /\ to[Len(e) + 1] = N /\ Len(e) + 1 \notin sent
      BY <3>1, <3>3, <3>5
    <3>8. \A i \in 1 .. Len(e) + 1 : i \in sent \/ i = Len(e) + 1
      BY <3>5
    <3> HIDE DEF to
    <3>9. \A i, j \in 1 .. Len(e) + 1 : i < j => to[i] < to[j]
      BY <1>3, <3>1, <3>5, <3>7, <3>8
    <3>10. \A n \in Due(c)' : \E i \in 1 .. Len(e) + 1 : to[i] = n
      BY <3>1, <3>4, <3>5, <3>7
    <3>11. \A i \in 1 .. Len(e) + 1 : enqueued'[c][i] = fanned'[to[i]]
      BY <1>1, <1>3, <3>1, <3>5, <3>7, <3>8
    <3> QED
      BY <2>3, <3>5, <3>6, <3>9, <3>10, <3>11 DEF Fed
  <2> QED
    BY <2>2, <2>3
<1> QED
  BY <1>5, <1>6, <1>7, <1>8 DEF FeedInv

LEMMA NextFeedInv == HubInv /\ FeedInv /\ [Next]_vars => FeedInv'
<1> SUFFICES ASSUME HubInv, FeedInv, [Next]_vars PROVE FeedInv'
  OBVIOUS
<1>1. CASE UNCHANGED vars
  <2>1. WriterInv'
    BY <1>1, WriterInvFrame DEF vars, goVars, sendVars, histVars
  <2> QED
    BY <1>1, <2>1, RunFrame DEF vars, hubVars, goVars, sendVars, histVars
<1>2. CASE HubStep
  BY <1>2, RegisterFeed, UnregisterFeed, TakenFeed, SendFeed, OthersFeed
     DEF HubStep, HubServes, HubDelivers
<1> QED
  BY <1>1, <1>2, OthersFeed, WriterFeed DEF Next

\* What the feeds rest on holds of every behaviour of the hub.
THEOREM FeedInvariant == Spec => []FeedInv
BY InitFeedInv, NextFeedInv, HubInvariant, PTL DEF Spec

\* A client is handed every event of its company that Run took while it was
\* registered, once each and in Run's order, whatever the other clients do
\* (hub.go, Run).
THEOREM FeedsAreComplete == Spec => []FeedComplete
<1>1. FeedInv => FeedComplete
  BY DEF FeedInv
<1> QED
  BY <1>1, FeedInvariant, PTL

\* The write goroutine neither loses nor reorders what is in Send while it
\* lives, and a browser always holds a prefix of its feed (handlers_ops.go,
\* wsTrackingHandler).
THEOREM FeedsStayInOrder == Spec => []FeedInOrder
<1>1. FeedInv => FeedInOrder
  BY DEF FeedInv, WriterInv, WriterOK, InHand, FeedInOrder
<1> QED
  BY <1>1, FeedInvariant, PTL
================================================================================
