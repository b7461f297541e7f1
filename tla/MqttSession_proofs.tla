------------------------- MODULE MqttSession_proofs -------------------------
(***************************************************************************)
(* Commands over the MQTT session, for any number of devices, requests and *)
(* connections: what goes out and in which order, and how a device ends    *)
(* whose two requests were mixed.                                          *)
(*                                                                         *)
(* What it rests on: the commands of a request that are taken or on the    *)
(* wire are in the order of the route, none twice; and who was answered    *)
(* before another began has its packets on the wire before the other's.    *)
(***************************************************************************)
EXTENDS MqttSession, SequenceTheorems, TLAPS

Packets == ({"subscribe"} \X Topics) \cup ({"publish"} \X Requests \X Nat)

ReqState ==
  [at : RequestPhase, route : Routes \cup {None}, next : Nat \ {0}, since : Nat,
   after : SUBSET Requests]

SessionTyped ==
  /\ client \in {"disconnected", "connecting", "up", "reconnecting"}
  /\ epoch \in 0 .. MaxConnections
  /\ hook \in [Connections -> {"off", "telemetry", "notification", "done"}]
  /\ subs \subseteq Topics /\ refused \subseteq Topics
  /\ wire \in Seq(Packets)
  /\ req \in [Requests -> ReqState]
  /\ taken \in [Requests -> Seq(Nat)]
  /\ settings = [d \in Devices |-> settings[d]]

Linked ==
  /\ \A k \in Connections : hook[k] = "off" <=> k > epoch
  /\ client # "up" => wire = <<>> /\ refused = {}
  /\ client = "up" => epoch > 0

(* Where a request stands among its commands.                              *)
Placed ==
  \A r \in Requests :
    /\ req[r].at = "idle" => req[r].next = 1 /\ Published(r) = {} /\ req[r].after = {}
    /\ req[r].at # "idle" => req[r].route \in Routes /\ req[r].next <= Len(Commands(r)) + 1
    /\ req[r].at = "waiting" => req[r].next <= Len(Commands(r))
    /\ req[r].since <= epoch

Sent(r) == IF req[r].at = "waiting" THEN req[r].next ELSE req[r].next - 1

(* A request that is cut may have been waiting.                            *)
Within ==
  \A r \in Requests : \A i \in Published(r) :
    /\ i \in 1 .. Len(Commands(r))
    /\ i <= IF req[r].at = "cut" THEN req[r].next ELSE Sent(r)

Ordered == \A r \in Requests : InOrder(r)

SessionInv == SessionTyped /\ Linked /\ Placed /\ Within /\ Ordered

-----------------------------------------------------------------------------
(* The routes send nothing, one command, or the mode and stage 0.          *)
LEMMA RouteCommands ==
  ASSUME NEW q
  PROVE  \/ CommandsOf(q) = <<>>
         \/ \E m, v : CommandsOf(q) = <<Command(m, v)>>
         \/ CommandsOf(q) = ModeCommands(q.value)
<1>1. CASE q.value = None
  BY <1>1 DEF CommandsOf
<1>2. CASE q.value # None /\ q.route \in {"fan", "motor", "heater"}
  BY <1>2 DEF CommandsOf, DeviceControl
<1>3. CASE q.value # None /\ q.route = "mode"
  BY <1>3 DEF CommandsOf
<1>4. CASE q.value # None /\ q.route = "set-stage"
  BY <1>4 DEF CommandsOf, StageCommands
<1>5. CASE q.value # None /\ q.route = "threshold/admin"
  BY <1>5 DEF CommandsOf, ThresholdAdminCommands
<1>6. CASE q.value # None /\ q.route = "update-firmware"
  BY <1>6 DEF CommandsOf, FirmwareCommands
<1>7. CASE /\ q.value # None
           /\ q.route \notin {"fan", "motor", "heater", "mode", "set-stage", "threshold/admin",
                              "update-firmware"}
  BY <1>7 DEF CommandsOf, PlainCommands
<1> QED
  BY <1>1, <1>2, <1>3, <1>4, <1>5, <1>6, <1>7

LEMMA CommandsCounted ==
  ASSUME NEW q
  PROVE  Len(CommandsOf(q)) \in Nat /\ DOMAIN CommandsOf(q) = 1 .. Len(CommandsOf(q))
<1>1. CASE CommandsOf(q) = <<>>
  BY <1>1
<1>2. CASE \E m, v : CommandsOf(q) = <<Command(m, v)>>
  BY <1>2
<1>3. CASE CommandsOf(q) = ModeCommands(q.value)
  BY <1>3 DEF ModeCommands
<1> QED
  BY <1>1, <1>2, <1>3, RouteCommands

-----------------------------------------------------------------------------
(* The wire.                                                               *)
LEMMA PacketKinds ==
  /\ \A p \in Packets : p[1] \in {"subscribe", "publish"}
  /\ \A p \in Packets : p[1] = "subscribe" => p[2] \in Topics
  /\ \A p \in Packets : p[1] = "publish" => p[2] \in Requests /\ p[3] \in Nat
  /\ \A t \in Topics : <<"subscribe", t>> \in Packets
  /\ \A r \in Requests, i \in Nat : <<"publish", r, i>> \in Packets
BY DEF Packets

LEMMA WireAppended ==
  ASSUME wire \in Seq(Packets), NEW pk \in Packets, wire' = Append(wire, pk)
  PROVE  /\ wire' \in Seq(Packets)
         /\ \A r : OnWire(r)' = OnWire(r) \cup
              (IF pk[1] = "publish" /\ pk[2] = r THEN {Len(wire) + 1} ELSE {})
         /\ \A p \in 1 .. Len(wire) : wire'[p] = wire[p]
         /\ wire'[Len(wire) + 1] = pk
         /\ \A r : OnWire(r) \subseteq 1 .. Len(wire)
<1>1. /\ wire' \in Seq(Packets) /\ Len(wire) \in Nat
      /\ DOMAIN wire = 1 .. Len(wire) /\ DOMAIN wire' = 1 .. Len(wire) + 1
      /\ \A p \in 1 .. Len(wire) : wire'[p] = wire[p]
      /\ wire'[Len(wire) + 1] = pk
  BY AppendProperties
<1>2. \A p \in 1 .. Len(wire) + 1 : p \in 1 .. Len(wire) \/ p = Len(wire) + 1
  BY <1>1
<1>3. \A p \in 1 .. Len(wire) : p \in 1 .. Len(wire) + 1
  BY <1>1
<1>4. Len(wire) + 1 \in 1 .. Len(wire) + 1
  BY <1>1
<1>5. ASSUME NEW r
      PROVE  OnWire(r)' = OnWire(r) \cup
               (IF pk[1] = "publish" /\ pk[2] = r THEN {Len(wire) + 1} ELSE {})
  BY <1>1, <1>2, <1>3, <1>4 DEF OnWire
<1> QED
  BY <1>1, <1>5 DEF OnWire

LEMMA WireTaken ==
  ASSUME wire \in Seq(Packets), wire # <<>>, wire' = Tail(wire)
  PROVE  /\ wire' \in Seq(Packets)
         /\ \A r : OnWire(r) \subseteq 1 .. Len(wire) /\ OnWire(r)' \subseteq 1 .. Len(wire) - 1
         /\ \A r : \A p : p \in OnWire(r)' => p + 1 \in OnWire(r) /\ wire'[p] = wire[p + 1]
         /\ \A r : \A p \in OnWire(r) :
              p = 1 \/ (p - 1 \in OnWire(r)' /\ wire'[p - 1] = wire[p])
         /\ Head(wire) = wire[1] /\ wire[1] \in Packets /\ Len(wire) \in Nat \ {0}
<1>1. /\ wire' \in Seq(Packets) /\ Len(wire) \in Nat \ {0} /\ DOMAIN wire = 1 .. Len(wire)
      /\ DOMAIN wire' = 1 .. Len(wire) - 1 /\ Head(wire) = wire[1] /\ wire[1] \in Packets
      /\ \A p \in 1 .. Len(wire) - 1 : wire'[p] = wire[p + 1]
  OBVIOUS
<1>2. \A p \in 1 .. Len(wire) - 1 : p + 1 \in 1 .. Len(wire)
  BY <1>1
<1>3. \A p \in 1 .. Len(wire) : p = 1 \/ (p - 1 \in 1 .. Len(wire) - 1 /\ (p - 1) + 1 = p)
  BY <1>1
<1> QED
  BY <1>1, <1>2, <1>3 DEF OnWire

(* Where neither the wire nor what is taken changes, nor what is asked.    *)
LEMMA TrafficStands ==
  ASSUME wire' = wire, taken' = taken
  PROVE  \A r : OnWire(r)' = OnWire(r) /\ Published(r)' = Published(r)
                /\ InOrder(r)' = InOrder(r)
BY DEF OnWire, Published, InOrder

(* A connection that breaks takes the packets with it.                     *)
LEMMA TrafficLost ==
  ASSUME SessionInv, wire' = <<>>, taken' = taken
  PROVE  \A r \in Requests :
           OnWire(r)' = {} /\ Published(r)' \subseteq Published(r) /\ InOrder(r)'
<1>1. DOMAIN wire' = {}
  OBVIOUS
<1>2. \A r : OnWire(r)' = {}
  BY <1>1 DEF OnWire
<1> QED
  BY <1>2 DEF SessionInv, Ordered, Published, InOrder

-----------------------------------------------------------------------------
(* A step that leaves the requests alone, and one that changes one.        *)
LEMMA RequestsKept ==
  ASSUME SessionInv, req' = req, epoch' \in Nat, epoch <= epoch',
         \A r \in Requests : Published(r)' \subseteq Published(r) /\ InOrder(r)'
  PROVE  Placed' /\ Within' /\ Ordered'
<1> USE DEF SessionInv
<1>1. \A r : Commands(r)' = Commands(r) /\ Sent(r)' = Sent(r)
  BY DEF Commands, Sent
<1>2. Ordered'
  BY DEF Ordered
<1>3. Within'
  BY <1>1 DEF Within
<1>4. \A r \in Requests : req[r].since \in Nat /\ epoch \in Nat
  BY SessionAssumption DEF SessionTyped, ReqState
<1>5. Placed'
  BY <1>1, <1>4 DEF Placed
<1> QED
  BY <1>2, <1>3, <1>5

LEMMA RequestChanged ==
  ASSUME SessionInv, NEW r \in Requests, NEW new \in ReqState,
         req' = [req EXCEPT ![r] = new], epoch' = epoch,
         new.at # "idle", new.route \in Routes, new.since <= epoch,
         new.next <= Len(CommandsOf(new.route)) + 1,
         new.at = "waiting" => new.next <= Len(CommandsOf(new.route)),
         \A s \in Requests \ {r} : Published(s)' = Published(s) /\ InOrder(s)',
         InOrder(r)',
         \A i \in Published(r)' :
           /\ i \in 1 .. Len(CommandsOf(new.route))
           /\ i <= IF new.at \in {"waiting", "cut"} THEN new.next ELSE new.next - 1
  PROVE  req' \in [Requests -> ReqState] /\ Placed' /\ Within' /\ Ordered'
<1> USE DEF SessionInv
<1>1. req \in [Requests -> ReqState]
  BY DEF SessionTyped
<1>2. /\ req' \in [Requests -> ReqState] /\ req'[r] = new
      /\ \A s \in Requests \ {r} : req'[s] = req[s]
  BY <1>1
<1>3. /\ \A s \in Requests \ {r} : Commands(s)' = Commands(s) /\ Sent(s)' = Sent(s)
      /\ Commands(r)' = CommandsOf(new.route)
      /\ Sent(r)' = IF new.at = "waiting" THEN new.next ELSE new.next - 1
  BY <1>2 DEF Commands, Sent
<1>4. Ordered'
  BY DEF Ordered
<1>5. Within'
  <2>1. ASSUME NEW s \in Requests \ {r}, NEW i \in Published(s)'
        PROVE  /\ i \in 1 .. Len(Commands(s)')
               /\ i <= IF req'[s].at = "cut" THEN req'[s].next ELSE Sent(s)'
    BY <1>2, <1>3, <2>1 DEF Within
  <2>2. ASSUME NEW i \in Published(r)'
        PROVE  /\ i \in 1 .. Len(Commands(r)')
               /\ i <= IF req'[r].at = "cut" THEN req'[r].next ELSE Sent(r)'
    BY <1>2, <1>3
  <2> QED
    BY <2>1, <2>2 DEF Within
<1>6. Placed'
  <2>1. ASSUME NEW s \in Requests \ {r}
        PROVE  /\ req'[s].at = "idle" =>
                    req'[s].next = 1 /\ Published(s)' = {} /\ req'[s].after = {}
               /\ req'[s].at # "idle" =>
                    req'[s].route \in Routes /\ req'[s].next <= Len(Commands(s)') + 1
               /\ req'[s].at = "waiting" => req'[s].next <= Len(Commands(s)')
               /\ req'[s].since <= epoch
    BY <1>2, <1>3 DEF Placed
  <2> QED
    BY <1>2, <1>3, <2>1 DEF Placed
<1> QED
  BY <1>2, <1>4, <1>5, <1>6

-----------------------------------------------------------------------------
LEMMA SessionInitInv ==
  ASSUME SessionInit
  PROVE  SessionInv
<1> USE DEF SessionInit
<1>1. /\ wire = <<>> /\ subs = {} /\ refused = {} /\ epoch = 0
      /\ client \in {"connecting", "disconnected"}
      /\ \A r \in Requests : req[r] = Idle /\ taken[r] = <<>>
      /\ \A k \in Connections : hook[k] = "off"
  OBVIOUS
<1>2. Idle \in ReqState /\ Idle.at = "idle" /\ Idle.next = 1 /\ Idle.since = 0 /\ Idle.after = {}
  BY DEF Idle, ReqState, RequestPhase
<1>3. SessionTyped
  <2>1. wire \in Seq(Packets) /\ <<>> \in Seq(Nat)
    OBVIOUS
  <2>2. epoch \in 0 .. MaxConnections
    BY SessionAssumption
  <2> QED
    BY <1>2, <2>1, <2>2 DEF SessionTyped
<1>4. Linked
  BY <1>1 DEF Linked, Connections
<1>5. \A r \in Requests : OnWire(r) = {} /\ Published(r) = {} /\ InOrder(r)
  <2>1. DOMAIN wire = {} /\ DOMAIN <<>> = {}
    BY <1>1
  <2>2. \A r \in Requests : OnWire(r) = {} /\ DOMAIN taken[r] = {}
    BY <1>1, <2>1 DEF OnWire
  <2> QED
    BY <2>2 DEF Published, InOrder, ToSet
<1> HIDE DEF SessionInit
<1>6. Placed /\ Within /\ Ordered
  BY <1>1, <1>2, <1>5 DEF Placed, Within, Ordered
<1> QED
  BY <1>3, <1>4, <1>6 DEF SessionInv

LEMMA ConnectInv ==
  ASSUME SessionInv, Connect
  PROVE  SessionInv'
<1> USE DEF SessionInv
<1>1. /\ wire' = wire /\ subs' = subs /\ refused' = refused /\ req' = req
      /\ taken' = taken /\ settings' = settings
      /\ client' = "up" /\ epoch' = epoch + 1 /\ epoch < MaxConnections
      /\ hook' = [hook EXCEPT ![epoch + 1] = "telemetry"]
      /\ client # "up"
  BY DEF Connect
<1>2. epoch \in Nat /\ MaxConnections \in Nat
  BY SessionAssumption DEF SessionTyped
<1>3. SessionTyped'
  <2>1. epoch' \in 0 .. MaxConnections
    BY <1>1, <1>2
  <2>2. hook' \in [Connections -> {"off", "telemetry", "notification", "done"}]
    BY <1>1 DEF SessionTyped
  <2> QED
    BY <1>1, <2>1, <2>2 DEF SessionTyped
<1>4. Linked'
  <2>1. \A k \in Connections : hook'[k] = IF k = epoch + 1 THEN "telemetry" ELSE hook[k]
    BY <1>1 DEF SessionTyped
  <2>2. \A k \in Connections : k > epoch + 1 <=> k > epoch /\ k # epoch + 1
    BY <1>2 DEF Connections
  <2>3. \A k \in Connections : hook'[k] = "off" <=> k > epoch + 1
    BY <2>1, <2>2 DEF Linked
  <2> QED
    BY <1>1, <1>2, <2>3 DEF Linked
<1>5. Placed' /\ Within' /\ Ordered'
  <2>1. \A r \in Requests : Published(r)' = Published(r) /\ InOrder(r)'
    BY <1>1, TrafficStands DEF Ordered
  <2> QED
    BY <1>1, <1>2, <2>1, RequestsKept
<1> QED
  BY <1>3, <1>4, <1>5

LEMMA ConnectionLostInv ==
  ASSUME SessionInv, ConnectionLost
  PROVE  SessionInv'
<1> USE DEF SessionInv
<1>1. /\ wire' = <<>> /\ subs' \in {subs, {}} /\ refused' = {} /\ req' = req /\ taken' = taken
      /\ settings' = settings /\ client' = "reconnecting" /\ epoch' = epoch /\ hook' = hook
  BY DEF ConnectionLost
<1>2. epoch \in Nat
  BY SessionAssumption DEF SessionTyped
<1>3. SessionTyped'
  <2>1. <<>> \in Seq(Packets)
    OBVIOUS
  <2> QED
    BY <1>1, <2>1 DEF SessionTyped
<1>4. Linked'
  BY <1>1 DEF Linked
<1>5. Placed' /\ Within' /\ Ordered'
  BY <1>1, <1>2, TrafficLost, RequestsKept
<1> QED
  BY <1>3, <1>4, <1>5

LEMMA RestartInv ==
  ASSUME SessionInv, Restart
  PROVE  SessionInv'
<1> USE DEF SessionInv
<1> DEFINE cut(r) == [req[r] EXCEPT !.at = "cut"]
<1>1. /\ wire' = <<>> /\ subs' = {} /\ refused' = {} /\ taken' = taken /\ settings' = settings
      /\ client' \in {"connecting", "disconnected"} /\ epoch' = epoch
      /\ hook' = [k \in Connections |-> IF k <= epoch THEN "done" ELSE "off"]
      /\ req' = [r \in Requests |-> IF req[r].at \in {"serving", "waiting"} THEN cut(r) ELSE req[r]]
  BY DEF Restart
<1>2. epoch \in Nat /\ req \in [Requests -> ReqState]
  BY SessionAssumption DEF SessionTyped
<1>3. \A r \in Requests :
        /\ cut(r) \in ReqState /\ cut(r).at = "cut" /\ cut(r).route = req[r].route
        /\ cut(r).next = req[r].next /\ cut(r).since = req[r].since
        /\ cut(r).after = req[r].after
  BY <1>2 DEF ReqState, RequestPhase
<1> HIDE DEF cut
<1>4. SessionTyped'
  <2>1. <<>> \in Seq(Packets)
    OBVIOUS
  <2>2. req' \in [Requests -> ReqState]
    BY <1>1, <1>2, <1>3
  <2> QED
    BY <1>1, <2>1, <2>2 DEF SessionTyped
<1>5. Linked'
  <2>1. \A k \in Connections : k <= epoch <=> ~(k > epoch)
    BY <1>2 DEF Connections
  <2> QED
    BY <1>1, <2>1 DEF Linked
<1>6. \A r \in Requests :
        /\ req'[r].at = IF req[r].at \in {"serving", "waiting"} THEN "cut" ELSE req[r].at
        /\ req'[r].route = req[r].route /\ req'[r].next = req[r].next
        /\ req'[r].since = req[r].since /\ req'[r].after = req[r].after
        /\ Commands(r)' = Commands(r)
  BY <1>1, <1>3 DEF Commands
<1>7. \A r \in Requests : Published(r)' \subseteq Published(r) /\ InOrder(r)'
  BY <1>1, TrafficLost
<1>8. Placed'
  BY <1>1, <1>6, <1>7 DEF Placed
<1>9. Within'
  <2> SUFFICES ASSUME NEW r \in Requests, NEW i \in Published(r)
               PROVE  /\ i \in 1 .. Len(Commands(r)')
                      /\ i <= IF req'[r].at = "cut" THEN req'[r].next ELSE Sent(r)'
    BY <1>7 DEF Within
  <2>1. /\ i \in 1 .. Len(Commands(r))
        /\ i <= IF req[r].at = "cut" THEN req[r].next ELSE Sent(r)
    BY DEF Within
  <2>2. i \in Int /\ req[r].next \in Nat
    BY <1>2, <2>1 DEF ReqState
  <2>3. i <= req[r].next
    BY <2>1, <2>2 DEF Sent
  <2>4. CASE req[r].at \in {"serving", "waiting", "cut"}
    BY <1>6, <2>1, <2>3, <2>4
  <2>5. CASE req[r].at \notin {"serving", "waiting", "cut"}
    BY <1>6, <2>1, <2>5 DEF Sent
  <2> QED
    BY <2>4, <2>5
<1>10. Ordered'
  BY <1>7 DEF Ordered
<1> QED
  BY <1>4, <1>5, <1>8, <1>9, <1>10

(* OnConnect puts its two subscriptions on the wire.                       *)
LEMMA SubscribeInv ==
  ASSUME SessionInv, NEW k \in Connections, NEW at, NEW topic \in Topics, NEW then,
         SubscribeTo(k, at, topic, then), at # "off", then \in {"notification", "done"}
  PROVE  SessionInv'
<1> USE DEF SessionInv
<1>1. /\ hook[k] = at /\ hook' = [hook EXCEPT ![k] = then]
      /\ client' = client /\ epoch' = epoch /\ subs' = subs /\ refused' = refused /\ req' = req
      /\ taken' = taken /\ settings' = settings
  BY DEF SubscribeTo
<1>2. epoch \in Nat
  BY SessionAssumption DEF SessionTyped
<1> DEFINE pk == <<"subscribe", topic>>
<1>3. pk \in Packets /\ pk[1] # "publish"
  BY PacketKinds
<1> HIDE DEF pk
<1>4. wire' = wire \/ (client = "up" /\ wire' = Append(wire, pk))
  BY DEF SubscribeTo, Write, pk
<1>5. wire' \in Seq(Packets) /\ (client # "up" => wire' = <<>>)
      /\ \A r \in Requests : Published(r)' = Published(r) /\ InOrder(r)'
  <2>1. CASE wire' = wire
    BY <1>1, <2>1, TrafficStands DEF SessionTyped, Linked, Ordered
  <2>2. CASE client = "up" /\ wire' = Append(wire, pk)
    <3>1. wire' \in Seq(Packets)
      BY <1>3, <2>2, WireAppended DEF SessionTyped
    <3>2. \A r \in Requests :
            OnWire(r)' = OnWire(r) /\ \A p \in OnWire(r) : wire'[p] = wire[p]
      <4>1. wire \in Seq(Packets) /\ wire' = Append(wire, pk)
        BY <2>2 DEF SessionTyped
      <4>2. /\ \A r : OnWire(r)' = OnWire(r) \cup
                 (IF pk[1] = "publish" /\ pk[2] = r THEN {Len(wire) + 1} ELSE {})
            /\ \A p \in 1 .. Len(wire) : wire'[p] = wire[p]
            /\ \A r : OnWire(r) \subseteq 1 .. Len(wire)
        BY <1>3, <4>1, WireAppended
      <4> QED
        BY <1>3, <4>2
    <3>3. \A r \in Requests : Published(r)' = Published(r)
      BY <1>1, <3>2 DEF Published
    <3>4. \A r \in Requests : InOrder(r)'
      BY <1>1, <3>2 DEF InOrder, Ordered
    <3> QED
      BY <2>2, <3>1, <3>3, <3>4
  <2> QED
    BY <1>4, <2>1, <2>2
<1>6. SessionTyped'
  BY <1>1, <1>5 DEF SessionTyped
<1>7. Linked'
  BY <1>1, <1>5 DEF Linked, SessionTyped
<1>8. Placed' /\ Within' /\ Ordered'
  BY <1>1, <1>2, <1>5, RequestsKept
<1> QED
  BY <1>6, <1>7, <1>8

-----------------------------------------------------------------------------
LEMMA StartRequestInv ==
  ASSUME SessionInv, NEW r \in Requests, NEW q \in Routes, StartRequest(r, q)
  PROVE  SessionInv'
<1> USE DEF SessionInv
<1> DEFINE new == [at |-> "serving", route |-> q, next |-> 1,
                   since |-> IF client = "up" THEN epoch ELSE 0,
                   after |-> {s \in Requests : req[s].at \in {"answered", "cut"}}]
<1>1. /\ wire' = wire /\ taken' = taken /\ settings' = settings /\ client' = client
      /\ epoch' = epoch /\ hook' = hook /\ subs' = subs /\ refused' = refused
      /\ req' = [req EXCEPT ![r] = new] /\ req[r].at = "idle"
  BY DEF StartRequest, linkVars
<1>2. epoch \in Nat
  BY SessionAssumption DEF SessionTyped
<1>3. /\ new \in ReqState /\ new.at = "serving" /\ new.route = q /\ new.next = 1
      /\ new.since \in {epoch, 0}
  BY <1>2 DEF ReqState, RequestPhase
<1> HIDE DEF new
<1>4. \A s \in Requests : Published(s)' = Published(s) /\ InOrder(s)'
  BY <1>1, TrafficStands DEF Ordered
<1>5. Published(r)' = {}
  BY <1>1, <1>4 DEF Placed
<1>6. Len(CommandsOf(q)) \in Nat
  BY CommandsCounted
<1>7. req' \in [Requests -> ReqState] /\ Placed' /\ Within' /\ Ordered'
  <2>1. new.since <= epoch /\ new.next <= Len(CommandsOf(new.route)) + 1
    BY <1>2, <1>3, <1>6
  <2> QED
    BY <1>1, <1>3, <1>4, <1>5, <2>1, RequestChanged
<1> QED
  BY <1>1, <1>7 DEF SessionTyped, Linked

(* The command goes out over a connection that is up, or nowhere.          *)
LEMMA SendCommandInv ==
  ASSUME SessionInv, NEW r \in Requests, SendCommand(r)
  PROVE  SessionInv'
<1> USE DEF SessionInv
<1> DEFINE new == [req[r] EXCEPT !.at = "waiting"]
           n == req[r].next
           pk == <<"publish", r, n>>
<1>1. /\ taken' = taken /\ settings' = settings /\ client' = client /\ epoch' = epoch
      /\ hook' = hook /\ subs' = subs /\ refused' = refused /\ req' = [req EXCEPT ![r] = new]
      /\ req[r].at = "serving" /\ n <= Len(Commands(r))
  BY DEF SendCommand, linkVars
<1>2. req[r] \in ReqState /\ n \in Nat \ {0} /\ epoch \in Nat /\ wire \in Seq(Packets)
  BY SessionAssumption DEF SessionTyped, ReqState
<1>3. /\ new \in ReqState /\ new.at = "waiting" /\ new.route = req[r].route /\ new.next = n
      /\ new.since = req[r].since
  BY <1>2 DEF ReqState, RequestPhase
<1> HIDE DEF new
<1>4. pk \in Packets /\ pk[1] = "publish" /\ pk[2] = r /\ pk[3] = n
  BY <1>2, PacketKinds
<1>5. wire' = wire \/ (client = "up" /\ wire' = Append(wire, pk))
  BY DEF SendCommand, Write
<1> HIDE DEF pk
<1>6. Len(Commands(r)) \in Nat /\ Commands(r) = CommandsOf(req[r].route)
  BY CommandsCounted DEF Commands
<1>7. \A i \in Published(r) : i \in 1 .. Len(Commands(r)) /\ i <= n - 1
  BY <1>1 DEF Within, Sent
<1>8. /\ wire' \in Seq(Packets) /\ (client # "up" => wire' = <<>>)
      /\ \A s \in Requests \ {r} : Published(s)' = Published(s) /\ InOrder(s)'
      /\ Published(r)' \subseteq Published(r) \cup {n} /\ InOrder(r)'
  <2>1. CASE wire' = wire
    BY <1>1, <1>2, <2>1, TrafficStands DEF Linked, Ordered
  <2>2. CASE client = "up" /\ wire' = Append(wire, pk)
    <3>1. /\ wire' \in Seq(Packets)
          /\ \A s : OnWire(s)' = OnWire(s) \cup
               (IF pk[1] = "publish" /\ pk[2] = s THEN {Len(wire) + 1} ELSE {})
          /\ \A p \in 1 .. Len(wire) : wire'[p] = wire[p]
          /\ wire'[Len(wire) + 1] = pk
          /\ \A s : OnWire(s) \subseteq 1 .. Len(wire)
      BY <1>2, <1>4, <2>2, WireAppended
    <3>2. ASSUME NEW s \in Requests \ {r}
          PROVE  Published(s)' = Published(s) /\ InOrder(s)'
      <4>1. OnWire(s)' = OnWire(s) /\ \A p \in OnWire(s) : wire'[p] = wire[p]
        BY <1>4, <3>1
      <4>2. Published(s)' = Published(s)
        BY <1>1, <4>1 DEF Published
      <4>3. InOrder(s)'
        BY <1>1, <4>1 DEF InOrder, Ordered
      <4> QED
        BY <4>2, <4>3
    <3>3. /\ OnWire(r)' = OnWire(r) \cup {Len(wire) + 1}
          /\ \A p \in OnWire(r) : wire'[p] = wire[p] /\ p \in 1 .. Len(wire)
          /\ wire'[Len(wire) + 1][3] = n
      BY <1>4, <3>1
    <3>4. Published(r)' \subseteq Published(r) \cup {n}
      BY <1>1, <3>3 DEF Published
    <3>5. /\ \A p \in OnWire(r) : wire[p][3] \in Int /\ wire[p][3] < n
          /\ \A i \in DOMAIN taken[r] : taken[r][i] \in Int /\ taken[r][i] < n
      <4>1. /\ \A p \in OnWire(r) : wire[p][3] \in Published(r)
            /\ \A i \in DOMAIN taken[r] : taken[r][i] \in Published(r)
        BY DEF Published, ToSet
      <4>2. \A i \in Published(r) : i \in Int /\ i < n
        BY <1>2, <1>7
      <4> QED
        BY <4>1, <4>2
    <3>6. InOrder(r)'
      <4>1. InOrder(r)
        BY DEF Ordered
      <4>2. \A i, j \in DOMAIN taken'[r] : i < j => taken'[r][i] < taken'[r][j]
        BY <1>1, <4>1 DEF InOrder
      <4>3. ASSUME NEW p \in OnWire(r)', NEW p2 \in OnWire(r)', p < p2
            PROVE  wire'[p][3] < wire'[p2][3]
        <5>1. Len(wire) \in Nat /\ \A x \in 1 .. Len(wire) : x \in Int /\ x <= Len(wire)
          BY <1>2
        <5>2. p \in OnWire(r)
          <6>1. CASE p = Len(wire) + 1
            <7>1. p2 <= Len(wire) + 1
              BY <3>3, <5>1
            <7>2. p2 \in Int
              BY <3>3, <5>1
            <7> QED
              BY <4>3, <5>1, <6>1, <7>1, <7>2
          <6> QED
            BY <3>3, <6>1
        <5>3. CASE p2 \in OnWire(r)
          BY <3>3, <4>1, <4>3, <5>2, <5>3 DEF InOrder
        <5>4. CASE p2 = Len(wire) + 1
          BY <3>3, <3>5, <5>2, <5>4
        <5> QED
          BY <3>3, <5>3, <5>4
      <4>4. \A i \in DOMAIN taken'[r], p \in OnWire(r)' : taken'[r][i] < wire'[p][3]
        BY <1>1, <3>3, <3>5, <4>1 DEF InOrder
      <4> QED
        BY <4>2, <4>3, <4>4 DEF InOrder
    <3> QED
      BY <2>2, <3>1, <3>2, <3>4, <3>6
  <2> QED
    BY <1>5, <2>1, <2>2
<1>9. req' \in [Requests -> ReqState] /\ Placed' /\ Within' /\ Ordered'
  <2>1. req[r].route \in Routes /\ req[r].since <= epoch
    BY <1>1 DEF Placed
  <2>2. \A i \in Published(r)' : i \in 1 .. Len(Commands(r)) /\ i <= n
    BY <1>1, <1>2, <1>6, <1>7, <1>8
  <2>3. n <= Len(Commands(r)) + 1
    BY <1>1, <1>2, <1>6
  <2> QED
    BY <1>1, <1>3, <1>6, <1>8, <2>1, <2>2, <2>3, RequestChanged
<1> QED
  BY <1>1, <1>8, <1>9 DEF SessionTyped, Linked

(* The steps of a request that write nothing.                              *)
LEMMA RequestMovesInv ==
  ASSUME SessionInv, NEW r \in Requests, CommandDropped(r) \/ WaitOver(r) \/ Answer(r)
  PROVE  SessionInv'
<1> USE DEF SessionInv
<1> DEFINE n == req[r].next
           dropped == [req[r] EXCEPT !.next = n + 1]
           waited == [req[r] EXCEPT !.at = "serving", !.next = n + 1]
           answered == [req[r] EXCEPT !.at = "answered"]
<1>1. /\ wire' = wire /\ taken' = taken /\ settings' = settings /\ client' = client
      /\ epoch' = epoch /\ hook' = hook /\ subs' = subs /\ refused' = refused
  BY DEF CommandDropped, WaitOver, Answer, linkVars
<1>2. req[r] \in ReqState /\ n \in Nat \ {0} /\ epoch \in Nat
  BY SessionAssumption DEF SessionTyped, ReqState
<1>3. \E new \in ReqState :
        /\ req' = [req EXCEPT ![r] = new] /\ new.at \in {"serving", "answered"}
        /\ new.route = req[r].route /\ new.since = req[r].since
        /\ new.next \in {n, n + 1} /\ new.next <= Len(Commands(r)) + 1
        /\ (req[r].at = "waiting" => new.next = n + 1)
  <2>1. CASE CommandDropped(r)
    <3>1. req' = [req EXCEPT ![r] = dropped] /\ req[r].at = "serving" /\ n <= Len(Commands(r))
      BY <2>1 DEF CommandDropped
    <3>2. /\ dropped \in ReqState /\ dropped.at = req[r].at /\ dropped.route = req[r].route
          /\ dropped.since = req[r].since /\ dropped.next = n + 1
      BY <1>2 DEF ReqState
    <3>3. n + 1 <= Len(Commands(r)) + 1
      BY <1>2, <3>1, CommandsCounted DEF Commands
    <3> HIDE DEF dropped
    <3> QED
      BY <3>1, <3>2, <3>3
  <2>2. CASE WaitOver(r)
    <3>1. req' = [req EXCEPT ![r] = waited] /\ req[r].at = "waiting"
      BY <2>2 DEF WaitOver
    <3>2. /\ waited \in ReqState /\ waited.at = "serving" /\ waited.route = req[r].route
          /\ waited.since = req[r].since /\ waited.next = n + 1
      <4>1. n + 1 \in Nat \ {0}
        BY <1>2
      <4> HIDE DEF n
      <4>2. waited \in ReqState
        BY <1>2, <4>1 DEF ReqState, RequestPhase
      <4> QED
        BY <1>2, <4>2 DEF ReqState
    <3>3. n + 1 <= Len(Commands(r)) + 1
      BY <1>2, <3>1, CommandsCounted DEF Commands, Placed
    <3> HIDE DEF waited
    <3> QED
      BY <3>1, <3>2, <3>3
  <2>3. CASE Answer(r)
    <3>1. req' = [req EXCEPT ![r] = answered] /\ req[r].at = "serving"
      BY <2>3 DEF Answer
    <3>2. /\ answered \in ReqState /\ answered.at = "answered" /\ answered.route = req[r].route
          /\ answered.since = req[r].since /\ answered.next = n
      BY <1>2 DEF ReqState, RequestPhase
    <3>3. n <= Len(Commands(r)) + 1
      BY <3>1 DEF Placed
    <3> HIDE DEF answered
    <3> QED
      BY <3>1, <3>2, <3>3
  <2> QED
    BY <2>1, <2>2, <2>3
<1>4. PICK new \in ReqState :
        /\ req' = [req EXCEPT ![r] = new] /\ new.at \in {"serving", "answered"}
        /\ new.route = req[r].route /\ new.since = req[r].since
        /\ new.next \in {n, n + 1} /\ new.next <= Len(Commands(r)) + 1
        /\ (req[r].at = "waiting" => new.next = n + 1)
  BY <1>3
<1>5. req[r].at \in {"serving", "waiting"}
  BY DEF CommandDropped, WaitOver, Answer
<1>6. \A s \in Requests : Published(s)' = Published(s) /\ InOrder(s)'
  BY <1>1, TrafficStands DEF Ordered
<1>7. \A i \in Published(r)' : i \in 1 .. Len(Commands(r)) /\ i <= new.next - 1
  <2>1. ASSUME NEW i \in Published(r)
        PROVE  i \in 1 .. Len(Commands(r)) /\ i <= new.next - 1
    <3>1. i \in 1 .. Len(Commands(r)) /\ i <= Sent(r)
      BY <1>5 DEF Within
    <3>2. i \in Int
      BY <3>1
    <3> QED
      BY <1>2, <1>4, <3>1, <3>2 DEF Sent
  <2> QED
    BY <1>6, <2>1
<1>8. req' \in [Requests -> ReqState] /\ Placed' /\ Within' /\ Ordered'
  <2>1. req[r].route \in Routes /\ req[r].since <= epoch
    BY <1>5 DEF Placed
  <2> QED
    BY <1>1, <1>4, <1>6, <1>7, <2>1, RequestChanged DEF Commands
<1> QED
  BY <1>1, <1>8 DEF SessionTyped, Linked

-----------------------------------------------------------------------------
(* The broker takes the first packet, a subscription, and refuses it or not. *)
LEMMA SubscriptionTakenInv ==
  ASSUME SessionInv, BrokerSubscribes \/ BrokerRefuses
  PROVE  SessionInv'
<1> USE DEF SessionInv
<1>1. /\ wire # <<>> /\ Head(wire)[1] = "subscribe" /\ wire' = Tail(wire)
      /\ subs' \subseteq subs \cup {Head(wire)[2]}
      /\ refused' \subseteq refused \cup {Head(wire)[2]}
      /\ client' = client /\ epoch' = epoch /\ hook' = hook /\ req' = req /\ taken' = taken
      /\ settings' = settings
  BY DEF BrokerSubscribes, BrokerRefuses
<1>2. wire \in Seq(Packets) /\ epoch \in Nat
  BY SessionAssumption DEF SessionTyped
<1>3. /\ wire' \in Seq(Packets) /\ Head(wire) = wire[1] /\ wire[1] \in Packets
      /\ Len(wire) \in Nat \ {0}
      /\ \A r : OnWire(r)' \subseteq 1 .. Len(wire) - 1
      /\ \A r : \A p : p \in OnWire(r)' => p + 1 \in OnWire(r) /\ wire'[p] = wire[p + 1]
  BY <1>1, <1>2, WireTaken
<1>4. SessionTyped'
  <2>1. subs' \subseteq Topics /\ refused' \subseteq Topics
    BY <1>1, <1>3, PacketKinds DEF SessionTyped
  <2> QED
    BY <1>1, <1>3, <2>1 DEF SessionTyped
<1>5. Linked'
  BY <1>1 DEF Linked
<1>6. \A r \in Requests : Published(r)' \subseteq Published(r)
  BY <1>1, <1>3 DEF Published
<1>7. ASSUME NEW r \in Requests
      PROVE  InOrder(r)'
  <2>1. InOrder(r)
    BY DEF Ordered
  <2>2. \A p, q \in OnWire(r)' : p < q => p + 1 < q + 1
    BY <1>3
  <2> QED
    BY <1>1, <1>3, <2>1, <2>2 DEF InOrder
<1>8. Placed' /\ Within' /\ Ordered'
  BY <1>1, <1>2, <1>6, <1>7, RequestsKept
<1> QED
  BY <1>4, <1>5, <1>8

(* What BrokerForwards does to the commands taken and on the wire.         *)
LEMMA Forwarded ==
  ASSUME SessionInv, BrokerForwards
  PROVE  \E r \in Requests : \E i \in 1 .. Len(Commands(r)) :
           /\ 1 \in OnWire(r) /\ wire[1] = <<"publish", r, i>> /\ req[r].at # "idle"
           /\ taken' = [taken EXCEPT ![r] = Append(taken[r], i)]
           /\ \A s \in Requests \ {r} : taken'[s] = taken[s]
           /\ Len(taken'[r]) = Len(taken[r]) + 1
           /\ \A j \in 1 .. Len(taken[r]) : taken'[r][j] = taken[r][j]
           /\ taken'[r][Len(taken[r]) + 1] = i
           /\ settings' = [settings EXCEPT ![req[r].route.device]
                             = Set(settings[req[r].route.device], Commands(r)[i])]
<1> USE DEF SessionInv
<1>1. wire \in Seq(Packets) /\ wire # <<>> /\ wire' = Tail(wire)
  BY DEF SessionTyped, BrokerForwards
<1>2. /\ Head(wire) = wire[1] /\ wire[1] \in Packets /\ Len(wire) \in Nat \ {0}
      /\ DOMAIN wire = 1 .. Len(wire)
  BY <1>1, WireTaken
<1>3. wire[1][1] = "publish"
  BY <1>2 DEF BrokerForwards
<1>4. PICK r \in Requests, i \in Nat : wire[1] = <<"publish", r, i>>
  BY <1>2, <1>3 DEF Packets
<1>5. 1 \in OnWire(r) /\ wire[1][2] = r /\ wire[1][3] = i
  BY <1>2, <1>4 DEF OnWire
<1>6. i \in Published(r)
  BY <1>5 DEF Published
<1>7. i \in 1 .. Len(Commands(r)) /\ req[r].at # "idle"
  BY <1>6 DEF Within, Placed
<1>8. /\ taken' = [taken EXCEPT ![r] = Append(taken[r], i)]
      /\ settings' = [settings EXCEPT ![req[r].route.device]
                        = Set(settings[req[r].route.device], Commands(r)[i])]
  BY <1>2, <1>5 DEF BrokerForwards
<1>9. taken \in [Requests -> Seq(Nat)] /\ taken[r] \in Seq(Nat)
  BY DEF SessionTyped
<1>10. /\ \A s \in Requests \ {r} : taken'[s] = taken[s]
       /\ taken'[r] = Append(taken[r], i)
  BY <1>8, <1>9
<1>11. /\ Len(Append(taken[r], i)) = Len(taken[r]) + 1
       /\ \A j \in 1 .. Len(taken[r]) : Append(taken[r], i)[j] = taken[r][j]
       /\ Append(taken[r], i)[Len(taken[r]) + 1] = i
  BY <1>9, AppendProperties
<1>12. /\ \A s \in Requests \ {r} : taken'[s] = taken[s]
       /\ Len(taken'[r]) = Len(taken[r]) + 1
       /\ \A j \in 1 .. Len(taken[r]) : taken'[r][j] = taken[r][j]
       /\ taken'[r][Len(taken[r]) + 1] = i
  BY <1>10, <1>11
<1> WITNESS r \in Requests
<1> USE <1>7
<1> WITNESS i \in 1 .. Len(Commands(r))
<1> QED
  BY <1>4, <1>5, <1>7, <1>8, <1>12

LEMMA BrokerForwardsInv ==
  ASSUME SessionInv, BrokerForwards
  PROVE  SessionInv'
<1> USE DEF SessionInv
<1>1. /\ wire # <<>> /\ wire' = Tail(wire) /\ subs' = subs /\ refused' = refused
      /\ client' = client /\ epoch' = epoch /\ hook' = hook /\ req' = req
  BY DEF BrokerForwards, linkVars
<1>2. wire \in Seq(Packets) /\ epoch \in Nat /\ taken \in [Requests -> Seq(Nat)]
  BY SessionAssumption DEF SessionTyped
<1>2a. PICK r \in Requests : \E i \in 1 .. Len(Commands(r)) :
        /\ 1 \in OnWire(r) /\ wire[1] = <<"publish", r, i>>
        /\ taken' = [taken EXCEPT ![r] = Append(taken[r], i)]
        /\ \A s \in Requests \ {r} : taken'[s] = taken[s]
        /\ Len(taken'[r]) = Len(taken[r]) + 1
        /\ \A j \in 1 .. Len(taken[r]) : taken'[r][j] = taken[r][j]
        /\ taken'[r][Len(taken[r]) + 1] = i
        /\ settings' = [settings EXCEPT ![req[r].route.device]
                          = Set(settings[req[r].route.device], Commands(r)[i])]
  BY Forwarded
<1>3. PICK i \in 1 .. Len(Commands(r)) :
        /\ 1 \in OnWire(r) /\ wire[1] = <<"publish", r, i>>
        /\ taken' = [taken EXCEPT ![r] = Append(taken[r], i)]
        /\ \A s \in Requests \ {r} : taken'[s] = taken[s]
        /\ Len(taken'[r]) = Len(taken[r]) + 1
        /\ \A j \in 1 .. Len(taken[r]) : taken'[r][j] = taken[r][j]
        /\ taken'[r][Len(taken[r]) + 1] = i
        /\ settings' = [settings EXCEPT ![req[r].route.device]
                          = Set(settings[req[r].route.device], Commands(r)[i])]
  BY <1>2a
<1>4. /\ wire' \in Seq(Packets) /\ Len(wire) \in Nat \ {0}
      /\ \A s : OnWire(s)' \subseteq 1 .. Len(wire) - 1
      /\ \A s : \A p : p \in OnWire(s)' => p + 1 \in OnWire(s) /\ wire'[p] = wire[p + 1]
  BY <1>1, <1>2, WireTaken
<1>5. SessionTyped'
  <2>1. i \in Nat
    BY CommandsCounted DEF Commands
  <2>2. taken' \in [Requests -> Seq(Nat)]
    BY <1>2, <1>3, <2>1, AppendProperties
  <2>3. settings' = [d \in Devices |-> settings'[d]]
    BY <1>3 DEF SessionTyped
  <2> QED
    BY <1>1, <1>4, <2>2, <2>3 DEF SessionTyped
<1>6. Linked'
  BY <1>1 DEF Linked
<1>7. ASSUME NEW s \in Requests \ {r}
      PROVE  Published(s)' \subseteq Published(s) /\ InOrder(s)'
  <2>1. InOrder(s) /\ \A p, q \in OnWire(s)' : p < q => p + 1 < q + 1
    BY <1>4 DEF Ordered
  <2>2. Published(s)' \subseteq Published(s)
    BY <1>3, <1>4 DEF Published
  <2>3. InOrder(s)'
    <3>1. \A p, q \in OnWire(s)' : p < q => wire'[p][3] < wire'[q][3]
      BY <1>4, <2>1 DEF InOrder
    <3>2. \A j \in DOMAIN taken'[s], p \in OnWire(s)' : taken'[s][j] < wire'[p][3]
      BY <1>3, <1>4, <2>1 DEF InOrder
    <3>3. \A j, k \in DOMAIN taken'[s] : j < k => taken'[s][j] < taken'[s][k]
      BY <1>3, <2>1 DEF InOrder
    <3> QED
      BY <3>1, <3>2, <3>3 DEF InOrder
  <2> QED
    BY <2>2, <2>3
<1>8. /\ DOMAIN taken[r] = 1 .. Len(taken[r]) /\ Len(taken[r]) \in Nat
      /\ DOMAIN taken'[r] = 1 .. Len(taken[r]) + 1
      /\ \A j \in DOMAIN taken'[r] :
           \/ j \in DOMAIN taken[r] /\ taken'[r][j] = taken[r][j]
           \/ j = Len(taken[r]) + 1 /\ taken'[r][j] = i
  <2>1. Len(taken[r]) \in Nat /\ DOMAIN taken[r] = 1 .. Len(taken[r])
    BY <1>2
  <2>2. taken'[r] \in Seq(Nat)
    BY <1>5 DEF SessionTyped
  <2>3. DOMAIN taken'[r] = 1 .. Len(taken[r]) + 1
    BY <1>3, <2>2
  <2>4. \A j \in 1 .. Len(taken[r]) + 1 : j \in 1 .. Len(taken[r]) \/ j = Len(taken[r]) + 1
    BY <2>1
  <2> QED
    BY <1>3, <2>1, <2>3, <2>4
<1>9. 1 \in OnWire(r) /\ wire[1][3] = i
  BY <1>3
<1>10. Published(r)' \subseteq Published(r)
  <2>1. ToSet(taken[r])' \subseteq ToSet(taken[r]) \cup {i}
    BY <1>8 DEF ToSet
  <2> QED
    BY <1>4, <1>9, <2>1 DEF Published
<1>11. InOrder(r)'
  <2>1. InOrder(r)
    BY DEF Ordered
  <2>2. ASSUME NEW j \in DOMAIN taken'[r], NEW k \in DOMAIN taken'[r], j < k
        PROVE  taken'[r][j] < taken'[r][k]
    <3>1. j \in DOMAIN taken[r] /\ taken'[r][j] = taken[r][j]
      BY <1>8, <2>2
    <3> QED
      BY <1>8, <1>9, <2>1, <2>2, <3>1 DEF InOrder
  <2>3. ASSUME NEW p \in OnWire(r)', NEW q \in OnWire(r)', p < q
        PROVE  wire'[p][3] < wire'[q][3]
    <3>1. p + 1 < q + 1
      BY <1>4, <2>3
    <3> QED
      BY <1>4, <2>1, <3>1 DEF InOrder
  <2>4. ASSUME NEW j \in DOMAIN taken'[r], NEW p \in OnWire(r)'
        PROVE  taken'[r][j] < wire'[p][3]
    <3>1. p + 1 \in OnWire(r) /\ wire'[p] = wire[p + 1] /\ 1 < p + 1
      BY <1>4
    <3> QED
      BY <1>8, <1>9, <2>1, <3>1 DEF InOrder
  <2> QED
    BY <2>2, <2>3, <2>4 DEF InOrder
<1>12. Placed' /\ Within' /\ Ordered'
  BY <1>1, <1>2, <1>7, <1>10, <1>11, RequestsKept
<1> QED
  BY <1>5, <1>6, <1>12

-----------------------------------------------------------------------------
LEMMA SessionStutterInv ==
  ASSUME SessionInv, UNCHANGED sessionVars
  PROVE  SessionInv'
<1> USE DEF SessionInv
<1>1. /\ client' = client /\ epoch' = epoch /\ hook' = hook /\ subs' = subs
      /\ refused' = refused /\ wire' = wire /\ req' = req /\ taken' = taken /\ settings' = settings
  BY DEF sessionVars, linkVars
<1>2. epoch \in Nat
  BY SessionAssumption DEF SessionTyped
<1>3. SessionTyped' /\ Linked'
  BY <1>1 DEF SessionTyped, Linked
<1>4. \A r \in Requests : Published(r)' = Published(r) /\ InOrder(r)'
  BY <1>1, TrafficStands DEF Ordered
<1> QED
  BY <1>1, <1>2, <1>3, <1>4, RequestsKept

LEMMA SessionStepInv ==
  ASSUME SessionInv, [SessionNext]_sessionVars
  PROVE  SessionInv'
<1>1. CASE Connect \/ ConnectionLost \/ Restart
  BY <1>1, ConnectInv, ConnectionLostInv, RestartInv
<1>2. ASSUME NEW k \in Connections, HookStep(k)
      PROVE  SessionInv'
  BY <1>2, SubscribeInv DEF HookStep, SubscribeTelemetry, SubscribeNotification, Topics
<1>3. CASE BrokerStep
  BY <1>3, SubscriptionTakenInv, BrokerForwardsInv DEF BrokerStep
<1>4. ASSUME NEW r \in Requests, RequestStep(r)
      PROVE  SessionInv'
  BY <1>4, SendCommandInv, RequestMovesInv DEF RequestStep
<1>5. ASSUME NEW r \in Requests, NEW q \in Routes, StartRequest(r, q)
      PROVE  SessionInv'
  BY <1>5, StartRequestInv
<1>6. CASE UNCHANGED sessionVars
  BY <1>6, SessionStutterInv
<1> QED
  BY <1>1, <1>2, <1>3, <1>4, <1>5, <1>6 DEF SessionNext, LinkStep, CommandStep

(* Of SessionSpec only the steps matter here.  The theorems say of         *)
(* SessionSteps what they say of it, without its fairness, so that they    *)
(* hold as well for a system that has these steps among others.            *)
SessionSteps == SessionInit /\ [][SessionNext]_sessionVars

LEMMA SessionHasSteps == SessionSpec => SessionSteps
  BY PTL DEF SessionSpec, SessionSteps

(* The invariant that all the theorems about the session rest on.          *)
THEOREM SessionIsInductive == SessionSteps => []SessionInv
<1>1. SessionInit => SessionInv
  BY SessionInitInv
<1>2. SessionInv /\ [SessionNext]_sessionVars => SessionInv'
  BY SessionStepInv
<1> QED
  BY <1>1, <1>2, PTL DEF SessionSteps

(* Nothing is on the wire of a connection that is not up, no OnConnect     *)
(* runs before its connection, and a request stands among the commands of  *)
(* its route.                                                              *)
THEOREM SessionTypeCorrect == SessionSteps => []SessionTypeOK
<1>1. SessionInv => SessionTypeOK
  <2> SUFFICES ASSUME SessionInv
               PROVE  SessionTypeOK
    OBVIOUS
  <2>1. ASSUME NEW r \in Requests
        PROVE  /\ req[r].at \in RequestPhase
               /\ req[r].at # "idle" =>
                    req[r].route \in Routes /\ req[r].next \in 1 .. Len(Commands(r)) + 1
    <3>1. req[r] \in ReqState /\ Len(Commands(r)) \in Nat
      BY CommandsCounted DEF SessionInv, SessionTyped, Commands
    <3> QED
      BY <3>1 DEF SessionInv, Placed, ReqState
  <2> QED
    BY <2>1 DEF SessionInv, SessionTyped, Linked, SessionTypeOK
<1> QED
  BY <1>1, SessionIsInductive, PTL

-----------------------------------------------------------------------------
(* While the connection stands over which r started, what it has sent is   *)
(* taken or on its way.                                                    *)
Steady(r) ==
  req[r].at \notin {"idle", "cut"} /\ client = "up" /\ req[r].since = epoch
    => 1 .. Sent(r) \subseteq Published(r)

SteadyInv == \A r \in Requests : Steady(r)

LEMMA SteadyStep ==
  ASSUME SessionInv, SteadyInv, [SessionNext]_sessionVars
  PROVE  SteadyInv'
<1> SUFFICES ASSUME NEW r \in Requests, req'[r].at \notin {"idle", "cut"}, client' = "up",
                    req'[r].since = epoch'
             PROVE  1 .. Sent(r)' \subseteq Published(r)'
  BY DEF SteadyInv, Steady
<1> USE DEF SessionInv
<1>1. /\ req \in [Requests -> ReqState] /\ req[r] \in ReqState /\ epoch \in Nat
      /\ wire \in Seq(Packets) /\ taken \in [Requests -> Seq(Nat)]
  BY SessionAssumption DEF SessionTyped
<1>2. CASE Connect
  <2>1. req' = req /\ epoch' = epoch + 1
    BY <1>2 DEF Connect
  <2>2. req[r].since <= epoch /\ req[r].since \in Nat
    BY <1>1 DEF Placed, ReqState
  <2> QED
    BY <1>1, <2>1, <2>2
<1>3. CASE ConnectionLost \/ Restart
  BY <1>3 DEF ConnectionLost, Restart
<1>4. ASSUME req'[r] = req[r], client' = client, epoch' = epoch,
             Published(r) \subseteq Published(r)'
      PROVE  1 .. Sent(r)' \subseteq Published(r)'
  BY <1>4 DEF SteadyInv, Steady, Sent
<1>5. ASSUME NEW pk \in Packets, wire' = Append(wire, pk), taken' = taken
      PROVE  Published(r) \subseteq Published(r)'
  <2>1. /\ OnWire(r) \subseteq OnWire(r)' /\ OnWire(r) \subseteq 1 .. Len(wire)
        /\ \A p \in 1 .. Len(wire) : wire'[p] = wire[p]
    BY <1>1, <1>5, WireAppended
  <2> QED
    BY <1>5, <2>1 DEF Published
<1>6. ASSUME NEW k \in Connections, HookStep(k)
      PROVE  1 .. Sent(r)' \subseteq Published(r)'
  <2>1. PICK t \in Topics :
          wire' = wire \/ wire' = Append(wire, <<"subscribe", t>>)
    BY <1>6 DEF HookStep, SubscribeTelemetry, SubscribeNotification, SubscribeTo, Write, Topics
  <2>2. client' = client /\ epoch' = epoch /\ req' = req /\ taken' = taken
    BY <1>6 DEF HookStep, SubscribeTelemetry, SubscribeNotification, SubscribeTo
  <2>3. Published(r) \subseteq Published(r)'
    BY <1>5, <2>1, <2>2, PacketKinds, TrafficStands
  <2> QED
    BY <1>4, <2>2, <2>3
<1>7. CASE BrokerSubscribes \/ BrokerRefuses
  <2>1. /\ wire # <<>> /\ Head(wire)[1] = "subscribe" /\ wire' = Tail(wire)
        /\ client' = client /\ epoch' = epoch /\ req' = req /\ taken' = taken
    BY <1>7 DEF BrokerSubscribes, BrokerRefuses
  <2>2. /\ Head(wire) = wire[1]
        /\ \A p \in OnWire(r) : p = 1 \/ (p - 1 \in OnWire(r)' /\ wire'[p - 1] = wire[p])
    BY <1>1, <2>1, WireTaken
  <2>3. 1 \notin OnWire(r)
    BY <2>1, <2>2 DEF OnWire
  <2>4. Published(r) \subseteq Published(r)'
    <3>1. ToSet(taken[r])' = ToSet(taken[r])
      BY <2>1
    <3>2. ASSUME NEW p \in OnWire(r)
          PROVE  wire[p][3] \in Published(r)'
      BY <2>2, <2>3 DEF Published
    <3> QED
      BY <3>1, <3>2 DEF Published
  <2> QED
    BY <1>4, <2>1, <2>4
<1>8. CASE BrokerForwards
  <2>1. /\ wire # <<>> /\ wire' = Tail(wire)
        /\ client' = client /\ epoch' = epoch /\ req' = req
    BY <1>8 DEF BrokerForwards, linkVars
  <2>2. PICK s \in Requests : \E i \in 1 .. Len(Commands(s)) :
          /\ wire[1] = <<"publish", s, i>>
          /\ \A t \in Requests \ {s} : taken'[t] = taken[t]
          /\ Len(taken'[s]) = Len(taken[s]) + 1
          /\ \A j \in 1 .. Len(taken[s]) : taken'[s][j] = taken[s][j]
          /\ taken'[s][Len(taken[s]) + 1] = i
    BY <1>8, Forwarded
  <2>3. PICK i \in 1 .. Len(Commands(s)) :
          /\ wire[1] = <<"publish", s, i>>
          /\ \A t \in Requests \ {s} : taken'[t] = taken[t]
          /\ Len(taken'[s]) = Len(taken[s]) + 1
          /\ \A j \in 1 .. Len(taken[s]) : taken'[s][j] = taken[s][j]
          /\ taken'[s][Len(taken[s]) + 1] = i
    BY <2>2
  <2>4. \A p \in OnWire(r) : p = 1 \/ (p - 1 \in OnWire(r)' /\ wire'[p - 1] = wire[p])
    BY <1>1, <2>1, WireTaken
  <2>5. ToSet(taken[r]) \subseteq ToSet(taken[r])' /\ (r = s => i \in ToSet(taken[r])')
    <3>1. CASE r # s
      BY <2>3, <3>1 DEF ToSet
    <3>2. CASE r = s
      <4>1. taken'[s] \in Seq(Nat) /\ taken[s] \in Seq(Nat)
        BY <1>1, <1>8, BrokerForwardsInv DEF SessionTyped
      <4>2. Len(taken[s]) \in Nat /\ DOMAIN taken[s] = 1 .. Len(taken[s])
            /\ DOMAIN taken'[s] = 1 .. Len(taken[s]) + 1
        BY <2>3, <4>1
      <4>3. (\A j \in 1 .. Len(taken[s]) : j \in 1 .. Len(taken[s]) + 1)
            /\ Len(taken[s]) + 1 \in 1 .. Len(taken[s]) + 1
        BY <4>2
      <4> QED
        BY <2>3, <3>2, <4>2, <4>3 DEF ToSet
    <3> QED
      BY <3>1, <3>2
  <2>6. 1 \in OnWire(r) => r = s /\ wire[1][3] = i
    BY <2>3 DEF OnWire
  <2>7. Published(r) \subseteq Published(r)'
    BY <2>4, <2>5, <2>6 DEF Published
  <2> QED
    BY <1>4, <2>1, <2>7
<1>9. ASSUME NEW s \in Requests, NEW q \in Routes, StartRequest(s, q)
      PROVE  1 .. Sent(r)' \subseteq Published(r)'
  <2>1. /\ wire' = wire /\ taken' = taken /\ client' = client /\ epoch' = epoch
        /\ \A t \in Requests \ {s} : req'[t] = req[t]
        /\ req'[s].at = "serving" /\ req'[s].next = 1
    BY <1>1, <1>9 DEF StartRequest, linkVars
  <2>2. CASE r = s
    <3>1. Sent(r)' = 0
      BY <2>1, <2>2 DEF Sent
    <3> QED
      BY <3>1
  <2>3. CASE r # s
    BY <1>4, <2>1, <2>3, TrafficStands
  <2> QED
    BY <2>2, <2>3
<1>10. ASSUME NEW s \in Requests, SendCommand(s)
       PROVE  1 .. Sent(r)' \subseteq Published(r)'
  <2> DEFINE pk == <<"publish", s, req[s].next>>
  <2>1. /\ taken' = taken /\ client' = client /\ epoch' = epoch
        /\ \A t \in Requests \ {s} : req'[t] = req[t]
        /\ req[s].at = "serving" /\ req'[s].at = "waiting" /\ req'[s].next = req[s].next
        /\ req'[s].since = req[s].since /\ req[s].next \in Nat \ {0}
    BY <1>1, <1>10 DEF SendCommand, linkVars, ReqState
  <2>2. pk \in Packets /\ pk[1] = "publish" /\ pk[2] = s /\ pk[3] = req[s].next
    BY <2>1, PacketKinds
  <2>3. wire' = Append(wire, pk)
    BY <1>10, <2>1 DEF SendCommand, Write
  <2> HIDE DEF pk
  <2>4. Published(r) \subseteq Published(r)'
    BY <1>5, <2>1, <2>2, <2>3
  <2>5. CASE r = s
    <3>1. 1 .. req[r].next - 1 \subseteq Published(r)
      BY <2>1, <2>5 DEF SteadyInv, Steady, Sent
    <3>2. Len(wire) + 1 \in OnWire(s)' /\ wire'[Len(wire) + 1] = pk
      BY <1>1, <2>2, <2>3, WireAppended
    <3>3. req[r].next \in Published(r)'
      BY <2>2, <2>5, <3>2 DEF Published
    <3>4. \A i \in 1 .. req[r].next : i \in 1 .. req[r].next - 1 \/ i = req[r].next
      BY <2>1, <2>5
    <3>5. Sent(r)' = req[r].next
      BY <2>1, <2>5 DEF Sent
    <3> QED
      BY <2>4, <3>1, <3>3, <3>4, <3>5
  <2>6. CASE r # s
    BY <1>4, <2>1, <2>4, <2>6
  <2> QED
    BY <2>5, <2>6
<1>11. ASSUME NEW s \in Requests, CommandDropped(s) \/ WaitOver(s) \/ Answer(s)
       PROVE  1 .. Sent(r)' \subseteq Published(r)'
  <2>1. /\ wire' = wire /\ taken' = taken /\ client' = client /\ epoch' = epoch
        /\ \A t \in Requests \ {s} : req'[t] = req[t]
    BY <1>1, <1>11 DEF CommandDropped, WaitOver, Answer, linkVars
  <2>2. Published(r)' = Published(r)
    BY <2>1, TrafficStands
  <2>3. CASE r = s
    <3>1. req'[r].since = req[r].since /\ req[r].at \in {"serving", "waiting"} /\ Sent(r)' = Sent(r)
      <4>1. CASE CommandDropped(s)
        BY <2>1, <4>1 DEF CommandDropped, IsConnected
      <4>2. CASE WaitOver(s)
        BY <1>1, <2>3, <4>2 DEF WaitOver, ReqState, Sent
      <4>3. CASE Answer(s)
        BY <1>1, <2>3, <4>3 DEF Answer, ReqState, Sent
      <4> QED
        BY <1>11, <4>1, <4>2, <4>3
    <3> QED
      BY <2>1, <2>2, <3>1 DEF SteadyInv, Steady
  <2>4. CASE r # s
    BY <1>4, <2>1, <2>2, <2>4
  <2> QED
    BY <2>3, <2>4
<1>12. CASE UNCHANGED sessionVars
  <2>1. wire' = wire /\ taken' = taken /\ client' = client /\ epoch' = epoch /\ req' = req
    BY <1>12 DEF sessionVars, linkVars
  <2> QED
    BY <1>4, <2>1, TrafficStands
<1> QED
  BY <1>2, <1>3, <1>6, <1>7, <1>8, <1>9, <1>10, <1>11, <1>12
     DEF SessionNext, LinkStep, CommandStep, BrokerStep, RequestStep

(* SendCommand and the routes: commands go out in the order of the route   *)
(* and never twice; over a connection that stands, all of them do.         *)
THEOREM SteadyDelivery == SessionSteps => []SteadyConnectionDelivers
<1>1. SessionInit => SteadyInv
  BY DEF SessionInit, Idle, SteadyInv, Steady
<1>2. SessionInv /\ SteadyInv /\ [SessionNext]_sessionVars => SteadyInv'
  BY SteadyStep
<1>3. SessionInv /\ SteadyInv => SteadyConnectionDelivers
  <2> SUFFICES ASSUME SessionInv, SteadyInv, NEW r \in Requests
               PROVE  /\ InOrder(r)
                      /\ req[r].at \notin {"idle", "cut"} /\ client = "up" /\ req[r].since = epoch
                         => Published(r) = 1 .. Sent(r)
    BY DEF SteadyConnectionDelivers, Sent
  <2>1. InOrder(r)
    BY DEF SessionInv, Ordered
  <2>2. ASSUME req[r].at \notin {"idle", "cut"}, client = "up", req[r].since = epoch
        PROVE  Published(r) = 1 .. Sent(r)
    <3>1. 1 .. Sent(r) \subseteq Published(r)
      BY <2>2 DEF SteadyInv, Steady
    <3>2. ASSUME NEW i \in Published(r)
          PROVE  i \in 1 .. Sent(r)
      <4>1. i \in 1 .. Len(Commands(r)) /\ i <= Sent(r)
        BY <2>2 DEF SessionInv, Within
      <4>2. req[r] \in ReqState
        BY DEF SessionInv, SessionTyped
      <4>3. Sent(r) \in Nat
        BY <4>2 DEF Sent, ReqState
      <4>4. Len(Commands(r)) \in Nat
        BY CommandsCounted DEF Commands
      <4> QED
        BY <4>1, <4>3, <4>4
    <3> QED
      BY <3>1, <3>2
  <2> QED
    BY <2>1, <2>2
<1> QED
  BY <1>1, <1>2, <1>3, SessionIsInductive, PTL DEF SessionSteps

-----------------------------------------------------------------------------
(* Who is over before another begins has its packets before the other's.   *)
Finished(r) == req[r].at \in {"answered", "cut"}

FifoInv ==
  \A r, s \in Requests : r \in req[s].after =>
    /\ Finished(r) /\ s \notin req[r].after
    /\ \A p \in OnWire(r), q \in OnWire(s) : p < q
    /\ OnWire(r) # {} => ToSet(taken[s]) = {}

(* Each setting of a device is of a command that it has been sent, and not *)
(* of a request that was over before another one set the same.             *)
Took(r, m, value) == \E i \in ToSet(taken[r]) : Commands(r)[i] = Command(m, value)

TookMethod(r, m) == \E i \in ToSet(taken[r]) : Commands(r)[i].method = m

LastWriter(t, m, d) ==
  /\ Took(t, m, settings[d][m])
  /\ \A s \in RequestsTo(d) : TookMethod(s, m) => t \notin req[s].after

SettingsInv ==
  \A d \in Devices :
    /\ \A r \in RequestsTo(d) : \A m : TookMethod(r, m) => m \in DOMAIN settings[d]
    /\ \A m \in DOMAIN settings[d] : \E t \in RequestsTo(d) : LastWriter(t, m, d)

(* The steps by what they do to the requests and to the wire.              *)
Kept(r) ==
  /\ req'[r].route = req[r].route /\ req'[r].after = req[r].after
  /\ req'[r].at = "idle" <=> req[r].at = "idle"
  /\ Finished(r) => Finished(r)'

Starts == \E r \in Requests, q \in Routes : StartRequest(r, q)

LEMMA OthersKeep ==
  ASSUME SessionInv, [SessionNext]_sessionVars, ~Starts
  PROVE  \A r \in Requests : Kept(r)
<1> SUFFICES ASSUME NEW r \in Requests
             PROVE  Kept(r)
  OBVIOUS
<1>1. req \in [Requests -> ReqState] /\ req[r] \in ReqState
  BY DEF SessionInv, SessionTyped
<1>2. ASSUME req' = req
      PROVE  Kept(r)
  BY <1>2 DEF Kept, Finished
<1>3. CASE Connect \/ ConnectionLost \/ BrokerStep \/ UNCHANGED sessionVars
  BY <1>2, <1>3
     DEF Connect, ConnectionLost, BrokerStep, BrokerSubscribes, BrokerRefuses, BrokerForwards,
         sessionVars
<1>4. ASSUME NEW k \in Connections, HookStep(k)
      PROVE  Kept(r)
  BY <1>2, <1>4 DEF HookStep, SubscribeTelemetry, SubscribeNotification, SubscribeTo
<1>5. CASE Restart
  BY <1>1, <1>5 DEF Restart, ReqState, Kept, Finished
<1>6. ASSUME NEW s \in Requests, RequestStep(s)
      PROVE  Kept(r)
  <2>1. CASE SendCommand(s)
    BY <1>1, <2>1 DEF SendCommand, ReqState, Kept, Finished
  <2>2. CASE CommandDropped(s)
    BY <1>1, <2>2 DEF CommandDropped, ReqState, Kept, Finished
  <2>3. CASE WaitOver(s)
    BY <1>1, <2>3 DEF WaitOver, ReqState, Kept, Finished
  <2>4. CASE Answer(s)
    BY <1>1, <2>4 DEF Answer, ReqState, Kept, Finished
  <2> QED
    BY <1>6, <2>1, <2>2, <2>3, <2>4 DEF RequestStep
<1> QED
  BY <1>3, <1>4, <1>5, <1>6 DEF SessionNext, LinkStep, CommandStep, Starts

Writes ==
  \E pk \in Packets :
    wire' = Append(wire, pk) /\ (pk[1] = "publish" => ~Finished(pk[2]))

LEMMA WireSteps ==
  ASSUME SessionInv, [SessionNext]_sessionVars, ~BrokerForwards
  PROVE  /\ taken' = taken /\ settings' = settings
         /\ \/ wire' = wire \/ wire' = <<>> \/ Writes
            \/ wire # <<>> /\ wire' = Tail(wire)
<1>1. CASE \/ Connect \/ ConnectionLost \/ Restart
           \/ BrokerSubscribes \/ BrokerRefuses \/ UNCHANGED sessionVars
  BY <1>1 DEF Connect, ConnectionLost, Restart, BrokerSubscribes, BrokerRefuses, sessionVars
<1>2. ASSUME NEW k \in Connections, HookStep(k)
      PROVE  taken' = taken /\ settings' = settings /\ (wire' = wire \/ Writes)
  <2>1. PICK t \in Topics : wire' = wire \/ wire' = Append(wire, <<"subscribe", t>>)
    BY <1>2 DEF HookStep, SubscribeTelemetry, SubscribeNotification, SubscribeTo, Write, Topics
  <2>2. <<"subscribe", t>> \in Packets /\ <<"subscribe", t>>[1] # "publish"
    BY PacketKinds
  <2>3. wire' = wire \/ Writes
    BY <2>1, <2>2 DEF Writes
  <2> QED
    BY <1>2, <2>3 DEF HookStep, SubscribeTelemetry, SubscribeNotification, SubscribeTo
<1>3. ASSUME NEW r \in Requests, SendCommand(r)
      PROVE  taken' = taken /\ settings' = settings /\ (wire' = wire \/ Writes)
  <2> DEFINE pk == <<"publish", r, req[r].next>>
  <2>1. req[r].next \in Nat
    BY DEF SessionInv, SessionTyped, ReqState
  <2>2. pk \in Packets /\ pk[2] = r
    BY <2>1, PacketKinds
  <2>3. wire' = wire \/ wire' = Append(wire, pk)
    BY <1>3 DEF SendCommand, Write
  <2>4. ~Finished(r)
    BY <1>3 DEF SendCommand, Finished
  <2> HIDE DEF pk
  <2>5. wire' = wire \/ Writes
    BY <2>2, <2>3, <2>4 DEF Writes
  <2> QED
    BY <1>3, <2>5 DEF SendCommand
<1>4. ASSUME NEW r \in Requests,
             CommandDropped(r) \/ WaitOver(r) \/ Answer(r) \/ \E q \in Routes : StartRequest(r, q)
      PROVE  taken' = taken /\ settings' = settings /\ wire' = wire
  BY <1>4 DEF CommandDropped, WaitOver, Answer, StartRequest
<1> QED
  BY <1>1, <1>2, <1>3, <1>4
     DEF SessionNext, LinkStep, CommandStep, RequestStep, BrokerStep

LEMMA StartKeeps ==
  ASSUME SessionInv, NEW s \in Requests, NEW q \in Routes, StartRequest(s, q)
  PROVE  /\ wire' = wire /\ taken' = taken /\ settings' = settings
         /\ req[s].at = "idle" /\ ~Finished(s) /\ req'[s].at = "serving"
         /\ req'[s].after = {r \in Requests : Finished(r)}
         /\ \A r \in Requests \ {s} : req'[r] = req[r] /\ Kept(r)
         /\ OnWire(s) = {} /\ ToSet(taken[s]) = {} /\ req[s].after = {}
<1>1. req \in [Requests -> ReqState]
  BY DEF SessionInv, SessionTyped
<1>2. /\ wire' = wire /\ taken' = taken /\ settings' = settings /\ req[s].at = "idle"
      /\ req'[s].at = "serving" /\ req'[s].after = {r \in Requests : Finished(r)}
      /\ \A r \in Requests \ {s} : req'[r] = req[r]
  BY <1>1 DEF StartRequest, Finished
<1>3. \A r \in Requests \ {s} : Kept(r)
  BY <1>2 DEF Kept, Finished
<1>4. Published(s) = {} /\ req[s].after = {}
  BY <1>2 DEF SessionInv, Placed
<1> QED
  BY <1>2, <1>3, <1>4 DEF Published, Finished

LEMMA FifoStep ==
  ASSUME SessionInv, FifoInv, [SessionNext]_sessionVars
  PROVE  FifoInv'
<1> SUFFICES ASSUME NEW r \in Requests, NEW s \in Requests, r \in req'[s].after
             PROVE  /\ Finished(r)' /\ s \notin req'[r].after
                    /\ \A p \in OnWire(r)', q \in OnWire(s)' : p < q
                    /\ OnWire(r)' # {} => ToSet(taken[s])' = {}
  BY DEF FifoInv
<1>1. wire \in Seq(Packets) /\ taken \in [Requests -> Seq(Nat)] /\ Len(wire) \in Nat
  BY DEF SessionInv, SessionTyped
<1>2. CASE Starts
  <2>1. PICK t \in Requests : \E q \in Routes : StartRequest(t, q)
    BY <1>2 DEF Starts
  <2>2. /\ wire' = wire /\ taken' = taken /\ ~Finished(t)
        /\ req'[t].after = {u \in Requests : Finished(u)}
        /\ \A u \in Requests \ {t} : req'[u] = req[u] /\ Kept(u)
        /\ OnWire(t) = {} /\ ToSet(taken[t]) = {}
    BY <2>1, StartKeeps
  <2>3. \A u : OnWire(u)' = OnWire(u)
    BY <2>2, TrafficStands
  <2>4. CASE s = t
    <3>1. Finished(r) /\ r # t
      BY <2>2, <2>4
    <3>2. t \notin req[r].after
      BY <2>2 DEF FifoInv
    <3> QED
      BY <2>2, <2>3, <2>4, <3>1, <3>2 DEF Kept
  <2>5. CASE s # t
    <3>1. r \in req[s].after
      BY <2>2, <2>5
    <3>2. r # t
      BY <2>2, <3>1 DEF FifoInv
    <3> QED
      BY <2>2, <2>3, <3>1, <3>2 DEF FifoInv, Kept
  <2> QED
    BY <2>4, <2>5
<1>3. CASE ~Starts
  <2>1. Kept(r) /\ Kept(s)
    BY <1>3, OthersKeep
  <2>2. /\ Finished(r) /\ s \notin req[r].after
        /\ \A p \in OnWire(r), q \in OnWire(s) : p < q
        /\ OnWire(r) # {} => ToSet(taken[s]) = {}
    BY <2>1 DEF FifoInv, Kept
  <2>3. Finished(r)' /\ s \notin req'[r].after
    BY <2>1, <2>2 DEF Kept
  <2>4. ASSUME wire # <<>>, wire' = Tail(wire)
        PROVE  \A p \in OnWire(r)', q \in OnWire(s)' : p < q
    <3>1. /\ \A u : \A p : p \in OnWire(u)' => p + 1 \in OnWire(u)
          /\ \A u : OnWire(u)' \subseteq 1 .. Len(wire) - 1
      BY <1>1, <2>4, WireTaken
    <3>2. \A p \in OnWire(r)', q \in OnWire(s)' : p + 1 < q + 1
      BY <2>2, <3>1
    <3>3. \A p, q \in 1 .. Len(wire) - 1 : p + 1 < q + 1 => p < q
      BY <1>1
    <3> QED
      BY <3>1, <3>2, <3>3
  <2>5. CASE BrokerForwards
    <3>1. wire # <<>> /\ wire' = Tail(wire)
      BY <2>5 DEF BrokerForwards
    <3>2. PICK t \in Requests :
            1 \in OnWire(t) /\ \A u \in Requests \ {t} : taken'[u] = taken[u]
      BY <2>5, Forwarded
    <3>3. CASE s = t
      <4>1. OnWire(r) \subseteq 1 .. Len(wire)
        BY <1>1, <3>1, WireTaken
      <4>2. OnWire(r) = {}
        BY <1>1, <2>2, <3>2, <3>3, <4>1
      <4>3. OnWire(r)' = {}
        BY <1>1, <3>1, <4>2, WireTaken
      <4> QED
        BY <2>3, <4>3
    <3>4. CASE s # t
      <4>1. taken'[s] = taken[s] /\ (OnWire(r)' # {} => OnWire(r) # {})
        BY <1>1, <3>1, <3>2, <3>4, WireTaken
      <4> QED
        BY <2>2, <2>3, <2>4, <3>1, <4>1
    <3> QED
      BY <3>3, <3>4
  <2>6. CASE ~BrokerForwards
    <3>1. taken' = taken
      BY <2>6, WireSteps
    <3>2. CASE wire' = wire
      BY <2>2, <2>3, <3>1, <3>2, TrafficStands
    <3>3. CASE wire' = <<>>
      <4>1. OnWire(r)' = {}
        BY <3>1, <3>3, TrafficLost
      <4> QED
        BY <2>3, <4>1
    <3>4. CASE Writes
      <4>1. PICK pk \in Packets :
              wire' = Append(wire, pk) /\ (pk[1] = "publish" => ~Finished(pk[2]))
        BY <3>4 DEF Writes
      <4>2. /\ \A u : OnWire(u)' = OnWire(u) \cup
                 (IF pk[1] = "publish" /\ pk[2] = u THEN {Len(wire) + 1} ELSE {})
            /\ \A u : OnWire(u) \subseteq 1 .. Len(wire)
        BY <1>1, <4>1, WireAppended
      <4>3. OnWire(r)' = OnWire(r)
        BY <2>2, <4>1, <4>2
      <4>4. \A p \in OnWire(r), q \in OnWire(s)' : p < q
        <5>1. \A p \in OnWire(r) : p < Len(wire) + 1
          BY <1>1, <4>2
        <5> QED
          BY <2>2, <4>2, <5>1
      <4> QED
        BY <2>2, <2>3, <3>1, <4>3, <4>4
    <3>5. CASE wire # <<>> /\ wire' = Tail(wire)
      <4>1. OnWire(r)' # {} => OnWire(r) # {}
        BY <1>1, <3>5, WireTaken
      <4> QED
        BY <2>2, <2>3, <2>4, <3>1, <3>5, <4>1
    <3> QED
      BY <2>6, <3>2, <3>3, <3>4, <3>5, WireSteps
  <2> QED
    BY <2>5, <2>6
<1> QED
  BY <1>2, <1>3

LEMMA CommandShape ==
  ASSUME NEW q, NEW i \in 1 .. Len(CommandsOf(q))
  PROVE  CommandsOf(q)[i] = Command(CommandsOf(q)[i].method, CommandsOf(q)[i].params)
<1>1. CASE CommandsOf(q) = <<>>
  BY <1>1
<1>2. ASSUME NEW m, NEW v, CommandsOf(q) = <<Command(m, v)>>
      PROVE  CommandsOf(q)[i] = Command(CommandsOf(q)[i].method, CommandsOf(q)[i].params)
  <2>1. i = 1
    BY <1>2
  <2> QED
    BY <1>2, <2>1 DEF Command
<1>3. CASE CommandsOf(q) = ModeCommands(q.value)
  <2>1. i = 1 \/ i = 2
    BY <1>3 DEF ModeCommands
  <2> QED
    BY <1>3, <2>1 DEF ModeCommands, Command
<1> QED
  BY <1>1, <1>2, <1>3, RouteCommands

LEMMA SettingsStep ==
  ASSUME SessionInv, FifoInv, SettingsInv, [SessionNext]_sessionVars
  PROVE  SettingsInv'
<1> SUFFICES ASSUME NEW d \in Devices
             PROVE  /\ \A r \in RequestsTo(d)' : \A m : TookMethod(r, m)' => m \in DOMAIN settings'[d]
                    /\ \A m \in DOMAIN settings'[d] : \E t \in RequestsTo(d)' : LastWriter(t, m, d)'
  BY DEF SettingsInv
<1>1. /\ \A r \in RequestsTo(d) : \A m : TookMethod(r, m) => m \in DOMAIN settings[d]
      /\ \A m \in DOMAIN settings[d] : \E t \in RequestsTo(d) : LastWriter(t, m, d)
  BY DEF SettingsInv
<1>2. CASE Starts
  <2>1. PICK s \in Requests : \E q \in Routes : StartRequest(s, q)
    BY <1>2 DEF Starts
  <2>2. /\ taken' = taken /\ settings' = settings /\ req[s].at = "idle"
        /\ \A r \in Requests \ {s} : req'[r] = req[r]
        /\ ToSet(taken[s]) = {}
    BY <2>1, StartKeeps
  <2>3. /\ RequestsTo(d) \subseteq RequestsTo(d)' \ {s}
        /\ RequestsTo(d)' \subseteq RequestsTo(d) \cup {s}
    BY <2>2 DEF RequestsTo
  <2>4. \A m : ~TookMethod(s, m)'
    BY <2>2 DEF TookMethod
  <2>5. \A r \in RequestsTo(d) : \A m :
          /\ TookMethod(r, m)' = TookMethod(r, m) /\ req'[r].after = req[r].after
          /\ \A v : Took(r, m, v)' = Took(r, m, v)
    BY <2>2, <2>3 DEF TookMethod, Took, Commands, RequestsTo
  <2>6. \A t \in RequestsTo(d) : \A m : LastWriter(t, m, d) => LastWriter(t, m, d)'
    BY <2>2, <2>3, <2>4, <2>5 DEF LastWriter
  <2> QED
    BY <1>1, <2>2, <2>3, <2>4, <2>5, <2>6
<1>3. CASE ~Starts /\ ~BrokerForwards
  <2>1. taken' = taken /\ settings' = settings
    BY <1>3, WireSteps
  <2>2. \A r \in Requests : Kept(r)
    BY <1>3, OthersKeep
  <2>3. RequestsTo(d)' = RequestsTo(d)
    BY <2>2 DEF RequestsTo, Kept
  <2>4. \A r \in RequestsTo(d) : \A m :
          /\ TookMethod(r, m)' = TookMethod(r, m) /\ req'[r].after = req[r].after
          /\ \A v : Took(r, m, v)' = Took(r, m, v)
    BY <2>1, <2>2 DEF TookMethod, Took, Commands, RequestsTo, Kept
  <2>5. \A t \in RequestsTo(d) : \A m : LastWriter(t, m, d) => LastWriter(t, m, d)'
    BY <2>1, <2>3, <2>4 DEF LastWriter
  <2> QED
    BY <1>1, <2>1, <2>3, <2>4, <2>5
<1>4. CASE BrokerForwards
  <2>1. PICK r \in Requests : \E i \in 1 .. Len(Commands(r)) :
          /\ 1 \in OnWire(r) /\ req[r].at # "idle"
          /\ \A s \in Requests \ {r} : taken'[s] = taken[s]
          /\ Len(taken'[r]) = Len(taken[r]) + 1
          /\ \A j \in 1 .. Len(taken[r]) : taken'[r][j] = taken[r][j]
          /\ taken'[r][Len(taken[r]) + 1] = i
          /\ settings' = [settings EXCEPT ![req[r].route.device]
                            = Set(settings[req[r].route.device], Commands(r)[i])]
    BY <1>4, Forwarded
  <2>2. PICK i \in 1 .. Len(Commands(r)) :
          /\ 1 \in OnWire(r) /\ req[r].at # "idle"
          /\ \A s \in Requests \ {r} : taken'[s] = taken[s]
          /\ Len(taken'[r]) = Len(taken[r]) + 1
          /\ \A j \in 1 .. Len(taken[r]) : taken'[r][j] = taken[r][j]
          /\ taken'[r][Len(taken[r]) + 1] = i
          /\ settings' = [settings EXCEPT ![req[r].route.device]
                            = Set(settings[req[r].route.device], Commands(r)[i])]
    BY <2>1
  <2>3. req' = req
    BY <1>4 DEF BrokerForwards
  <2>4. \A s : Commands(s)' = Commands(s) /\ RequestsTo(d)' = RequestsTo(d)
    BY <2>3 DEF Commands, RequestsTo
  <2>5. ToSet(taken'[r]) = ToSet(taken[r]) \cup {i}
    <3>1. taken[r] \in Seq(Nat) /\ taken'[r] \in Seq(Nat)
      BY <1>4, BrokerForwardsInv DEF SessionInv, SessionTyped
    <3>2. /\ Len(taken[r]) \in Nat /\ DOMAIN taken[r] = 1 .. Len(taken[r])
          /\ DOMAIN taken'[r] = 1 .. Len(taken[r]) + 1
      BY <2>2, <3>1
    <3>3. \A j : j \in 1 .. Len(taken[r]) + 1 <=> j \in 1 .. Len(taken[r]) \/ j = Len(taken[r]) + 1
      BY <3>2
    <3> QED
      BY <2>2, <3>2, <3>3 DEF ToSet
  <2> DEFINE e == req[r].route.device
  <2>6. PICK m1, v1 : Commands(r)[i] = Command(m1, v1)
    BY CommandShape DEF Commands
  <2>6a. Commands(r)[i].method = m1
    BY <2>6 DEF Command
  <2>7. e \in Devices
    BY <2>2, SessionAssumption DEF SessionInv, Placed
  <2>8. settings' = [settings EXCEPT ![e] = Set(settings[e], Command(m1, v1))]
    BY <2>2, <2>6
  <2>9. settings = [c \in Devices |-> settings[c]]
    BY DEF SessionInv, SessionTyped
  <2>10. CASE d # e
    <3>1. settings'[d] = settings[d]
      BY <2>7, <2>8, <2>9, <2>10
    <3>2. \A s \in RequestsTo(d) : taken'[s] = taken[s]
      BY <2>2, <2>10 DEF RequestsTo
    <3>3. \A s \in RequestsTo(d) : \A m :
            TookMethod(s, m)' = TookMethod(s, m) /\ \A v : Took(s, m, v)' = Took(s, m, v)
      BY <2>4, <3>2 DEF TookMethod, Took
    <3>4. \A t \in RequestsTo(d) : \A m : LastWriter(t, m, d) => LastWriter(t, m, d)'
      BY <2>3, <2>4, <3>1, <3>3 DEF LastWriter
    <3> QED
      BY <1>1, <2>4, <3>1, <3>3, <3>4
  <2>11. CASE d = e
    <3>1. settings'[d] = Set(settings[d], Command(m1, v1))
      BY <2>7, <2>8, <2>9, <2>11
    <3> HIDE DEF e
    <3>2. /\ DOMAIN settings'[d] = DOMAIN settings[d] \cup {m1}
          /\ settings'[d][m1] = v1
          /\ \A m \in DOMAIN settings[d] \ {m1} : settings'[d][m] = settings[d][m]
      BY <3>1 DEF Set, Command
    <3>3. \A s \in RequestsTo(d) : \A m :
            TookMethod(s, m)' => TookMethod(s, m) \/ (s = r /\ m = m1)
      BY <2>2, <2>4, <2>5, <2>6a DEF TookMethod, RequestsTo
    <3>4. \A s \in RequestsTo(d) : \A m, v : Took(s, m, v) => Took(s, m, v)'
      BY <2>2, <2>4, <2>5 DEF Took, RequestsTo
    <3>5. r \in RequestsTo(d)
      BY <2>2, <2>11 DEF RequestsTo, e
    <3>6. LastWriter(r, m1, d)'
      <4>1. Took(r, m1, settings[d][m1])'
        BY <2>4, <2>5, <2>6, <3>2 DEF Took
      <4>2. ASSUME NEW s \in RequestsTo(d), TookMethod(s, m1)', r \in req[s].after
            PROVE  FALSE
        <5>1. s \in Requests
          BY DEF RequestsTo
        <5>2. s # r /\ ToSet(taken[s]) = {}
          BY <2>2, <4>2, <5>1 DEF FifoInv
        <5>3. ToSet(taken'[s]) = {}
          BY <2>2, <5>1, <5>2
        <5>4. \E j \in ToSet(taken'[s]) : TRUE
          BY <4>2 DEF TookMethod
        <5> QED
          BY <5>3, <5>4
      <4> QED
        BY <2>3, <2>4, <4>1, <4>2 DEF LastWriter
    <3>7. ASSUME NEW m \in DOMAIN settings[d], m # m1
          PROVE  \E t \in RequestsTo(d) : LastWriter(t, m, d)'
      <4>1. PICK t \in RequestsTo(d) : LastWriter(t, m, d)
        BY <1>1
      <4>2. LastWriter(t, m, d)'
        BY <2>3, <2>4, <3>2, <3>3, <3>4, <3>7, <4>1 DEF LastWriter
      <4> QED
        BY <4>2
    <3> QED
      BY <1>1, <2>4, <3>2, <3>3, <3>5, <3>6, <3>7
  <2> QED
    BY <2>10, <2>11
<1> QED
  BY <1>2, <1>3, <1>4

(* Two requests send different values for one method at most: of those     *)
(* that send two commands, the second is always stage 0.                   *)
LEMMA OneDiffers ==
  ASSUME NEW r, NEW s
  PROVE  \E m0 : \A m \in Methods(r) \cap Methods(s) :
           m # m0 => \A v : Sets(r, m, v) <=> Sets(s, m, v)
<1>1. ASSUME NEW t, Commands(t) = <<>> \/ \E m, v : Commands(t) = <<Command(m, v)>>
      PROVE  \E m0 : \A m \in Methods(t) : m = m0
  <2>1. CASE Commands(t) = <<>>
    BY <2>1 DEF Methods
  <2>2. ASSUME NEW m0, NEW v, Commands(t) = <<Command(m0, v)>>
        PROVE  \A m \in Methods(t) : m = m0
    BY <2>2 DEF Methods, Command
  <2> QED
    BY <1>1, <2>1, <2>2
<1>2. ASSUME NEW t, NEW a, Commands(t) = ModeCommands(a)
      PROVE  /\ \A m \in Methods(t) : m \in {"setMode", "setStage"}
             /\ \A v : Sets(t, "setStage", v) <=> v = 0
  <2>1. /\ DOMAIN Commands(t) = {1, 2} /\ Commands(t)[1] = Command("setMode", a)
        /\ Commands(t)[2] = Command("setStage", 0)
    BY <1>2 DEF ModeCommands
  <2> QED
    BY <2>1 DEF Methods, Sets, Command
<1>3. CASE \E a, b : Commands(r) = ModeCommands(a) /\ Commands(s) = ModeCommands(b)
  <2>1. \A m \in Methods(r) \cap Methods(s) :
          m # "setMode" => \A v : Sets(r, m, v) <=> Sets(s, m, v)
    BY <1>2, <1>3
  <2> QED
    BY <2>1
<1> QED
  BY <1>1, <1>3, RouteCommands DEF Commands

(* A property that holds either way round, or has a last writer to say.    *)
LEMMA InTurn ==
  ASSUME SessionInv, FifoInv, SettingsInv,
         NEW d \in Devices, NEW r \in RequestsTo(d), NEW s \in RequestsTo(d),
         RequestsTo(d) = {r, s},
         ToSet(taken[r]) = DOMAIN Commands(r), ToSet(taken[s]) = DOMAIN Commands(s)
  PROVE  \/ s \notin req[r].after /\ LeftBy(r, s, d)
         \/ r \notin req[s].after /\ LeftBy(s, r, d)
<1>1. \A t \in {r, s} : \A m :
        /\ TookMethod(t, m) <=> m \in Methods(t)
        /\ \A v : Took(t, m, v) <=> Sets(t, m, v)
        /\ \A v : Sets(t, m, v) => m \in Methods(t)
  BY DEF TookMethod, Took, Methods, Sets, Command
<1>2. \A m \in DOMAIN settings[d] : \E t \in {r, s} : LastWriter(t, m, d)
  BY DEF SettingsInv
<1>3. DOMAIN settings[d] = Methods(r) \cup Methods(s)
  <2>1. \A t \in {r, s} : \A m \in Methods(t) : m \in DOMAIN settings[d]
    BY <1>1 DEF SettingsInv
  <2>2. \A m \in DOMAIN settings[d] : m \in Methods(r) \cup Methods(s)
    BY <1>1, <1>2 DEF LastWriter
  <2> QED
    BY <2>1, <2>2
<1>4. /\ \A m \in Methods(r) \ Methods(s) : Sets(r, m, settings[d][m])
      /\ \A m \in Methods(s) \ Methods(r) : Sets(s, m, settings[d][m])
  BY <1>1, <1>2, <1>3 DEF LastWriter
<1>5. PICK m0 : \A m \in Methods(r) \cap Methods(s) :
        m # m0 => \A v : Sets(r, m, v) <=> Sets(s, m, v)
  BY OneDiffers
<1>6. \A m \in Methods(r) \cap Methods(s) :
        m # m0 => Sets(r, m, settings[d][m]) /\ Sets(s, m, settings[d][m])
  BY <1>1, <1>2, <1>3, <1>5 DEF LastWriter
<1>7. CASE m0 \notin Methods(r) \cap Methods(s)
  <2>1. LeftBy(r, s, d) /\ LeftBy(s, r, d)
    BY <1>3, <1>4, <1>6, <1>7 DEF LeftBy
  <2>2. s \notin req[r].after \/ r \notin req[s].after
    BY DEF FifoInv, RequestsTo
  <2> QED
    BY <2>1, <2>2
<1>8. CASE m0 \in Methods(r) \cap Methods(s)
  <2>1. PICK t \in {r, s} : LastWriter(t, m0, d)
    BY <1>2, <1>3, <1>8
  <2>2. Sets(t, m0, settings[d][m0]) /\ t \notin req[r].after /\ t \notin req[s].after
    BY <1>1, <1>8, <2>1 DEF LastWriter
  <2>3. CASE t = s
    BY <1>3, <1>4, <1>6, <2>2, <2>3 DEF LeftBy
  <2>4. CASE t = r
    BY <1>3, <1>4, <1>6, <2>2, <2>4 DEF LeftBy
  <2> QED
    BY <2>3, <2>4
<1> QED
  BY <1>7, <1>8

(* The mode switches and the stage: two requests to one device, mixed as   *)
(* they may be, leave it as one of them after the other would.             *)
THEOREM MixedRequestsSerialise == SessionSteps => []SwitchesSerialise
<1>1. SessionInit => FifoInv /\ SettingsInv
  BY DEF SessionInit, Idle, FifoInv, SettingsInv, RequestsTo
<1>2. SessionInv /\ FifoInv /\ SettingsInv /\ [SessionNext]_sessionVars => FifoInv' /\ SettingsInv'
  BY FifoStep, SettingsStep
<1>3. SessionInv /\ FifoInv /\ SettingsInv => SwitchesSerialise
  BY InTurn DEF SwitchesSerialise
<1> QED
  BY <1>1, <1>2, <1>3, SessionIsInductive, PTL DEF SessionSteps

=============================================================================
