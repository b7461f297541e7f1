---------------------------- MODULE MqttSession ----------------------------
(***************************************************************************)
(* The one MQTT client of the backend (mqtt/mqtt.go) and the routes that   *)
(* send commands to devices through it (controller/telemetry.go, ota.go).  *)
(*                                                                         *)
(* The client connects and reconnects by itself (ConnectRetry,             *)
(* AutoReconnect); each time the library starts OnConnect as a goroutine,  *)
(* which subscribes to the two topics.  Everything is sent at QoS 0: what  *)
(* is on the wire when a connection is lost is gone.  IsConnected answers  *)
(* TRUE while the client connects or reconnects; what is published then is *)
(* dropped by the library, and what is subscribed fails at once.  Every    *)
(* outcome of a publication or a subscription is logged and nothing else:  *)
(* a subscription that the broker refuses, or does not answer within the   *)
(* ten seconds of WaitTimeout, is not made again over that connection.     *)
(***************************************************************************)
EXTENDS Naturals, Sequences, SequencesExt

CONSTANTS
  Devices,
  Requests,        \* slots for requests to the routes that send commands
  Routes,          \* what they ask for: a route, a device, a value
  MaxConnections,  \* bound: connections made in a behaviour
  None             \* no value; as the value of a route, a body that does not parse

ASSUME SessionAssumption ==
  /\ MaxConnections \in Nat
  /\ \A q \in Routes : q.device \in Devices

VARIABLES
  client,    \* the state of service.MqttClient
  epoch,     \* the number of connections made so far
  hook,      \* hook[k]: where OnConnect of the k-th connection stands
  wire,      \* the packets written and not yet taken by the broker
  subs,      \* the topics the broker's session of this client has
  refused,   \* for the properties: those the broker refused over this connection
  req,       \* req[r]: where request r stands
  taken,     \* taken[r]: the commands of r that the broker has taken
  settings   \* settings[d]: the last command of each method sent on to d

linkVars    == <<client, epoch, hook, subs, refused>>
sessionVars == <<linkVars, wire, req, taken, settings>>

Topics == {"/telemetry/+", "/notification/+"}

Connections == 1 .. MaxConnections

IsConnected == client # "disconnected"

-----------------------------------------------------------------------------
(* The commands of a route.  A JSON true is 1 here, a false 0.             *)

Command(method, params) == [method |-> method, params |-> params]

(* FanOn, FanOff, MotorOn, MotorOff, HeaterOn, HeaterOff.                  *)
DeviceControl(q) == <<Command(q.route, q.value)>>

ModeCommandsWithStage(auto) ==   \* slip: MANUAL goes on with the first stage
  <<Command("setMode", auto), Command("setStage", 1 - auto)>>

(* SetAutoMode and SetManualMode: the mode, then stage 0.                  *)
ModeCommands(auto) == <<Command("setMode", auto), Command("setStage", 0)>>

(* SetStage: stage 0 stands for the automatic mode.                        *)
StageCommands(stage) ==
  IF stage = 0 THEN <<Command("setMode", 1)>> ELSE <<Command("setStage", stage)>>

(* SetThresholdAdmin refuses a body without any threshold (here 0).        *)
ThresholdAdminCommands(params) ==
  IF params = 0 THEN <<>> ELSE <<Command("setThresholdAdmin", params)>>

(* UpdateFirmware hands on the version, URL, size and hash it is given.    *)
FirmwareCommands(image) == <<Command("otaUpdate", image)>>

(* SetThreshold, SetStageSettings, SetSystemEnabled and GetDeviceStatus    *)
(* send one command too; SetThreshold takes its method from the body.      *)
PlainCommands(q) == <<Command(q.route, q.value)>>

(* The table of routes; a body that does not parse is answered with 400.   *)
CommandsOf(q) ==
  IF q.value = None THEN <<>>
  ELSE CASE q.route \in {"fan", "motor", "heater"} -> DeviceControl(q)
         [] q.route = "mode"                       -> ModeCommands(q.value)
         [] q.route = "set-stage"                  -> StageCommands(q.value)
         [] q.route = "threshold/admin"            -> ThresholdAdminCommands(q.value)
         [] q.route = "update-firmware"            -> FirmwareCommands(q.value)
         [] OTHER                                  -> PlainCommands(q)

Idle == [at |-> "idle", route |-> None, next |-> 1, since |-> 0, after |-> {}]

(* ConnectMQTT: with a broker it can parse the client begins to connect,   *)
(* otherwise it never will.                                                *)
SessionInit ==
  /\ client \in {"connecting", "disconnected"}
  /\ epoch = 0
  /\ hook = [k \in Connections |-> "off"]
  /\ wire = <<>>
  /\ subs = {}
  /\ refused = {}
  /\ req = [r \in Requests |-> Idle]
  /\ taken = [r \in Requests |-> <<>>]
  /\ settings = [d \in Devices |-> <<>>]

-----------------------------------------------------------------------------
(* The connection.                                                         *)

ConnectSubscribingOnce ==   \* slip: the subscriptions are made once, not in OnConnect
  /\ client \in {"connecting", "reconnecting"}
  /\ epoch < MaxConnections
  /\ client' = "up"
  /\ epoch' = epoch + 1
  /\ hook' = [hook EXCEPT ![epoch + 1] = IF epoch = 0 THEN "telemetry" ELSE "done"]
  /\ UNCHANGED <<wire, subs, refused, req, taken, settings>>

(* The library has connected, and starts OnConnect.                        *)
Connect ==
  /\ client \in {"connecting", "reconnecting"}
  /\ epoch < MaxConnections
  /\ client' = "up"
  /\ epoch' = epoch + 1
  /\ hook' = [hook EXCEPT ![epoch + 1] = "telemetry"]
  /\ UNCHANGED <<wire, subs, refused, req, taken, settings>>

(* The connection breaks.  As CleanSession is off, the broker keeps the    *)
(* subscriptions, unless it loses them by a restart of its own.            *)
ConnectionLost ==
  /\ client = "up"
  /\ client' = "reconnecting"
  /\ wire' = <<>>
  /\ subs' \in {subs, {}}
  /\ refused' = {}
  /\ UNCHANGED <<epoch, hook, req, taken, settings>>

(* The process stops and main starts anew, with a new client ID: to the    *)
(* broker it is a client without subscriptions.                            *)
Restart ==
  /\ client' \in {"connecting", "disconnected"}
  /\ hook' = [k \in Connections |-> IF k <= epoch THEN "done" ELSE "off"]
  /\ wire' = <<>>
  /\ subs' = {}
  /\ refused' = {}
  /\ req' = [r \in Requests |-> IF req[r].at \in {"serving", "waiting"}
                                THEN [req[r] EXCEPT !.at = "cut"] ELSE req[r]]
  /\ UNCHANGED <<epoch, taken, settings>>

WriteIfConnected(packet) ==   \* slip: IsConnected is taken for an open connection
  wire' = IF IsConnected THEN Append(wire, packet) ELSE wire

(* A packet reaches the wire only over a connection that is up.            *)
Write(packet) == wire' = IF client = "up" THEN Append(wire, packet) ELSE wire

(* Subscribe, and the wait for its token, which ends by an answer of the    *)
(* broker, an error or the timeout; whichever it is, OnConnect goes on.     *)
SubscribeTo(k, at, topic, then) ==
  /\ hook[k] = at
  /\ hook' = [hook EXCEPT ![k] = then]
  /\ IF IsConnected THEN Write(<<"subscribe", topic>>) ELSE UNCHANGED wire
  /\ UNCHANGED <<client, epoch, subs, refused, req, taken, settings>>

(* OnConnect of the k-th connection, which by now may be an earlier one.   *)
SubscribeTelemetry(k) == SubscribeTo(k, "telemetry", "/telemetry/+", "notification")

SubscribeNotification(k) == SubscribeTo(k, "notification", "/notification/+", "done")

-----------------------------------------------------------------------------
(* A request to one of the routes, and SendCommand.                        *)

(* For the properties it is noted over which connection the request        *)
(* starts, if any, and which requests it starts after.                     *)
StartRequest(r, q) ==
  /\ req[r].at = "idle"
  /\ req' = [req EXCEPT ![r] =
       [at |-> "serving", route |-> q, next |-> 1,
        since |-> IF client = "up" THEN epoch ELSE 0,
        after |-> {s \in Requests : req[s].at \in {"answered", "cut"}}]]
  /\ UNCHANGED <<linkVars, wire, taken, settings>>

Commands(r) == CommandsOf(req[r].route)

(* Publish hands over the next command and returns a token to wait for ... *)
SendCommand(r) ==
  /\ req[r].at = "serving"
  /\ req[r].next <= Len(Commands(r))
  /\ IsConnected
  /\ Write(<<"publish", r, req[r].next>>)
  /\ req' = [req EXCEPT ![r].at = "waiting"]
  /\ UNCHANGED <<linkVars, taken, settings>>

(* ... unless IsConnected answers FALSE: the command is dropped.           *)
CommandDropped(r) ==
  /\ req[r].at = "serving"
  /\ req[r].next <= Len(Commands(r))
  /\ ~IsConnected
  /\ req' = [req EXCEPT ![r].next = @ + 1]
  /\ UNCHANGED <<linkVars, wire, taken, settings>>

WaitOverCompleted(r) ==   \* slip: Wait in place of WaitTimeout
  /\ req[r].at = "waiting"
  /\ client # "connecting"
  /\ req' = [req EXCEPT ![r].at = "serving", ![r].next = @ + 1]
  /\ UNCHANGED <<linkVars, wire, taken, settings>>

WaitOverOrAgain(r) ==   \* slip: a publication that has timed out is tried again
  /\ req[r].at = "waiting"
  /\ \/ req' = [req EXCEPT ![r].at = "serving", ![r].next = @ + 1]
     \/ req' = [req EXCEPT ![r].at = "serving"]
  /\ UNCHANGED <<linkVars, wire, taken, settings>>

(* WaitTimeout returns: the token has completed, with an error or without, *)
(* or ten seconds have passed.  While the client connects for the first    *)
(* time no token completes.                                                *)
WaitOver(r) ==
  /\ req[r].at = "waiting"
  /\ req' = [req EXCEPT ![r].at = "serving", ![r].next = @ + 1]
  /\ UNCHANGED <<linkVars, wire, taken, settings>>

(* All commands are behind it, and the route answers.                      *)
Answer(r) ==
  /\ req[r].at = "serving"
  /\ req[r].next > Len(Commands(r))
  /\ req' = [req EXCEPT ![r].at = "answered"]
  /\ UNCHANGED <<linkVars, wire, taken, settings>>

-----------------------------------------------------------------------------
(* The broker takes the packets in the order they were written.            *)

BrokerSubscribes ==
  /\ wire # <<>> /\ Head(wire)[1] = "subscribe"
  /\ wire' = Tail(wire)
  /\ subs' = subs \cup {Head(wire)[2]}
  /\ UNCHANGED <<client, epoch, hook, refused, req, taken, settings>>

(* The broker refuses a subscription, or takes it and never answers; of an *)
(* earlier one to the topic it keeps what it had, or nothing.              *)
BrokerRefuses ==
  /\ wire # <<>> /\ Head(wire)[1] = "subscribe"
  /\ wire' = Tail(wire)
  /\ refused' = refused \cup {Head(wire)[2]}
  /\ subs' \in {subs, subs \ {Head(wire)[2]}}
  /\ UNCHANGED <<client, epoch, hook, req, taken, settings>>

(* The settings of a device once it is sent the command cmd.               *)
Set(now, cmd) ==
  [m \in DOMAIN now \cup {cmd.method} |-> IF m = cmd.method THEN cmd.params ELSE now[m]]

(* A command goes to the topic /cmd/ of the device of its request.         *)
BrokerForwards ==
  /\ wire # <<>> /\ Head(wire)[1] = "publish"
  /\ wire' = Tail(wire)
  /\ LET r == Head(wire)[2]
         i == Head(wire)[3]
     IN /\ taken' = [taken EXCEPT ![r] = Append(@, i)]
        /\ settings' = [settings EXCEPT ![req[r].route.device] = Set(@, Commands(r)[i])]
  /\ UNCHANGED <<linkVars, req>>

-----------------------------------------------------------------------------
HookStep(k) == SubscribeTelemetry(k) \/ SubscribeNotification(k)

RequestStep(r) == SendCommand(r) \/ CommandDropped(r) \/ WaitOver(r) \/ Answer(r)

BrokerStep == BrokerSubscribes \/ BrokerRefuses \/ BrokerForwards

(* All steps but a restart, which more than the session takes part in.     *)
LinkStep ==
  \/ Connect \/ ConnectionLost
  \/ \E k \in Connections : HookStep(k)
  \/ BrokerStep

CommandStep ==
  \E r \in Requests : RequestStep(r) \/ \E q \in Routes : StartRequest(r, q)

SessionNext == LinkStep \/ CommandStep \/ Restart

(* Goroutines run on, timers fire, and a broker that is connected reads.   *)
(* That a connection is ever made, or kept, is not assumed.                *)
SessionFairness ==
  /\ \A k \in Connections : WF_sessionVars(HookStep(k))
  /\ \A r \in Requests : WF_sessionVars(RequestStep(r))
  /\ WF_sessionVars(BrokerStep)

SessionSpec == SessionInit /\ [][SessionNext]_sessionVars /\ SessionFairness

-----------------------------------------------------------------------------
(* Properties.                                                             *)

RequestPhase == {"idle", "serving", "waiting", "answered", "cut"}

(* The variables hold values of their types, nothing is on the wire of a   *)
(* connection that is not up nor has been refused over it, and no          *)
(* OnConnect runs before its connection.                                   *)
SessionTypeOK ==
  /\ client \in {"disconnected", "connecting", "up", "reconnecting"}
  /\ epoch \in 0 .. MaxConnections
  /\ hook \in [Connections -> {"off", "telemetry", "notification", "done"}]
  /\ \A k \in Connections : hook[k] = "off" <=> k > epoch
  /\ subs \subseteq Topics /\ refused \subseteq Topics
  /\ client # "up" => wire = <<>> /\ refused = {}
  /\ \A r \in Requests :
       /\ req[r].at \in RequestPhase
       /\ req[r].at # "idle" =>
            req[r].route \in Routes /\ req[r].next \in 1 .. Len(Commands(r)) + 1

(* The places of the commands of r on the wire, and which of its commands  *)
(* have been published and not lost.                                       *)
OnWire(r) == {p \in DOMAIN wire : wire[p][1] = "publish" /\ wire[p][2] = r}

Published(r) == ToSet(taken[r]) \cup {wire[p][3] : p \in OnWire(r)}

InOrder(r) ==
  /\ \A i, j \in DOMAIN taken[r] : i < j => taken[r][i] < taken[r][j]
  /\ \A p, q \in OnWire(r) : p < q => wire[p][3] < wire[q][3]
  /\ \A i \in DOMAIN taken[r], p \in OnWire(r) : taken[r][i] < wire[p][3]

(* SendCommand never publishes twice, whatever becomes of the token it     *)
(* waits for: what of a request goes out goes in the order the route sends *)
(* it; and as long as the connection over which the request started        *)
(* stands, each of its commands has been taken by the broker or is on its  *)
(* way.                                                                    *)
SteadyConnectionDelivers ==
  \A r \in Requests :
    /\ InOrder(r)
    /\ req[r].at \notin {"idle", "cut"} /\ client = "up" /\ req[r].since = epoch
       => Published(r) = 1 .. (IF req[r].at = "waiting" THEN req[r].next ELSE req[r].next - 1)

RequestsTo(d) == {r \in Requests : req[r].at # "idle" /\ req[r].route.device = d}

Methods(r) == {Commands(r)[i].method : i \in DOMAIN Commands(r)}

Sets(r, m, value) == \E i \in DOMAIN Commands(r) : Commands(r)[i] = Command(m, value)

(* The device d has the settings that r and then s ask for.                *)
LeftBy(r, s, d) ==
  /\ DOMAIN settings[d] = Methods(r) \cup Methods(s)
  /\ \A m \in Methods(s) : Sets(s, m, settings[d][m])
  /\ \A m \in Methods(r) \ Methods(s) : Sets(r, m, settings[d][m])

(* Two requests to one device send their pairs of commands mixed with one  *)
(* another's.  When nothing is lost, the device still ends as if they had  *)
(* come one after the other, in an order that keeps to who was answered    *)
(* before whom: never the mode of one with the stage of another.           *)
SwitchesSerialise ==
  \A d \in Devices : \A r, s \in RequestsTo(d) :
    RequestsTo(d) = {r, s} /\ (\A t \in {r, s} : ToSet(taken[t]) = DOMAIN Commands(t))
      => \/ s \notin req[r].after /\ LeftBy(r, s, d)
         \/ r \notin req[s].after /\ LeftBy(s, r, d)

(* A route is always answered: SendCommand waits ten seconds at most, also *)
(* while the client has never been connected and no token completes.       *)
RequestsAnswered ==
  \A r \in Requests : req[r].at = "serving" ~> req[r].at \in {"answered", "cut"}

(* Once the connection stands for good, each subscription does, unless the *)
(* broker has refused that one over this very connection, which nothing    *)
(* tries again: OnConnect makes both for every connection, whether the     *)
(* broker remembers the session or not and whatever became of them before, *)
(* the refusal of one does not keep it from the other, and an OnConnect    *)
(* still running for an earlier connection does no harm.                   *)
SubscribedAgain == <>[](client = "up") => <>[](Topics \subseteq subs \cup refused)

=============================================================================
