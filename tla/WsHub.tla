------------------------------- MODULE WsHub -------------------------------
(***************************************************************************)
(* The WebSocket hub: the registry service.DeviceClients behind            *)
(* service.Mutex, BroadcastTelemetry and RemoveWsClient                    *)
(* (service/telemetry.go), and for every WebSocket request the handler     *)
(* DeviceStatusWS and its goroutine writePump (controller/telemetry.go).   *)
(*                                                                         *)
(* Three kinds of goroutine interleave: one handler and one writer per     *)
(* client, one goroutine per call of BroadcastTelemetry.  A critical       *)
(* section under Mutex.Lock holds no blocking call and is one step; the    *)
(* section under Mutex.RLock is a loop of channel sends that the writers   *)
(* and the unlocked send of DeviceStatusWS interleave with, so it is one   *)
(* step per client.                                                        *)
(***************************************************************************)
EXTENDS Naturals, Sequences

CONSTANTS
  Clients,     \* WebSocket requests; each becomes one *WsClient
  Devices,     \* device IDs
  DeviceOf,    \* DeviceOf[c]: the :id of request c (the route has no empty :id)
  Broadcasts,  \* calls of BroadcastTelemetry, each named by the telemetry it carries
  TopicOf,     \* TopicOf[b]: the deviceID argument of call b
  Snapshots,   \* telemetries the collection may hold for GetTelemetry to find
  SendCap,     \* capacity of the channel WsClient.Send (100 in the code)
  None         \* GetTelemetry returned an error: no telemetry to send first

ASSUME HubAssumption ==
  /\ DeviceOf \in [Clients -> Devices]
  /\ TopicOf \in [Broadcasts -> Devices]
  /\ SendCap \in Nat \ {0}
  /\ None \notin Snapshots

VARIABLES
  DeviceClients, \* deviceID -> set of clients; a device without clients has no entry
  ws,            \* ws[c]: where DeviceStatusWS of c stands
  latest,        \* latest[c]: what GetTelemetry returned to c, until it is offered
  pump,          \* pump[c]: where writePump of c stands
  link,          \* link[c]: whether the connection of c can still be read
  log,           \* log[c]: everything ever put into the channel c.Send, oldest first
  taken,         \* taken[c]: how many of them writePump has received
  closes,        \* closes[c]: how often c.Send has been closed
  bc,            \* bc[b]: where the call b of BroadcastTelemetry stands
  audience,      \* audience[b]: the clients b found when it took the read lock
  todo,          \* todo[b]: those the range loop of b has still to visit
  slow           \* slow[b]: slowClients of b

hubVars == <<DeviceClients, ws, latest, pump, link, log, taken, closes,
             bc, audience, todo, slow>>

regVars    == <<DeviceClients, closes>>
pumpVars   == <<pump, taken>>
clientVars == <<ws, latest, pump, link, taken>>
castVars   == <<bc, audience, todo, slow>>

(* What a channel carries: a telemetry that was broadcast, or the stored   *)
(* one that DeviceStatusWS sends first.                                    *)
Live(b)   == <<"live", b>>
Stored(t) == <<"stored", t>>
Message   == ({"live"} \X Broadcasts) \cup ({"stored"} \X Snapshots)

HandlerPhase   == {"upgrade", "load", "offer", "start", "read", "leave", "unwind",
                   "done", "panicked"}
PumpPhase      == {"off", "select", "write", "done"}
BroadcastPhase == {"idle", "send", "evict", "done", "panicked"}

(* DeviceClients[d], where Go reads a missing entry as an empty map.       *)
Lookup(d) == IF d \in DOMAIN DeviceClients THEN DeviceClients[d] ELSE {}

Registered(c) == c \in Lookup(DeviceOf[c])
Closed(c)     == closes[c] > 0
Buffered(c)   == Len(log[c]) - taken[c]

LockFreeAlways == TRUE   \* slip: the loop of sends takes no read lock

(* Mutex.Lock waits for the calls of BroadcastTelemetry inside RLock.      *)
LockFree == \A b \in Broadcasts : bc[b] # "send"

Init ==
  /\ DeviceClients = [d \in {} |-> {}]
  /\ ws       = [c \in Clients |-> "upgrade"]
  /\ latest   = [c \in Clients |-> None]
  /\ pump     = [c \in Clients |-> "off"]
  /\ link     = [c \in Clients |-> "up"]
  /\ log      = [c \in Clients |-> <<>>]
  /\ taken    = [c \in Clients |-> 0]
  /\ closes   = [c \in Clients |-> 0]
  /\ bc       = [b \in Broadcasts |-> "idle"]
  /\ audience = [b \in Broadcasts |-> {}]
  /\ todo     = [b \in Broadcasts |-> {}]
  /\ slow     = [b \in Broadcasts |-> {}]

-----------------------------------------------------------------------------
(* RemoveWsClient(d, c): one critical section under Mutex.Lock.            *)

(* Slips: the empty entry stays; no test of membership; no close.          *)
RemoveWsClientKeepingKey(d, c) ==
  /\ LockFree
  /\ IF c \in Lookup(d)
     THEN /\ DeviceClients' = [DeviceClients EXCEPT ![d] = @ \ {c}]
          /\ closes' = [closes EXCEPT ![c] = @ + 1]
     ELSE UNCHANGED regVars

RemoveWsClientAnyway(d, c) ==
  /\ LockFree
  /\ DeviceClients' = [k \in {j \in DOMAIN DeviceClients : DeviceClients[j] # {c}} |->
                         DeviceClients[k] \ {c}]
  /\ closes' = [closes EXCEPT ![c] = @ + 1]

RemoveWsClientUnclosed(d, c) ==
  /\ LockFree
  /\ DeviceClients' = [k \in {j \in DOMAIN DeviceClients : DeviceClients[j] # {c}} |->
                         DeviceClients[k] \ {c}]
  /\ UNCHANGED closes

RemoveWsClient(d, c) ==
  /\ LockFree
  /\ IF c \in Lookup(d)
     THEN LET left == Lookup(d) \ {c}
              keys == IF left = {} THEN DOMAIN DeviceClients \ {d}
                                   ELSE DOMAIN DeviceClients
          IN  /\ DeviceClients' = [k \in keys |-> IF k = d THEN left
                                                  ELSE DeviceClients[k]]
              /\ closes' = [closes EXCEPT ![c] = @ + 1]
     ELSE UNCHANGED regVars

-----------------------------------------------------------------------------
(* DeviceStatusWS.                                                         *)

(* The client is created with an empty channel and registered.             *)
RegisterClient(c) ==
  /\ ws[c] = "upgrade"
  /\ LockFree
  /\ DeviceClients' = [d \in DOMAIN DeviceClients \cup {DeviceOf[c]} |->
                         IF d = DeviceOf[c] THEN Lookup(d) \cup {c}
                                            ELSE DeviceClients[d]]
  /\ ws' = [ws EXCEPT ![c] = "load"]
  /\ UNCHANGED <<latest, link, log, closes, pumpVars, castVars>>

(* GetTelemetry returns the stored telemetry t, or an error (None).  The   *)
(* client is registered by now: broadcasts reach its channel meanwhile.    *)
LoadTelemetry(c, t) ==
  /\ ws[c] = "load"
  /\ latest' = [latest EXCEPT ![c] = t]
  /\ ws' = [ws EXCEPT ![c] = "offer"]
  /\ UNCHANGED <<link, log, regVars, pumpVars, castVars>>

(* select { case client.Send <- telemetry: default: } without the lock: a  *)
(* full channel drops the telemetry, a closed one panics, and the deferred *)
(* RemoveWsClient runs while the handler unwinds.                          *)
OfferTelemetry(c) ==
  /\ ws[c] = "offer"
  /\ IF latest[c] # None /\ ~Closed(c) /\ Buffered(c) < SendCap
     THEN log' = [log EXCEPT ![c] = Append(@, Stored(latest[c]))]
     ELSE UNCHANGED log
  /\ ws' = [ws EXCEPT ![c] = IF latest[c] # None /\ Closed(c) THEN "unwind"
                                                              ELSE "start"]
  /\ latest' = [latest EXCEPT ![c] = None]
  /\ UNCHANGED <<link, regVars, pumpVars, castVars>>

(* go writePump(client), then the read loop.                               *)
StartPumpNot(c) ==   \* slip: writePump is never started
  /\ ws[c] = "start"
  /\ ws' = [ws EXCEPT ![c] = "read"]
  /\ UNCHANGED <<latest, link, log, regVars, pumpVars, castVars>>

StartPump(c) ==
  /\ ws[c] = "start"
  /\ ws' = [ws EXCEPT ![c] = "read"]
  /\ pump' = [pump EXCEPT ![c] = "select"]
  /\ UNCHANGED <<latest, link, log, taken, regVars, castVars>>

(* ReadMessage fails: the peer is gone, was silent for pongWait, or        *)
(* writePump has closed the connection.  A message that arrives is ignored.*)
ReadFails(c) ==
  /\ ws[c] = "read"
  /\ link[c] = "down"
  /\ ws' = [ws EXCEPT ![c] = "leave"]
  /\ UNCHANGED <<latest, link, log, regVars, pumpVars, castVars>>

LeaveClientOnly(c) ==   \* slip: no deferred RemoveWsClient
  /\ ws[c] \in {"leave", "unwind"}
  /\ ws' = [ws EXCEPT ![c] = IF @ = "leave" THEN "done" ELSE "panicked"]
  /\ link' = [link EXCEPT ![c] = "down"]
  /\ UNCHANGED <<latest, log, regVars, pumpVars, castVars>>

(* defer RemoveWsClient: on the normal return and on a panic.  The server  *)
(* closes the connection of a handler that has ended.                      *)
LeaveClient(c) ==
  /\ ws[c] \in {"leave", "unwind"}
  /\ RemoveWsClient(DeviceOf[c], c)
  /\ ws' = [ws EXCEPT ![c] = IF @ = "leave" THEN "done" ELSE "panicked"]
  /\ link' = [link EXCEPT ![c] = "down"]
  /\ UNCHANGED <<latest, log, pumpVars, castVars>>

(* The peer closes, the network fails, or pongs stop coming.               *)
PeerLeaves(c) ==
  /\ ws[c] \notin {"upgrade", "done", "panicked"}
  /\ link[c] = "up"
  /\ link' = [link EXCEPT ![c] = "down"]
  /\ UNCHANGED <<ws, latest, log, regVars, pumpVars, castVars>>

-----------------------------------------------------------------------------
(* writePump.                                                              *)

HangUpLeavingConn(c) ==   \* slip: no deferred Close
  /\ pump' = [pump EXCEPT ![c] = "done"]
  /\ UNCHANGED link

(* writePump returns; its deferred call closes the connection.             *)
HangUp(c) ==
  /\ pump' = [pump EXCEPT ![c] = "done"]
  /\ link' = [link EXCEPT ![c] = "down"]

PumpTakeUnchecked(c) ==   \* slip: ok is not looked at
  /\ pump[c] = "select"
  /\ Buffered(c) > 0 \/ Closed(c)
  /\ taken' = [taken EXCEPT ![c] = @ + 1]
  /\ pump' = [pump EXCEPT ![c] = "write"]
  /\ UNCHANGED <<ws, latest, link, log, regVars, castVars>>

(* msg, ok := <-client.Send with ok: a closed channel still yields what it *)
(* has buffered.                                                           *)
PumpTake(c) ==
  /\ pump[c] = "select"
  /\ Buffered(c) > 0
  /\ taken' = [taken EXCEPT ![c] = @ + 1]
  /\ pump' = [pump EXCEPT ![c] = "write"]
  /\ UNCHANGED <<ws, latest, link, log, regVars, castVars>>

(* WriteJSON: it succeeds, or fails (by writeWait at the latest).          *)
PumpWrite(c) ==
  /\ pump[c] = "write"
  /\ \/ pump' = [pump EXCEPT ![c] = "select"] /\ UNCHANGED link
     \/ HangUp(c)
  /\ UNCHANGED <<ws, latest, log, taken, regVars, castVars>>

(* The ticker fires and the ping cannot be written; one that can be        *)
(* written changes nothing.                                                *)
PumpPingFails(c) ==
  /\ pump[c] = "select"
  /\ HangUp(c)
  /\ UNCHANGED <<ws, latest, log, taken, regVars, castVars>>

(* msg, ok := <-client.Send without ok: the channel is closed and drained, *)
(* a close frame is tried and writePump returns.                           *)
PumpDrained(c) ==
  /\ pump[c] = "select"
  /\ Closed(c) /\ Buffered(c) = 0
  /\ HangUp(c)
  /\ UNCHANGED <<ws, latest, log, taken, regVars, castVars>>

-----------------------------------------------------------------------------
(* BroadcastTelemetry(TopicOf[b], b).                                      *)

(* RLock; a device without an entry ends the call.                         *)
BroadcastStart(b) ==
  /\ bc[b] = "idle"
  /\ bc' = [bc EXCEPT ![b] = IF TopicOf[b] \in DOMAIN DeviceClients
                             THEN "send" ELSE "done"]
  /\ audience' = [audience EXCEPT ![b] = Lookup(TopicOf[b])]
  /\ todo' = [todo EXCEPT ![b] = Lookup(TopicOf[b])]
  /\ UNCHANGED <<slow, log, regVars, clientVars>>

BroadcastSendSkipping(b, c) ==   \* slip: a full channel is passed over
  /\ bc[b] = "send"
  /\ c \in todo[b]
  /\ todo' = [todo EXCEPT ![b] = @ \ {c}]
  /\ bc' = [bc EXCEPT ![b] = IF Closed(c) THEN "panicked" ELSE @]
  /\ IF ~Closed(c) /\ Buffered(c) < SendCap
     THEN log' = [log EXCEPT ![c] = Append(@, Live(b))]
     ELSE UNCHANGED log
  /\ UNCHANGED <<slow, audience, regVars, clientVars>>

(* One turn of the range loop, in any order of the map: the select sends   *)
(* or, when the channel is full, notes a slow client; a send on a closed   *)
(* channel panics.                                                         *)
BroadcastSend(b, c) ==
  /\ bc[b] = "send"
  /\ c \in todo[b]
  /\ todo' = [todo EXCEPT ![b] = @ \ {c}]
  /\ bc' = [bc EXCEPT ![b] = IF Closed(c) THEN "panicked" ELSE @]
  /\ IF ~Closed(c) /\ Buffered(c) < SendCap
     THEN log' = [log EXCEPT ![c] = Append(@, Live(b))]
     ELSE UNCHANGED log
  /\ slow' = [slow EXCEPT ![b] = IF ~Closed(c) /\ Buffered(c) >= SendCap
                                 THEN @ \cup {c} ELSE @]
  /\ UNCHANGED <<audience, regVars, clientVars>>

BroadcastUnlock(b) ==
  /\ bc[b] = "send"
  /\ todo[b] = {}
  /\ bc' = [bc EXCEPT ![b] = "evict"]
  /\ UNCHANGED <<audience, todo, slow, log, regVars, clientVars>>

BroadcastEvictAgain(b, c) ==   \* slip: the evicted client stays in slowClients
  /\ bc[b] = "evict"
  /\ c \in slow[b]
  /\ RemoveWsClient(TopicOf[b], c)
  /\ UNCHANGED <<slow, bc, audience, todo, log, clientVars>>

(* One turn of the loop over slowClients.                                  *)
BroadcastEvict(b, c) ==
  /\ bc[b] = "evict"
  /\ c \in slow[b]
  /\ RemoveWsClient(TopicOf[b], c)
  /\ slow' = [slow EXCEPT ![b] = @ \ {c}]
  /\ UNCHANGED <<bc, audience, todo, log, clientVars>>

BroadcastReturn(b) ==
  /\ bc[b] = "evict"
  /\ slow[b] = {}
  /\ bc' = [bc EXCEPT ![b] = "done"]
  /\ UNCHANGED <<audience, todo, slow, log, regVars, clientVars>>

-----------------------------------------------------------------------------
(* Scheduling.                                                             *)

HandlerStep(c) ==
  \/ \E t \in Snapshots \cup {None} : LoadTelemetry(c, t)
  \/ OfferTelemetry(c) \/ StartPump(c) \/ ReadFails(c) \/ LeaveClient(c)

PumpStep(c) == PumpTake(c) \/ PumpWrite(c) \/ PumpDrained(c)

BroadcastStep(b) ==
  \/ \E c \in Clients : BroadcastSend(b, c) \/ BroadcastEvict(b, c)
  \/ BroadcastUnlock(b) \/ BroadcastReturn(b)

(* The goroutines that have ended; an ended hub idles.                     *)
HandlerEnded(c) == ws[c] \in {"done", "panicked"} /\ pump[c] \in {"off", "done"}
CallEnded(b)    == bc[b] \in {"done", "panicked"}

Idle ==
  /\ \A c \in Clients : HandlerEnded(c)
  /\ \A b \in Broadcasts : CallEnded(b)
  /\ UNCHANGED hubVars

Next ==
  \/ \E c \in Clients : \/ RegisterClient(c) \/ HandlerStep(c) \/ PeerLeaves(c)
                         \/ PumpStep(c) \/ PumpPingFails(c)
  \/ \E b \in Broadcasts : BroadcastStart(b) \/ BroadcastStep(b)
  \/ Idle

Spec == Init /\ [][Next]_hubVars

(* The Go scheduler runs every goroutine that can run, GetTelemetry and    *)
(* WriteJSON end by their timeouts, and RWMutex lets no new reader pass a  *)
(* waiting writer.  Requests, broadcasts, hang-ups of the peer and failing *)
(* pings come from outside and need not come.                              *)
FairSpec ==
  /\ Spec
  /\ \A c \in Clients : WF_hubVars(HandlerStep(c)) /\ WF_hubVars(PumpStep(c))
  /\ \A b \in Broadcasts : WF_hubVars(BroadcastStep(b))

-----------------------------------------------------------------------------
(* Properties.                                                             *)

(* Every variable holds a value of its Go type; a channel never holds more *)
(* than its capacity (WsClient, DeviceClients).                            *)
TypeOK ==
  /\ DOMAIN DeviceClients \subseteq Devices
  /\ \A d \in DOMAIN DeviceClients : DeviceClients[d] \subseteq Clients
  /\ ws \in [Clients -> HandlerPhase]
  /\ latest \in [Clients -> Snapshots \cup {None}]
  /\ pump \in [Clients -> PumpPhase]
  /\ link \in [Clients -> {"up", "down"}]
  /\ log \in [Clients -> Seq(Message)]
  /\ taken \in [Clients -> Nat]
  /\ closes \in [Clients -> Nat]
  /\ \A c \in Clients : taken[c] <= Len(log[c]) /\ Buffered(c) <= SendCap
  /\ bc \in [Broadcasts -> BroadcastPhase]
  /\ audience \in [Broadcasts -> SUBSET Clients]
  /\ todo \in [Broadcasts -> SUBSET Clients]
  /\ slow \in [Broadcasts -> SUBSET Clients]

(* The registry has no entry without a client and no client under a device *)
(* that is not its own (delete(DeviceClients, deviceID) in RemoveWsClient).*)
RegistryTidy ==
  \A d \in DOMAIN DeviceClients :
    /\ DeviceClients[d] # {}
    /\ \A c \in DeviceClients[d] : DeviceOf[c] = d

(* RemoveWsClient "unregisters a client and closes its send channel        *)
(* exactly once", whoever calls it and in whatever order: the channel of a *)
(* registered client is open, that of one removed has been closed once.    *)
RemovedExactlyOnce ==
  \A c \in Clients :
    closes[c] = IF ws[c] = "upgrade" \/ Registered(c) THEN 0 ELSE 1

(* The deferred RemoveWsClient leaves no client behind: one whose handler  *)
(* has ended is in no entry of DeviceClients.                              *)
EndedIsUnregistered ==
  \A c \in Clients : ws[c] \in {"done", "panicked"} =>
                       \A d \in DOMAIN DeviceClients : c \notin DeviceClients[d]

(* BroadcastTelemetry never sends on a closed channel: it sends under the  *)
(* read lock to the registered clients, and close runs under the lock.     *)
NoBroadcastPanic == \A b \in Broadcasts : bc[b] # "panicked"

(* The message m is in the history h never, or once.                       *)
NeverIn(m, h) == \A i \in DOMAIN h : h[i] # m
OnceIn(m, h)  == \E i \in DOMAIN h : h[i] = m /\ \A j \in DOMAIN h : h[j] = m => j = i

(* When a call of BroadcastTelemetry has returned, every client it found   *)
(* registered has been sent the telemetry exactly once or is registered no *)
(* longer: a slow client is cut off, never silently skipped.               *)
NoSilentLoss ==
  \A b \in Broadcasts : bc[b] = "done" =>
    \A c \in audience[b] : Registered(c) => OnceIn(Live(b), log[c])

(* Where a call stands with each client it found registered: those it has  *)
(* still to visit are registered and have not got the telemetry, neither   *)
(* have the slow ones, and the others have got it once or, after an        *)
(* eviction, are registered no longer.                                     *)
CallInv(b) ==
  /\ todo[b] \subseteq audience[b]
  /\ slow[b] \subseteq audience[b] \ todo[b]
  /\ \A c \in audience[b] : DeviceOf[c] = TopicOf[b] /\ ws[c] # "upgrade"
  /\ \A c \in todo[b] : Registered(c)
  /\ bc[b] = "idle" => audience[b] = {}
  /\ bc[b] # "send" => todo[b] = {}
  /\ bc[b] = "done" => slow[b] = {}
  /\ \A c \in Clients :
       IF c \in audience[b] \ (todo[b] \cup slow[b])
       THEN OnceIn(Live(b), log[c]) \/ (bc[b] # "send" /\ ~Registered(c))
       ELSE NeverIn(Live(b), log[c])

(* What the safety of the hub rests on: the registry, the channels and the *)
(* calls under way agree with one another.                                 *)
HubInv ==
  /\ RegistryTidy
  /\ RemovedExactlyOnce
  /\ NoBroadcastPanic
  /\ \A c \in Clients :
       ws[c] \in {"upgrade", "done", "panicked"} => ~Registered(c)
  /\ \A b \in Broadcasts : CallInv(b)

(* A client whose connection has failed is forgotten: its handler and its  *)
(* writer end and it is registered no longer (DeviceStatusWS's read loop,  *)
(* its defer, and writePump's exit on the closed channel).                 *)
LostClientIsForgotten ==
  \A c \in Clients :
    link[c] = "down" ~> HandlerEnded(c) /\ ~Registered(c)

(* An evicted client is hung up on: the closed channel ends writePump,     *)
(* which closes the connection, which ends the read loop of DeviceStatusWS.*)
EvictedClientIsHungUpOn ==
  \A c \in Clients : Closed(c) ~> HandlerEnded(c) /\ link[c] = "down"

(* What is queued for a client is taken to be written in the end, unless   *)
(* its writer has ended or DeviceStatusWS has panicked: the snapshot and   *)
(* the broadcasts that came before writePump started are not forgotten.    *)
QueuedIsTaken ==
  \A c \in Clients :
    Buffered(c) > 0 ~> Buffered(c) = 0 \/ pump[c] = "done" \/ ws[c] = "panicked"

(* BroadcastTelemetry returns, however slow its clients are: neither a     *)
(* full channel nor the eviction of its owner blocks it for ever.          *)
BroadcastReturns ==
  \A b \in Broadcasts : bc[b] = "send" ~> bc[b] = "done"

(* DeviceStatusWS, to "send latest telemetry immediately", does not panic. *)
SnapshotNeverPanics == \A c \in Clients : ws[c] \notin {"unwind", "panicked"}

(* What DeviceFeed sees of the hub: a client is a member while it is       *)
(* registered, and a call owes its telemetry to those it has still to      *)
(* visit and those it found slow, as long as they are registered.          *)
FeedMember == [c \in Clients |-> IF ws[c] = "upgrade" THEN "new"
                                 ELSE IF Registered(c) THEN "in" ELSE "out"]
FeedCall   == [b \in Broadcasts |-> IF bc[b] = "idle" THEN "idle"
                                    ELSE IF bc[b] = "done" THEN "returned" ELSE "open"]
FeedOwed   == [b \in Broadcasts |-> {c \in todo[b] \cup slow[b] : Registered(c)}]

(* The hub keeps the promise of DeviceFeed: what was put into a channel is *)
(* the feed of its client.                                                 *)
Feed == INSTANCE DeviceFeed WITH
  Publications <- Broadcasts, feed <- log,
  member <- FeedMember, call <- FeedCall, owed <- FeedOwed

FeedSpec == Feed!Spec

=============================================================================
