---------------------------- MODULE WsHub_proofs ----------------------------
(***************************************************************************)
(* Safety of the WebSocket hub for every set of clients, devices and       *)
(* broadcasts and every channel capacity: type correctness, the inductive  *)
(* invariant HubInv and what follows from it, and that the hub implements  *)
(* DeviceFeed.                                                             *)
(***************************************************************************)
EXTENDS WsHub, TLAPS

(* What Append does to the channel's history.                              *)
LEMMA AppendFacts ==
  ASSUME NEW S, NEW s \in Seq(S), NEW e \in S
  PROVE  /\ Append(s, e) \in Seq(S)
         /\ Len(s) \in Nat
         /\ Len(Append(s, e)) = Len(s) + 1
         /\ DOMAIN s = 1..Len(s)
         /\ DOMAIN Append(s, e) = 1..(Len(s) + 1)
         /\ \A i \in 1..Len(s) : Append(s, e)[i] = s[i]
         /\ Append(s, e)[Len(s) + 1] = e
  OBVIOUS

(* A send into a channel with room leaves every history a sequence of      *)
(* messages and no channel above its capacity.                             *)
LEMMA SendType ==
  ASSUME HubAssumption, TypeOK, NEW c \in Clients, NEW m \in Message,
         Buffered(c) < SendCap,
         log' = [log EXCEPT ![c] = Append(@, m)], taken' = taken
  PROVE  /\ log' \in [Clients -> Seq(Message)]
         /\ \A k \in Clients : taken'[k] <= Len(log'[k]) /\ Buffered(k)' <= SendCap
<1>1. log[c] \in Seq(Message) /\ log \in [Clients -> Seq(Message)]
  BY DEF TypeOK
<1>2. Append(log[c], m) \in Seq(Message) /\ Len(Append(log[c], m)) = Len(log[c]) + 1
  BY <1>1, AppendFacts
<1>3. log' \in [Clients -> Seq(Message)] /\ log'[c] = Append(log[c], m)
  BY <1>1, <1>2
<1>4. taken[c] \in Nat /\ Len(log[c]) \in Nat /\ SendCap \in Nat /\ taken[c] <= Len(log[c])
  BY <1>1, AppendFacts DEF TypeOK, HubAssumption
<1>5. ASSUME NEW k \in Clients
      PROVE  taken'[k] <= Len(log'[k]) /\ Buffered(k)' <= SendCap
  <2>1. CASE k = c
    BY <2>1, <1>2, <1>3, <1>4 DEF Buffered
  <2>2. CASE k # c
    <3>1. log'[k] = log[k]
      BY <2>2, <1>1
    <3> QED
      BY <3>1 DEF TypeOK, Buffered
  <2> QED
    BY <2>1, <2>2
<1> QED
  BY <1>3, <1>5

(* RemoveWsClient keeps the registry and the counts of closes well typed.  *)
LEMMA RemoveType ==
  ASSUME TypeOK, NEW d, NEW c \in Clients, RemoveWsClient(d, c)
  PROVE  /\ DOMAIN DeviceClients' \subseteq Devices
         /\ \A e \in DOMAIN DeviceClients' : DeviceClients'[e] \subseteq Clients
         /\ closes' \in [Clients -> Nat]
<1>1. CASE c \in Lookup(d)
  BY <1>1 DEF TypeOK, RemoveWsClient, Lookup
<1>2. CASE c \notin Lookup(d)
  BY <1>2 DEF TypeOK, RemoveWsClient, regVars
<1> QED
  BY <1>1, <1>2

(* All goroutines start with values of the right types.                    *)
LEMMA InitType == Init => TypeOK
<1> USE HubAssumption
<1> SUFFICES ASSUME Init PROVE TypeOK
  OBVIOUS
<1>1. \A c \in Clients : log[c] = <<>> /\ taken[c] = 0 /\ Len(log[c]) = 0
  BY DEF Init
<1>2. \A c \in Clients : taken[c] <= Len(log[c]) /\ Buffered(c) <= SendCap
  <2>1. SendCap \in Nat
    BY DEF HubAssumption
  <2>2. ASSUME NEW c \in Clients
        PROVE  taken[c] <= Len(log[c]) /\ Buffered(c) <= SendCap
    <3>1. taken[c] = 0 /\ Len(log[c]) = 0
      BY <1>1
    <3>2. Buffered(c) = 0
      BY <3>1 DEF Buffered
    <3> QED
      BY <2>1, <3>1, <3>2
  <2> QED
    BY <2>2
<1> QED
  BY <1>2 DEF Init, TypeOK, HandlerPhase, PumpPhase, BroadcastPhase

(* Every step of the hub keeps the types.                                  *)
LEMMA NextType == TypeOK /\ [Next]_hubVars => TypeOK'
<1> USE HubAssumption
<1> SUFFICES ASSUME TypeOK, [Next]_hubVars PROVE TypeOK'
  OBVIOUS
<1>1. ASSUME NEW c \in Clients, RegisterClient(c) PROVE TypeOK'
  <2>1. DeviceOf[c] \in Devices
    BY DEF HubAssumption
  <2>2. /\ DOMAIN DeviceClients' \subseteq Devices
        /\ \A d \in DOMAIN DeviceClients' : DeviceClients'[d] \subseteq Clients
    BY <1>1, <2>1 DEF TypeOK, RegisterClient, Lookup
  <2> QED
    BY <1>1, <2>2 DEF TypeOK, RegisterClient, HandlerPhase, pumpVars, castVars, Buffered
<1>2. ASSUME NEW c \in Clients, NEW t \in Snapshots \cup {None}, LoadTelemetry(c, t)
      PROVE TypeOK'
  BY <1>2 DEF TypeOK, LoadTelemetry, HandlerPhase, regVars, pumpVars, castVars, Buffered
<1>3. ASSUME NEW c \in Clients, OfferTelemetry(c) PROVE TypeOK'
  <2>1. /\ log' \in [Clients -> Seq(Message)]
        /\ \A k \in Clients : taken'[k] <= Len(log'[k]) /\ Buffered(k)' <= SendCap
    <3>1. CASE latest[c] # None /\ ~Closed(c) /\ Buffered(c) < SendCap
      <4>1. Stored(latest[c]) \in Message
        BY <3>1 DEF TypeOK, Stored, Message
      <4> QED
        BY <1>3, <3>1, <4>1, SendType DEF OfferTelemetry, pumpVars
    <3>2. CASE ~(latest[c] # None /\ ~Closed(c) /\ Buffered(c) < SendCap)
      BY <1>3, <3>2 DEF OfferTelemetry, pumpVars, TypeOK, Buffered
    <3> QED
      BY <3>1, <3>2
  <2> QED
    BY <1>3, <2>1 DEF TypeOK, OfferTelemetry, HandlerPhase, regVars, pumpVars, castVars
<1>4. ASSUME NEW c \in Clients, StartPump(c) PROVE TypeOK'
  BY <1>4 DEF TypeOK, StartPump, HandlerPhase, PumpPhase, regVars, castVars, Buffered
<1>5. ASSUME NEW c \in Clients, ReadFails(c) PROVE TypeOK'
  BY <1>5 DEF TypeOK, ReadFails, HandlerPhase, regVars, pumpVars, castVars, Buffered
<1>6. ASSUME NEW c \in Clients, LeaveClient(c) PROVE TypeOK'
  <2>1. /\ DOMAIN DeviceClients' \subseteq Devices
        /\ \A e \in DOMAIN DeviceClients' : DeviceClients'[e] \subseteq Clients
        /\ closes' \in [Clients -> Nat]
    BY <1>6, RemoveType DEF LeaveClient
  <2> QED
    BY <1>6, <2>1 DEF TypeOK, LeaveClient, HandlerPhase, pumpVars, castVars, Buffered
<1>7. ASSUME NEW c \in Clients, PeerLeaves(c) PROVE TypeOK'
  BY <1>7 DEF TypeOK, PeerLeaves, regVars, pumpVars, castVars, Buffered
<1>8. ASSUME NEW c \in Clients, PumpTake(c) PROVE TypeOK'
  <2>1. \A k \in Clients : taken[k] \in Nat /\ Len(log[k]) \in Nat
    BY AppendFacts DEF TypeOK
  <2>2. \A k \in Clients : taken'[k] <= Len(log'[k]) /\ Buffered(k)' <= SendCap
    BY <1>8, <2>1 DEF TypeOK, PumpTake, Buffered, HubAssumption
  <2> QED
    BY <1>8, <2>2 DEF TypeOK, PumpTake, PumpPhase, regVars, castVars
<1>9. ASSUME NEW c \in Clients, PumpWrite(c) \/ PumpPingFails(c) \/ PumpDrained(c)
      PROVE TypeOK'
  BY <1>9 DEF TypeOK, PumpWrite, PumpPingFails, PumpDrained, HangUp, PumpPhase,
              regVars, castVars, Buffered
<1>10. ASSUME NEW b \in Broadcasts, BroadcastStart(b) PROVE TypeOK'
  <2>1. Lookup(TopicOf[b]) \subseteq Clients
    BY DEF TypeOK, Lookup
  <2> QED
    BY <1>10, <2>1 DEF TypeOK, BroadcastStart, BroadcastPhase, regVars, clientVars, Buffered
<1>11. ASSUME NEW b \in Broadcasts, NEW c \in Clients, BroadcastSend(b, c)
       PROVE TypeOK'
  <2>1. /\ log' \in [Clients -> Seq(Message)]
        /\ \A k \in Clients : taken'[k] <= Len(log'[k]) /\ Buffered(k)' <= SendCap
    <3>1. CASE ~Closed(c) /\ Buffered(c) < SendCap
      <4>1. Live(b) \in Message
        BY DEF Live, Message
      <4> QED
        BY <1>11, <3>1, <4>1, SendType DEF BroadcastSend, clientVars
    <3>2. CASE ~(~Closed(c) /\ Buffered(c) < SendCap)
      BY <1>11, <3>2 DEF BroadcastSend, clientVars, TypeOK, Buffered
    <3> QED
      BY <3>1, <3>2
  <2> QED
    BY <1>11, <2>1 DEF TypeOK, BroadcastSend, BroadcastPhase, regVars, clientVars
<1>12. ASSUME NEW b \in Broadcasts, BroadcastUnlock(b) \/ BroadcastReturn(b)
       PROVE TypeOK'
  BY <1>12 DEF TypeOK, BroadcastUnlock, BroadcastReturn, BroadcastPhase,
               regVars, clientVars, Buffered
<1>13. ASSUME NEW b \in Broadcasts, NEW c \in Clients, BroadcastEvict(b, c)
       PROVE TypeOK'
  <2>1. /\ DOMAIN DeviceClients' \subseteq Devices
        /\ \A e \in DOMAIN DeviceClients' : DeviceClients'[e] \subseteq Clients
        /\ closes' \in [Clients -> Nat]
    BY <1>13, RemoveType DEF BroadcastEvict
  <2> QED
    BY <1>13, <2>1 DEF TypeOK, BroadcastEvict, clientVars, Buffered
<1>14. CASE UNCHANGED hubVars
  BY <1>14 DEF TypeOK, hubVars, Buffered
<1> QED
  BY <1>1, <1>2, <1>3, <1>4, <1>5, <1>6, <1>7, <1>8, <1>9, <1>10, <1>11, <1>12,
     <1>13, <1>14 DEF Next, HandlerStep, PumpStep, BroadcastStep, Idle

(* Every variable always holds a value of its type, and no channel ever    *)
(* holds more than its capacity.                                           *)
THEOREM TypeCorrect == Spec => []TypeOK
  BY InitType, NextType, PTL DEF Spec

-----------------------------------------------------------------------------
(* What a send does to the messages of a channel's history.                *)
LEMMA AppendCounts ==
  ASSUME NEW S, NEW h \in Seq(S), NEW e \in S, NEW m
  PROVE  /\ m # e /\ NeverIn(m, h) => NeverIn(m, Append(h, e))
         /\ m # e /\ OnceIn(m, h)  => OnceIn(m, Append(h, e))
         /\ m = e /\ NeverIn(m, h) => OnceIn(m, Append(h, e))
<1> DEFINE g == Append(h, e)  n == Len(h)
<1>1. /\ n \in Nat
      /\ DOMAIN h = 1..n /\ DOMAIN g = 1..(n + 1)
      /\ \A i \in 1..n : g[i] = h[i]
      /\ g[n + 1] = e
  BY AppendFacts
<1> HIDE DEF g, n
<1>2. ASSUME m # e, NeverIn(m, h) PROVE NeverIn(m, g)
  BY <1>1, <1>2 DEF NeverIn
<1>3. ASSUME m # e, OnceIn(m, h) PROVE OnceIn(m, g)
  <2>1. PICK i \in 1..n : h[i] = m /\ \A j \in 1..n : h[j] = m => j = i
    BY <1>1, <1>3 DEF OnceIn
  <2>2. i \in 1..(n + 1) /\ g[i] = m
    BY <1>1, <2>1
  <2>3. \A j \in 1..(n + 1) : g[j] = m => j = i
    BY <1>1, <1>3, <2>1
  <2> QED
    BY <1>1, <2>2, <2>3 DEF OnceIn
<1>4. ASSUME m = e, NeverIn(m, h) PROVE OnceIn(m, g)
  <2>1. n + 1 \in 1..(n + 1) /\ g[n + 1] = m
    BY <1>1, <1>4
  <2>2. \A j \in 1..(n + 1) : g[j] = m => j = n + 1
    BY <1>1, <1>4 DEF NeverIn
  <2> QED
    BY <1>1, <2>1, <2>2 DEF OnceIn
<1> QED
  BY <1>2, <1>3, <1>4 DEF g

(* RemoveWsClient(DeviceOf[c], c) unregisters c and nobody else, keeps the *)
(* registry tidy, and leaves the channel of c closed exactly once.         *)
LEMMA RemoveEffect ==
  ASSUME HubAssumption, TypeOK, RegistryTidy, RemovedExactlyOnce,
         NEW c \in Clients, ws[c] # "upgrade",
         \A k \in Clients : ws'[k] = "upgrade" <=> ws[k] = "upgrade",
         RemoveWsClient(DeviceOf[c], c)
  PROVE  /\ RegistryTidy'
         /\ \A k \in Clients : Registered(k)' <=> (Registered(k) /\ k # c)
         /\ RemovedExactlyOnce'
<1>1. CASE c \in Lookup(DeviceOf[c])
  <2> DEFINE d == DeviceOf[c]
             left == Lookup(d) \ {c}
             keys == IF left = {} THEN DOMAIN DeviceClients \ {d}
                                  ELSE DOMAIN DeviceClients
  <2>1. /\ DeviceClients' = [k \in keys |-> IF k = d THEN left ELSE DeviceClients[k]]
        /\ closes' = [closes EXCEPT ![c] = @ + 1]
    BY <1>1 DEF RemoveWsClient
  <2>2. d \in DOMAIN DeviceClients /\ Lookup(d) = DeviceClients[d] /\ c \in DeviceClients[d]
    BY <1>1 DEF Lookup
  <2>3. \A e \in DOMAIN DeviceClients' :
          /\ e \in DOMAIN DeviceClients
          /\ DeviceClients'[e] = DeviceClients[e] \ {c}
          /\ DeviceClients'[e] # {}
    BY <2>1, <2>2 DEF RegistryTidy
  <2>4. RegistryTidy'
    BY <2>3 DEF RegistryTidy
  <2>5. ASSUME NEW k \in Clients PROVE Registered(k)' <=> (Registered(k) /\ k # c)
    <3>1. CASE DeviceOf[k] = d
      BY <2>1, <2>2, <3>1 DEF Registered, Lookup
    <3>2. CASE DeviceOf[k] # d
      BY <2>1, <3>2 DEF Registered, Lookup
    <3> QED
      BY <3>1, <3>2
  <2>6. RemovedExactlyOnce'
    <3>1. closes[c] = 0
      BY <1>1 DEF RemovedExactlyOnce, Registered
    <3>2. closes'[c] = 1 /\ \A k \in Clients : k # c => closes'[k] = closes[k]
      BY <2>1, <3>1 DEF TypeOK
    <3> QED
      BY <2>5, <3>2 DEF RemovedExactlyOnce
  <2> QED
    BY <2>4, <2>5, <2>6
<1>2. CASE c \notin Lookup(DeviceOf[c])
  <2>1. DeviceClients' = DeviceClients /\ closes' = closes
    BY <1>2 DEF RemoveWsClient, regVars
  <2>2. \A k \in Clients : Registered(k)' <=> (Registered(k) /\ k # c)
    BY <1>2, <2>1 DEF Registered, Lookup
  <2>3. RegistryTidy'
    BY <2>1 DEF RegistryTidy
  <2>4. \A k \in Clients : Registered(k)' <=> Registered(k)
    BY <2>1 DEF Registered, Lookup
  <2>5. RemovedExactlyOnce'
    BY <2>1, <2>4 DEF RemovedExactlyOnce
  <2> QED
    BY <2>2, <2>3, <2>5
<1> QED
  BY <1>1, <1>2

(* CallInv(b) survives a step of somebody else that registers no client    *)
(* again, unregisters none that b has still to visit, and neither adds the *)
(* telemetry of b to a history nor takes it out.                           *)
LEMMA CallKept ==
  ASSUME NEW b \in Broadcasts, CallInv(b),
         /\ bc'[b] = bc[b] /\ audience'[b] = audience[b]
         /\ todo'[b] = todo[b] /\ slow'[b] = slow[b],
         audience[b] \subseteq Clients,
         \A c \in Clients : ws'[c] = "upgrade" => ws[c] = "upgrade",
         \A c \in todo[b] : Registered(c)',
         \A c \in Clients : ws[c] # "upgrade" /\ Registered(c)' => Registered(c),
         \A c \in Clients :
           /\ NeverIn(Live(b), log[c]) => NeverIn(Live(b), log'[c])
           /\ OnceIn(Live(b), log[c])  => OnceIn(Live(b), log'[c])
  PROVE  CallInv(b)'
<1>1. /\ todo[b] \subseteq audience[b]
      /\ slow[b] \subseteq audience[b] \ todo[b]
      /\ \A c \in audience[b] : DeviceOf[c] = TopicOf[b] /\ ws[c] # "upgrade"
      /\ bc[b] = "idle" => audience[b] = {}
      /\ bc[b] # "send" => todo[b] = {}
      /\ bc[b] = "done" => slow[b] = {}
  BY DEF CallInv
<1>2. \A c \in audience[b] : DeviceOf[c] = TopicOf[b] /\ ws'[c] # "upgrade"
  BY <1>1
<1>3. ASSUME NEW c \in Clients
      PROVE  IF c \in audience[b] \ (todo[b] \cup slow[b])
             THEN OnceIn(Live(b), log'[c]) \/ (bc[b] # "send" /\ ~Registered(c)')
             ELSE NeverIn(Live(b), log'[c])
  <2>1. CASE c \in audience[b] \ (todo[b] \cup slow[b])
    <3>1. OnceIn(Live(b), log[c]) \/ (bc[b] # "send" /\ ~Registered(c))
      BY <2>1 DEF CallInv
    <3> QED
      BY <2>1, <3>1, <1>1
  <2>2. CASE c \notin audience[b] \ (todo[b] \cup slow[b])
    BY <2>2 DEF CallInv
  <2> QED
    BY <2>1, <2>2
<1> QED
  BY <1>1, <1>2, <1>3 DEF CallInv, Live

(* The hub starts with nobody registered and no call under way.            *)
LEMMA InitInv == HubAssumption /\ Init => HubInv
<1> SUFFICES ASSUME HubAssumption, Init PROVE HubInv
  OBVIOUS
<1>1. \A c \in Clients : ~Registered(c) /\ ws[c] = "upgrade" /\ closes[c] = 0
  BY DEF Init, Registered, Lookup
<1>2. RegistryTidy
  BY DEF Init, RegistryTidy
<1>3. ASSUME NEW b \in Broadcasts PROVE CallInv(b)
  <2>1. \A c \in Clients : NeverIn(Live(b), log[c])
    <3>1. \A c \in Clients : log[c] = <<>>
      BY DEF Init
    <3> QED
      BY <3>1 DEF NeverIn
  <2> QED
    BY <2>1 DEF Init, CallInv
<1> QED
  BY <1>1, <1>2, <1>3 DEF HubInv, RemovedExactlyOnce, NoBroadcastPanic, Init

(* A step of a handler or a writer that touches neither the registry nor a *)
(* channel.                                                                *)
LEMMA LocalStep ==
  ASSUME TypeOK, HubInv, UNCHANGED <<regVars, log, castVars>>,
         \A c \in Clients : ws'[c] = "upgrade" <=> ws[c] = "upgrade",
         \A c \in Clients : ws'[c] \in {"done", "panicked"} => ws'[c] = ws[c]
  PROVE  HubInv'
<1>1. /\ DeviceClients' = DeviceClients /\ closes' = closes /\ log' = log
      /\ bc' = bc /\ audience' = audience /\ todo' = todo /\ slow' = slow
  BY DEF regVars, castVars
<1>2. \A c \in Clients : Registered(c)' <=> Registered(c)
  BY <1>1 DEF Registered, Lookup
<1>3. RegistryTidy' /\ NoBroadcastPanic'
  BY <1>1 DEF HubInv, RegistryTidy, NoBroadcastPanic
<1>4. RemovedExactlyOnce'
  BY <1>1, <1>2 DEF HubInv, RemovedExactlyOnce
<1>5. \A c \in Clients : ws'[c] \in {"upgrade", "done", "panicked"} => ~Registered(c)'
  BY <1>2 DEF HubInv
<1>6. ASSUME NEW b \in Broadcasts PROVE CallInv(b)'
  <2>1. CallInv(b) /\ audience[b] \subseteq Clients
    BY DEF HubInv, TypeOK
  <2>2. \A c \in todo[b] : Registered(c)'
    <3>1. \A c \in todo[b] : c \in Clients /\ Registered(c)
      BY <2>1 DEF CallInv
    <3> QED
      BY <3>1, <1>2
  <2> QED
    BY <1>1, <1>2, <2>1, <2>2, CallKept
<1> QED
  BY <1>3, <1>4, <1>5, <1>6 DEF HubInv

(* What a removal of c by its handler or by an eviction keeps: no call is  *)
(* inside the read lock, so none has a client still to visit.              *)
LEMMA RemoveStep ==
  ASSUME HubAssumption, TypeOK, HubInv, NEW c \in Clients, ws[c] # "upgrade",
         RemoveWsClient(DeviceOf[c], c), UNCHANGED <<log, bc, audience, todo>>,
         \A k \in Clients : ws'[k] = "upgrade" <=> ws[k] = "upgrade",
         \A k \in Clients : ws'[k] \in {"done", "panicked"} => k = c \/ ws'[k] = ws[k]
  PROVE  /\ RegistryTidy' /\ RemovedExactlyOnce' /\ NoBroadcastPanic'
         /\ \A k \in Clients :
              ws'[k] \in {"upgrade", "done", "panicked"} => ~Registered(k)'
         /\ \A k \in Clients : Registered(k)' <=> (Registered(k) /\ k # c)
         /\ \A b \in Broadcasts : slow'[b] = slow[b] => CallInv(b)'
<1>1. /\ RegistryTidy' /\ RemovedExactlyOnce'
      /\ \A k \in Clients : Registered(k)' <=> (Registered(k) /\ k # c)
  BY RemoveEffect DEF HubInv
<1>2. NoBroadcastPanic'
  BY DEF HubInv, NoBroadcastPanic
<1>3. \A k \in Clients : ws'[k] \in {"upgrade", "done", "panicked"} => ~Registered(k)'
  BY <1>1 DEF HubInv
<1>4. ASSUME NEW b \in Broadcasts, slow'[b] = slow[b] PROVE CallInv(b)'
  <2>1. CallInv(b) /\ audience[b] \subseteq Clients
    BY DEF HubInv, TypeOK
  <2>2. todo[b] = {}
    BY <2>1 DEF RemoveWsClient, LockFree, CallInv
  <2> QED
    BY <1>1, <1>4, <2>1, <2>2, CallKept
<1> QED
  BY <1>1, <1>2, <1>3, <1>4

(* Every step keeps HubInv.                                                *)
LEMMA NextInv == HubAssumption /\ TypeOK /\ HubInv /\ [Next]_hubVars => HubInv'
<1> SUFFICES ASSUME HubAssumption, TypeOK, HubInv, [Next]_hubVars PROVE HubInv'
  OBVIOUS
<1>1. ASSUME NEW c \in Clients, RegisterClient(c) PROVE HubInv'
  <2>1. /\ ws[c] = "upgrade" /\ ws' = [ws EXCEPT ![c] = "load"] /\ closes' = closes
        /\ log' = log /\ bc' = bc /\ audience' = audience /\ todo' = todo /\ slow' = slow
    BY <1>1 DEF RegisterClient, castVars
  <2>2. ws \in [Clients -> HandlerPhase] /\ ~Registered(c)
    BY <2>1 DEF TypeOK, HubInv
  <2>3. \A k \in Clients : Registered(k)' <=> (Registered(k) \/ k = c)
    BY <1>1 DEF RegisterClient, Registered, Lookup
  <2>4. RegistryTidy'
    BY <1>1 DEF RegisterClient, HubInv, RegistryTidy, Lookup
  <2>5. RemovedExactlyOnce'
    BY <2>1, <2>2, <2>3 DEF HubInv, RemovedExactlyOnce
  <2>6. \A k \in Clients : ws'[k] \in {"upgrade", "done", "panicked"} => ~Registered(k)'
    BY <2>1, <2>2, <2>3 DEF HubInv
  <2>7. ASSUME NEW b \in Broadcasts PROVE CallInv(b)'
    <3>1. CallInv(b) /\ audience[b] \subseteq Clients
      BY DEF HubInv, TypeOK
    <3>2. \A k \in todo[b] : k \in Clients /\ Registered(k)
      BY <3>1 DEF CallInv
    <3> QED
      BY <2>1, <2>2, <2>3, <3>1, <3>2, CallKept
  <2>8. NoBroadcastPanic'
    BY <2>1 DEF HubInv, NoBroadcastPanic
  <2> QED
    BY <2>4, <2>5, <2>6, <2>7, <2>8 DEF HubInv
<1>2. ASSUME NEW c \in Clients, NEW t \in Snapshots \cup {None}, LoadTelemetry(c, t)
      PROVE HubInv'
  BY <1>2, LocalStep DEF LoadTelemetry, TypeOK
<1>3. ASSUME NEW c \in Clients, OfferTelemetry(c) PROVE HubInv'
  <2>1. ws[c] = "offer" /\ ws \in [Clients -> HandlerPhase]
    BY <1>3 DEF OfferTelemetry, TypeOK
  <2>2. CASE latest[c] # None /\ ~Closed(c) /\ Buffered(c) < SendCap
    <3>1. /\ log' = [log EXCEPT ![c] = Append(@, Stored(latest[c]))]
          /\ ws' = [ws EXCEPT ![c] = "start"]
          /\ DeviceClients' = DeviceClients /\ closes' = closes
          /\ bc' = bc /\ audience' = audience /\ todo' = todo /\ slow' = slow
      BY <1>3, <2>2 DEF OfferTelemetry, regVars, castVars
    <3>2. \A k \in Clients : Registered(k)' <=> Registered(k)
      BY <3>1 DEF Registered, Lookup
    <3>3. RegistryTidy' /\ NoBroadcastPanic'
      BY <3>1 DEF HubInv, RegistryTidy, NoBroadcastPanic
    <3>4. RemovedExactlyOnce'
      BY <2>1, <3>1, <3>2 DEF HubInv, RemovedExactlyOnce
    <3>5. \A k \in Clients :
            ws'[k] \in {"upgrade", "done", "panicked"} => ~Registered(k)'
      BY <2>1, <3>1, <3>2 DEF HubInv
    <3>6. ASSUME NEW b \in Broadcasts PROVE CallInv(b)'
      <4>1. CallInv(b) /\ audience[b] \subseteq Clients
        BY DEF HubInv, TypeOK
      <4>2. \A k \in todo[b] : k \in Clients /\ Registered(k)
        BY <4>1 DEF CallInv
      <4>3. ASSUME NEW k \in Clients
            PROVE  /\ NeverIn(Live(b), log[k]) => NeverIn(Live(b), log'[k])
                   /\ OnceIn(Live(b), log[k])  => OnceIn(Live(b), log'[k])
        <5>1. log \in [Clients -> Seq(Message)]
          BY DEF TypeOK
        <5>2. CASE k # c
          BY <3>1, <5>1, <5>2
        <5>3. CASE k = c
          <6>1. log'[c] = Append(log[c], Stored(latest[c])) /\ log[c] \in Seq(Message)
            BY <3>1, <5>1
          <6>2. Stored(latest[c]) \in Message
            BY <2>2 DEF TypeOK, Stored, Message
          <6>3. Live(b) # Stored(latest[c])
            BY DEF Live, Stored
          <6> QED
            BY <5>3, <6>1, <6>2, <6>3, AppendCounts
        <5> QED
          BY <5>2, <5>3
      <4> QED
        BY <2>1, <3>1, <3>2, <4>1, <4>2, <4>3, CallKept
    <3> QED
      BY <3>3, <3>4, <3>5, <3>6 DEF HubInv
  <2>3. CASE ~(latest[c] # None /\ ~Closed(c) /\ Buffered(c) < SendCap)
    <3>1. UNCHANGED <<regVars, log, castVars>>
      BY <1>3, <2>3 DEF OfferTelemetry
    <3>2. \/ ws' = [ws EXCEPT ![c] = "unwind"]
          \/ ws' = [ws EXCEPT ![c] = "start"]
      BY <1>3 DEF OfferTelemetry
    <3> QED
      BY <2>1, <3>1, <3>2, LocalStep
  <2> QED
    BY <2>2, <2>3
<1>4. ASSUME NEW c \in Clients, StartPump(c) PROVE HubInv'
  BY <1>4, LocalStep DEF StartPump, TypeOK
<1>5. ASSUME NEW c \in Clients, ReadFails(c) PROVE HubInv'
  BY <1>5, LocalStep DEF ReadFails, TypeOK
<1>6. ASSUME NEW c \in Clients, LeaveClient(c) PROVE HubInv'
  <2>1. /\ ws[c] \in {"leave", "unwind"} /\ ws \in [Clients -> HandlerPhase]
        /\ RemoveWsClient(DeviceOf[c], c)
        /\ UNCHANGED <<log, bc, audience, todo, slow>>
        /\ \/ ws' = [ws EXCEPT ![c] = "done"]
           \/ ws' = [ws EXCEPT ![c] = "panicked"]
    BY <1>6 DEF LeaveClient, TypeOK, castVars
  <2>2. /\ \A k \in Clients : ws'[k] = "upgrade" <=> ws[k] = "upgrade"
        /\ \A k \in Clients : ws'[k] \in {"done", "panicked"} => k = c \/ ws'[k] = ws[k]
        /\ ws[c] # "upgrade"
    BY <2>1
  <2> QED
    BY <2>1, <2>2, RemoveStep DEF HubInv
<1>7. ASSUME NEW c \in Clients, PeerLeaves(c) PROVE HubInv'
  BY <1>7, LocalStep DEF PeerLeaves
<1>8. ASSUME NEW c \in Clients, PumpStep(c) \/ PumpPingFails(c) PROVE HubInv'
  BY <1>8, LocalStep DEF PumpStep, PumpTake, PumpWrite, PumpDrained, PumpPingFails
<1>9. ASSUME NEW b \in Broadcasts, BroadcastStart(b) PROVE HubInv'
  <2>1. /\ bc[b] = "idle"
        /\ bc' = [bc EXCEPT ![b] = IF TopicOf[b] \in DOMAIN DeviceClients
                                   THEN "send" ELSE "done"]
        /\ audience' = [audience EXCEPT ![b] = Lookup(TopicOf[b])]
        /\ todo' = [todo EXCEPT ![b] = Lookup(TopicOf[b])]
        /\ slow' = slow /\ log' = log /\ DeviceClients' = DeviceClients
        /\ closes' = closes /\ ws' = ws
    BY <1>9 DEF BroadcastStart, regVars, clientVars
  <2>2. /\ bc \in [Broadcasts -> BroadcastPhase]
        /\ audience \in [Broadcasts -> SUBSET Clients]
        /\ todo \in [Broadcasts -> SUBSET Clients]
    BY DEF TypeOK
  <2>3. \A c \in Clients : Registered(c)' <=> Registered(c)
    BY <2>1 DEF Registered, Lookup
  <2>4. CallInv(b)'
    <3>1. audience[b] = {} /\ slow[b] = {} /\ todo[b] = {}
      BY <2>1 DEF HubInv, CallInv
    <3>2. \A c \in Lookup(TopicOf[b]) :
            c \in Clients /\ DeviceOf[c] = TopicOf[b] /\ Registered(c) /\ ws[c] # "upgrade"
      BY DEF Lookup, TypeOK, HubInv, RegistryTidy, Registered
    <3>3. TopicOf[b] \notin DOMAIN DeviceClients => Lookup(TopicOf[b]) = {}
      BY DEF Lookup
    <3>4. /\ audience'[b] = Lookup(TopicOf[b]) /\ todo'[b] = Lookup(TopicOf[b])
          /\ slow'[b] = {} /\ bc'[b] \in {"send", "done"}
          /\ bc'[b] = "done" => TopicOf[b] \notin DOMAIN DeviceClients
      BY <2>1, <2>2, <3>1
    <3>5. \A c \in Clients : NeverIn(Live(b), log'[c])
      BY <2>1, <3>1 DEF HubInv, CallInv
    <3>6. \A c \in todo'[b] : Registered(c)'
      BY <2>3, <3>2, <3>4
    <3> QED
      BY <2>1, <3>2, <3>3, <3>4, <3>5, <3>6 DEF CallInv, Live
  <2>5. ASSUME NEW a \in Broadcasts, a # b PROVE CallInv(a)'
    <3>1. CallInv(a) /\ audience[a] \subseteq Clients
      BY <2>2 DEF HubInv
    <3>2. \A k \in todo[a] : k \in Clients /\ Registered(k)
      BY <3>1 DEF CallInv
    <3> QED
      BY <2>1, <2>2, <2>3, <2>5, <3>1, <3>2, CallKept
  <2>6. /\ RegistryTidy' /\ NoBroadcastPanic' /\ RemovedExactlyOnce'
        /\ \A k \in Clients :
             ws'[k] \in {"upgrade", "done", "panicked"} => ~Registered(k)'
    BY <2>1, <2>2, <2>3 DEF HubInv, RegistryTidy, NoBroadcastPanic, RemovedExactlyOnce
  <2> QED
    BY <2>4, <2>5, <2>6 DEF HubInv
<1>10. ASSUME NEW b \in Broadcasts, NEW c \in Clients, BroadcastSend(b, c) PROVE HubInv'
  <2>1. /\ bc[b] = "send" /\ c \in todo[b] /\ Registered(c) /\ ~Closed(c)
        /\ c \notin slow[b] /\ c \in audience[b]
    <3>1. bc[b] = "send" /\ c \in todo[b]
      BY <1>10 DEF BroadcastSend
    <3>2. Registered(c) /\ c \notin slow[b] /\ c \in audience[b]
      BY <3>1 DEF HubInv, CallInv
    <3> QED
      BY <3>1, <3>2 DEF HubInv, RemovedExactlyOnce, Closed
  <2>2. /\ bc' = bc /\ audience' = audience
        /\ todo' = [todo EXCEPT ![b] = @ \ {c}]
        /\ DeviceClients' = DeviceClients /\ closes' = closes /\ ws' = ws
        /\ IF Buffered(c) < SendCap
           THEN log' = [log EXCEPT ![c] = Append(@, Live(b))] /\ slow' = slow
           ELSE log' = log /\ slow' = [slow EXCEPT ![b] = @ \cup {c}]
    <3>1. bc \in [Broadcasts -> BroadcastPhase] /\ slow \in [Broadcasts -> SUBSET Clients]
      BY DEF TypeOK
    <3>2. ~(Buffered(c) < SendCap) <=> Buffered(c) >= SendCap
      BY AppendFacts DEF TypeOK, Buffered, HubAssumption
    <3> QED
      BY <1>10, <2>1, <3>1, <3>2 DEF BroadcastSend, regVars, clientVars
  <2>3. /\ log \in [Clients -> Seq(Message)] /\ Live(b) \in Message
        /\ todo \in [Broadcasts -> SUBSET Clients] /\ slow \in [Broadcasts -> SUBSET Clients]
    BY DEF TypeOK, Live, Message
  <2>4. \A k \in Clients : Registered(k)' <=> Registered(k)
    BY <2>2 DEF Registered, Lookup
  <2>5. /\ RegistryTidy' /\ NoBroadcastPanic' /\ RemovedExactlyOnce'
        /\ \A k \in Clients :
             ws'[k] \in {"upgrade", "done", "panicked"} => ~Registered(k)'
    BY <2>2, <2>4 DEF HubInv, RegistryTidy, NoBroadcastPanic, RemovedExactlyOnce
  <2>6. \A k \in Clients : k # c => log'[k] = log[k]
    BY <2>2, <2>3
  <2>7. CallInv(b)'
    <3>1. CallInv(b)
      BY DEF HubInv
    <3>2. NeverIn(Live(b), log[c])
      BY <2>1, <3>1 DEF CallInv
    <3>3. /\ todo'[b] = todo[b] \ {c}
          /\ \A k \in todo'[b] : Registered(k)'
      BY <2>2, <2>3, <2>4, <3>1 DEF CallInv
    <3>4. CASE Buffered(c) < SendCap
      <4>1. OnceIn(Live(b), log'[c]) /\ slow' = slow
        <5>1. /\ log'[c] = Append(log[c], Live(b)) /\ log[c] \in Seq(Message)
              /\ slow' = slow
          BY <2>2, <2>3, <3>4
        <5>2. OnceIn(Live(b), Append(log[c], Live(b)))
          BY <2>3, <3>2, <5>1, AppendCounts
        <5> QED
          BY <5>1, <5>2
      <4>2. ASSUME NEW k \in Clients
            PROVE  IF k \in audience[b] \ (todo'[b] \cup slow[b])
                   THEN OnceIn(Live(b), log'[k]) ELSE NeverIn(Live(b), log'[k])
        <5>1. CASE k = c
          BY <2>1, <3>3, <4>1, <5>1
        <5>2. CASE k # c
          BY <2>1, <2>6, <3>1, <3>3, <5>2 DEF CallInv
        <5> QED
          BY <5>1, <5>2
      <4> QED
        BY <2>1, <2>2, <3>1, <3>3, <4>1, <4>2 DEF CallInv, Live
    <3>5. CASE ~(Buffered(c) < SendCap)
      <4>1. log' = log /\ slow'[b] = slow[b] \cup {c}
        BY <2>2, <2>3, <3>5
      <4>2. ASSUME NEW k \in Clients
            PROVE  IF k \in audience[b] \ (todo'[b] \cup slow'[b])
                   THEN OnceIn(Live(b), log'[k]) ELSE NeverIn(Live(b), log'[k])
        BY <2>1, <3>1, <3>3, <4>1 DEF CallInv
      <4> QED
        BY <2>1, <2>2, <3>1, <3>3, <4>1, <4>2 DEF CallInv, Live
    <3> QED
      BY <3>4, <3>5
  <2>8. ASSUME NEW a \in Broadcasts, a # b PROVE CallInv(a)'
    <3>1. CallInv(a) /\ audience[a] \subseteq Clients
      BY DEF HubInv, TypeOK
    <3>2. \A k \in todo[a] : k \in Clients /\ Registered(k)
      BY <3>1 DEF CallInv
    <3>3. ASSUME NEW k \in Clients
          PROVE  /\ NeverIn(Live(a), log[k]) => NeverIn(Live(a), log'[k])
                 /\ OnceIn(Live(a), log[k])  => OnceIn(Live(a), log'[k])
      <4>1. CASE log'[k] = log[k]
        BY <4>1
      <4>2. CASE log'[k] # log[k]
        <5>1. k = c /\ log'[c] = Append(log[c], Live(b)) /\ log[c] \in Seq(Message)
          BY <2>2, <2>3, <4>2
        <5>2. Live(a) # Live(b)
          BY <2>8 DEF Live
        <5> QED
          BY <2>3, <5>1, <5>2, AppendCounts
      <4> QED
        BY <4>1, <4>2
    <3>4. /\ bc'[a] = bc[a] /\ audience'[a] = audience[a]
          /\ todo'[a] = todo[a] /\ slow'[a] = slow[a] /\ ws' = ws
      BY <2>2, <2>3, <2>8
    <3> QED
      BY <2>4, <3>1, <3>2, <3>3, <3>4, CallKept
  <2> QED
    BY <2>5, <2>7, <2>8 DEF HubInv
<1>11. ASSUME NEW b \in Broadcasts, BroadcastUnlock(b) \/ BroadcastReturn(b) PROVE HubInv'
  <2>1. /\ audience' = audience /\ todo' = todo /\ slow' = slow /\ log' = log
        /\ DeviceClients' = DeviceClients /\ closes' = closes /\ ws' = ws
        /\ todo[b] = {}
        /\ \/ bc' = [bc EXCEPT ![b] = "evict"] /\ bc[b] = "send"
           \/ bc' = [bc EXCEPT ![b] = "done"] /\ bc[b] = "evict" /\ slow[b] = {}
    BY <1>11 DEF BroadcastUnlock, BroadcastReturn, regVars, clientVars, HubInv, CallInv
  <2>2. bc \in [Broadcasts -> BroadcastPhase]
    BY DEF TypeOK
  <2>3. \A c \in Clients : Registered(c)' <=> Registered(c)
    BY <2>1 DEF Registered, Lookup
  <2>4. CallInv(b)'
    <3>1. CallInv(b) /\ bc'[b] \in {"evict", "done"} /\ (bc'[b] = "done" => slow[b] = {})
      BY <2>1, <2>2 DEF HubInv
    <3>2. ASSUME NEW k \in Clients
          PROVE  IF k \in audience[b] \ (todo[b] \cup slow[b])
                 THEN OnceIn(Live(b), log'[k]) \/ ~Registered(k)'
                 ELSE NeverIn(Live(b), log'[k])
      BY <2>1, <2>3, <3>1 DEF CallInv
    <3> QED
      BY <2>1, <3>1, <3>2 DEF CallInv, Live
  <2>5. ASSUME NEW a \in Broadcasts, a # b PROVE CallInv(a)'
    <3>1. CallInv(a) /\ audience[a] \subseteq Clients
      BY DEF HubInv, TypeOK
    <3>2. \A k \in todo[a] : k \in Clients /\ Registered(k)
      BY <3>1 DEF CallInv
    <3> QED
      BY <2>1, <2>2, <2>3, <2>5, <3>1, <3>2, CallKept
  <2>6. /\ RegistryTidy' /\ NoBroadcastPanic' /\ RemovedExactlyOnce'
        /\ \A k \in Clients :
             ws'[k] \in {"upgrade", "done", "panicked"} => ~Registered(k)'
    BY <2>1, <2>2, <2>3 DEF HubInv, RegistryTidy, NoBroadcastPanic, RemovedExactlyOnce
  <2> QED
    BY <2>4, <2>5, <2>6 DEF HubInv
<1>12. ASSUME NEW b \in Broadcasts, NEW c \in Clients, BroadcastEvict(b, c) PROVE HubInv'
  <2>1. /\ bc[b] = "evict" /\ c \in slow[b] /\ RemoveWsClient(TopicOf[b], c)
        /\ slow' = [slow EXCEPT ![b] = @ \ {c}]
        /\ UNCHANGED <<log, bc, audience, todo>> /\ ws' = ws
    BY <1>12 DEF BroadcastEvict, clientVars
  <2>2. CallInv(b) /\ DeviceOf[c] = TopicOf[b] /\ ws[c] # "upgrade"
    BY <2>1 DEF HubInv, CallInv
  <2>3. slow \in [Broadcasts -> SUBSET Clients] /\ audience[b] \subseteq Clients
    BY DEF TypeOK
  <2>4. /\ RegistryTidy' /\ RemovedExactlyOnce' /\ NoBroadcastPanic'
        /\ \A k \in Clients :
             ws'[k] \in {"upgrade", "done", "panicked"} => ~Registered(k)'
        /\ \A k \in Clients : Registered(k)' <=> (Registered(k) /\ k # c)
        /\ \A a \in Broadcasts : slow'[a] = slow[a] => CallInv(a)'
    BY <2>1, <2>2, RemoveStep
  <2>5. \A a \in Broadcasts : a # b => CallInv(a)'
    BY <2>1, <2>3, <2>4
  <2>6. CallInv(b)'
    <3>1. todo[b] = {} /\ slow'[b] = slow[b] \ {c}
      BY <2>1, <2>2, <2>3 DEF CallInv
    <3>2. ASSUME NEW k \in Clients
          PROVE  IF k \in audience[b] \ (todo[b] \cup slow'[b])
                 THEN OnceIn(Live(b), log[k]) \/ ~Registered(k)'
                 ELSE NeverIn(Live(b), log[k])
      BY <2>1, <2>2, <2>4, <3>1 DEF CallInv
    <3> QED
      BY <2>1, <2>2, <3>1, <3>2 DEF CallInv, Live
  <2> QED
    BY <2>4, <2>5, <2>6 DEF HubInv
<1>13. CASE UNCHANGED hubVars
  BY <1>13, LocalStep DEF hubVars, regVars, castVars
<1> QED
  BY <1>1, <1>2, <1>3, <1>4, <1>5, <1>6, <1>7, <1>8, <1>9, <1>10, <1>11, <1>12, <1>13
     DEF Next, HandlerStep, BroadcastStep, Idle

(* The registry, the channels and the calls under way always agree.        *)
THEOREM HubCorrect == Spec => []HubInv
<1> USE HubAssumption
<1>1. Init => HubInv
  BY InitInv
<1>2. TypeOK /\ HubInv /\ [Next]_hubVars => HubInv'
  BY NextInv
<1> QED
  BY <1>1, <1>2, TypeCorrect, PTL DEF Spec

(* RemoveWsClient closes the channel of a client exactly once, when it is  *)
(* registered no longer, however handlers and evictions race for it.       *)
THEOREM RemovedOnce == Spec => []RemovedExactlyOnce
<1>1. HubInv => RemovedExactlyOnce
  BY DEF HubInv
<1> QED
  BY <1>1, HubCorrect, PTL

(* The registry keeps no entry without a client, and no client under a     *)
(* device that is not its own.                                             *)
THEOREM RegistryStaysTidy == Spec => []RegistryTidy
<1>1. HubInv => RegistryTidy
  BY DEF HubInv
<1> QED
  BY <1>1, HubCorrect, PTL

(* BroadcastTelemetry never sends on a closed channel.                     *)
THEOREM NeverPanics == Spec => []NoBroadcastPanic
<1>1. HubInv => NoBroadcastPanic
  BY DEF HubInv
<1> QED
  BY <1>1, HubCorrect, PTL

(* A call of BroadcastTelemetry that has returned has sent the telemetry   *)
(* exactly once to every client it found that is still registered.         *)
THEOREM NothingLost == Spec => []NoSilentLoss
<1>1. TypeOK /\ HubInv => NoSilentLoss
  BY DEF TypeOK, HubInv, CallInv, NoSilentLoss
<1> QED
  BY <1>1, TypeCorrect, HubCorrect, PTL

(* No client outlives its handler in the registry.                         *)
THEOREM NobodyLeftBehind == Spec => []EndedIsUnregistered
<1>1. TypeOK /\ HubInv => EndedIsUnregistered
  BY DEF TypeOK, HubInv, RegistryTidy, Registered, Lookup, EndedIsUnregistered
<1> QED
  BY <1>1, TypeCorrect, HubCorrect, PTL

-----------------------------------------------------------------------------
(* The hub implements DeviceFeed: every step of a handler, of a writer or  *)
(* of a call of BroadcastTelemetry is a step of the feed or changes        *)
(* nothing that the feed shows.                                            *)
feedBar == <<FeedMember, log, FeedCall, FeedOwed>>

(* Steps that leave the registry and the calls alone show at most in the   *)
(* histories, unless they make a client arrive.                            *)
LEMMA SameView ==
  ASSUME DeviceClients' = DeviceClients,
         \A c \in Clients : ws'[c] = "upgrade" <=> ws[c] = "upgrade",
         UNCHANGED castVars
  PROVE  UNCHANGED <<FeedMember, FeedCall, FeedOwed>>
<1>1. \A c : Registered(c)' <=> Registered(c)
  BY DEF Registered, Lookup
<1>2. UNCHANGED FeedMember
  BY <1>1 DEF FeedMember
<1>3. UNCHANGED FeedCall
  BY DEF FeedCall, castVars
<1>4. UNCHANGED FeedOwed
  BY <1>1 DEF FeedOwed, castVars
<1> QED
  BY <1>2, <1>3, <1>4

(* A removal is a step Leave, or shows nothing if the client had left.     *)
LEMMA RemoveView ==
  ASSUME HubAssumption, TypeOK, HubInv, NEW c \in Clients, ws[c] # "upgrade",
         RemoveWsClient(DeviceOf[c], c), UNCHANGED <<log, bc, todo>>,
         \A k \in Clients : ws'[k] = "upgrade" <=> ws[k] = "upgrade",
         slow \in [Broadcasts -> SUBSET Clients],
         \A b \in Broadcasts : slow'[b] = slow[b] \/ slow'[b] = slow[b] \ {c}
  PROVE  Feed!Leave(c) \/ UNCHANGED feedBar
<1>1. \A k \in Clients : Registered(k)' <=> (Registered(k) /\ k # c)
  BY RemoveEffect DEF HubInv
<1>2. UNCHANGED <<FeedCall, log>>
  BY DEF FeedCall
<1>3. ASSUME NEW b \in Broadcasts PROVE FeedOwed'[b] = FeedOwed[b] \ {c}
  <2>1. todo[b] \subseteq Clients /\ slow[b] \subseteq Clients /\ slow'[b] \subseteq Clients
    BY DEF TypeOK
  <2>2. \A k \in Clients : k \in todo'[b] \cup slow'[b] /\ k # c
                           <=> k \in todo[b] \cup slow[b] /\ k # c
    OBVIOUS
  <2>3. FeedOwed[b] = {k \in todo[b] \cup slow[b] : Registered(k)}
    BY DEF FeedOwed
  <2>4. FeedOwed'[b] = {k \in todo'[b] \cup slow'[b] : Registered(k)'}
    BY DEF FeedOwed
  <2>5. \A k : k \in FeedOwed'[b] <=> k \in FeedOwed[b] /\ k # c
    BY <1>1, <2>1, <2>2, <2>3, <2>4
  <2> QED
    BY <2>5
<1>4. CASE Registered(c)
  <2>1. FeedMember' = [FeedMember EXCEPT ![c] = "out"] /\ FeedMember[c] = "in"
    BY <1>1, <1>4 DEF FeedMember
  <2>2. FeedOwed' = [b \in Broadcasts |-> FeedOwed[b] \ {c}]
    BY <1>3 DEF FeedOwed
  <2> QED
    BY <1>2, <2>1, <2>2 DEF Feed!Leave
<1>5. CASE ~Registered(c)
  <2>1. UNCHANGED FeedMember
    BY <1>1, <1>5 DEF FeedMember
  <2>2. \A b \in Broadcasts : FeedOwed'[b] = FeedOwed[b]
    BY <1>3, <1>5 DEF FeedOwed
  <2>3. UNCHANGED FeedOwed
    BY <2>2 DEF FeedOwed
  <2> QED
    BY <1>2, <2>1, <2>3 DEF feedBar
<1> QED
  BY <1>4, <1>5

(* Every step of the hub is a step of the feed.                            *)
LEMMA StepView ==
  HubAssumption /\ TypeOK /\ HubInv /\ [Next]_hubVars => Feed!Next \/ UNCHANGED feedBar
<1> SUFFICES ASSUME HubAssumption, TypeOK, HubInv, [Next]_hubVars
             PROVE  Feed!Next \/ UNCHANGED feedBar
  OBVIOUS
<1>1. ASSUME NEW c \in Clients, RegisterClient(c) PROVE Feed!Join(c)
  <2>1. /\ ws[c] = "upgrade" /\ ws' = [ws EXCEPT ![c] = "load"] /\ log' = log
        /\ bc' = bc /\ todo' = todo /\ slow' = slow /\ ws \in [Clients -> HandlerPhase]
    BY <1>1 DEF RegisterClient, castVars, TypeOK
  <2>2. \A k \in Clients : Registered(k)' <=> (Registered(k) \/ k = c)
    BY <1>1 DEF RegisterClient, Registered, Lookup
  <2>3. FeedMember' = [FeedMember EXCEPT ![c] = "in"] /\ FeedMember[c] = "new"
    BY <2>1, <2>2 DEF FeedMember
  <2>4. UNCHANGED FeedCall
    BY <2>1 DEF FeedCall
  <2>5. \A b \in Broadcasts : todo[b] \cup slow[b] \subseteq Clients \ {c}
    BY <2>1 DEF HubInv, CallInv, TypeOK
  <2>6. \A b \in Broadcasts : FeedOwed'[b] = FeedOwed[b]
    BY <2>1, <2>2, <2>5 DEF FeedOwed
  <2>7. UNCHANGED FeedOwed
    BY <2>6 DEF FeedOwed
  <2> QED
    BY <2>1, <2>3, <2>4, <2>7 DEF Feed!Join
<1>2. ASSUME NEW c \in Clients, NEW t \in Snapshots \cup {None}, LoadTelemetry(c, t)
      PROVE  UNCHANGED feedBar
  BY <1>2, SameView DEF LoadTelemetry, TypeOK, regVars, feedBar
<1>3. ASSUME NEW c \in Clients, OfferTelemetry(c)
      PROVE  (\E t \in Snapshots : Feed!GiveSnapshot(c, t)) \/ UNCHANGED feedBar
  <2>1. /\ ws[c] = "offer" /\ ws \in [Clients -> HandlerPhase]
        /\ DeviceClients' = DeviceClients /\ UNCHANGED castVars
        /\ \/ ws' = [ws EXCEPT ![c] = "unwind"]
           \/ ws' = [ws EXCEPT ![c] = "start"]
    BY <1>3 DEF OfferTelemetry, TypeOK, regVars
  <2>2. UNCHANGED <<FeedMember, FeedCall, FeedOwed>>
    BY <2>1, SameView
  <2>3. CASE latest[c] # None /\ ~Closed(c) /\ Buffered(c) < SendCap
    <3>1. latest[c] \in Snapshots /\ log' = [log EXCEPT ![c] = Append(@, Stored(latest[c]))]
      BY <1>3, <2>3 DEF OfferTelemetry, TypeOK
    <3>2. Registered(c)
      BY <2>1, <2>3 DEF HubInv, RemovedExactlyOnce, Closed
    <3>3. FeedMember[c] = "in"
      BY <2>1, <3>2 DEF FeedMember
    <3> QED
      BY <2>2, <3>1, <3>3 DEF Feed!GiveSnapshot, Stored
  <2>4. CASE ~(latest[c] # None /\ ~Closed(c) /\ Buffered(c) < SendCap)
    BY <1>3, <2>2, <2>4 DEF OfferTelemetry, feedBar
  <2> QED
    BY <2>3, <2>4
<1>4. ASSUME NEW c \in Clients, StartPump(c) \/ ReadFails(c) PROVE UNCHANGED feedBar
  BY <1>4, SameView DEF StartPump, ReadFails, TypeOK, regVars, feedBar
<1>5. ASSUME NEW c \in Clients, LeaveClient(c)
      PROVE  Feed!Leave(c) \/ UNCHANGED feedBar
  <2>1. /\ ws[c] \in {"leave", "unwind"} /\ ws \in [Clients -> HandlerPhase]
        /\ RemoveWsClient(DeviceOf[c], c)
        /\ UNCHANGED <<log, bc, todo, slow>>
        /\ \/ ws' = [ws EXCEPT ![c] = "done"]
           \/ ws' = [ws EXCEPT ![c] = "panicked"]
    BY <1>5 DEF LeaveClient, TypeOK, castVars
  <2>2. \A k \in Clients : ws'[k] = "upgrade" <=> ws[k] = "upgrade"
    BY <2>1
  <2> QED
    BY <2>1, <2>2, RemoveView DEF TypeOK
<1>6. ASSUME NEW c \in Clients, PeerLeaves(c) \/ PumpStep(c) \/ PumpPingFails(c)
      PROVE  UNCHANGED feedBar
  BY <1>6, SameView DEF PeerLeaves, PumpStep, PumpTake, PumpWrite, PumpDrained,
                        PumpPingFails, regVars, feedBar
<1>7. ASSUME NEW b \in Broadcasts, BroadcastStart(b) PROVE Feed!Publish(b)
  <2> DEFINE found == Lookup(TopicOf[b])
  <2>1. /\ bc[b] = "idle" /\ bc \in [Broadcasts -> BroadcastPhase]
        /\ todo \in [Broadcasts -> SUBSET Clients]
        /\ bc' = [bc EXCEPT ![b] = IF TopicOf[b] \in DOMAIN DeviceClients
                                   THEN "send" ELSE "done"]
        /\ todo' = [todo EXCEPT ![b] = found]
        /\ slow' = slow /\ log' = log /\ DeviceClients' = DeviceClients /\ ws' = ws
    BY <1>7 DEF BroadcastStart, TypeOK, regVars, clientVars
  <2>2. \A k : Registered(k)' <=> Registered(k)
    BY <2>1 DEF Registered, Lookup
  <2>3. \A k : k \in found <=> k \in Clients /\ FeedMember[k] = "in"
                               /\ DeviceOf[k] = TopicOf[b]
    <3>1. ASSUME NEW k \in found
          PROVE  k \in Clients /\ DeviceOf[k] = TopicOf[b] /\ Registered(k)
                 /\ ws[k] # "upgrade"
      BY DEF Lookup, TypeOK, HubInv, RegistryTidy, Registered
    <3>2. ASSUME NEW k \in Clients, FeedMember[k] = "in", DeviceOf[k] = TopicOf[b]
          PROVE  k \in found
      BY <3>2 DEF FeedMember, Registered
    <3> QED
      BY <3>1, <3>2 DEF FeedMember
  <2>4. found = Feed!Members(TopicOf[b])
    BY <2>3 DEF Feed!Members
  <2>5. TopicOf[b] \in DOMAIN DeviceClients <=> found # {}
    BY DEF Lookup, HubInv, RegistryTidy
  <2>6. FeedCall' = [FeedCall EXCEPT ![b] = IF found = {} THEN "returned" ELSE "open"]
    BY <2>1, <2>5 DEF FeedCall
  <2>7. FeedOwed' = [FeedOwed EXCEPT ![b] = found]
    <3>1. slow[b] = {}
      BY <2>1 DEF HubInv, CallInv
    <3>2. \A k \in found : Registered(k)
      BY <2>3 DEF FeedMember
    <3>3. FeedOwed'[b] = found
      <4>1. FeedOwed'[b] = {k \in found \cup {} : Registered(k)'}
        BY <2>1, <3>1 DEF FeedOwed
      <4> QED
        BY <2>2, <3>2, <4>1
    <3>4. \A a \in Broadcasts : a # b => FeedOwed'[a] = FeedOwed[a]
      BY <2>1, <2>2 DEF FeedOwed
    <3> QED
      BY <3>3, <3>4 DEF FeedOwed
  <2>8. UNCHANGED FeedMember /\ FeedCall[b] = "idle"
    BY <2>1, <2>2 DEF FeedMember, FeedCall
  <2> HIDE DEF found
  <2> QED
    BY <2>1, <2>4, <2>6, <2>7, <2>8 DEF Feed!Publish
<1>8. ASSUME NEW b \in Broadcasts, NEW c \in Clients, BroadcastSend(b, c)
      PROVE  Feed!Deliver(b, c) \/ UNCHANGED feedBar
  <2>1. /\ c \in todo[b] /\ Registered(c) /\ ~Closed(c) /\ c \notin slow[b]
    <3>1. c \in todo[b]
      BY <1>8 DEF BroadcastSend
    <3>2. Registered(c) /\ c \notin slow[b]
      BY <3>1 DEF HubInv, CallInv
    <3> QED
      BY <3>1, <3>2 DEF HubInv, RemovedExactlyOnce, Closed
  <2>2. /\ bc \in [Broadcasts -> BroadcastPhase] /\ todo \in [Broadcasts -> SUBSET Clients]
        /\ slow \in [Broadcasts -> SUBSET Clients]
    BY DEF TypeOK
  <2>3. /\ bc' = bc /\ DeviceClients' = DeviceClients /\ ws' = ws
        /\ todo' = [todo EXCEPT ![b] = @ \ {c}]
    BY <1>8, <2>1, <2>2 DEF BroadcastSend, regVars, clientVars
  <2>4. \A k : Registered(k)' <=> Registered(k)
    BY <2>3 DEF Registered, Lookup
  <2>5. UNCHANGED <<FeedMember, FeedCall>>
    BY <2>3, <2>4 DEF FeedMember, FeedCall
  <2>6. CASE Buffered(c) < SendCap
    <3>1. log' = [log EXCEPT ![c] = Append(@, <<"live", b>>)] /\ slow' = slow
      <4>1. ~(Buffered(c) >= SendCap)
        BY <2>6, AppendFacts DEF TypeOK, Buffered, HubAssumption
      <4> QED
        BY <1>8, <2>1, <2>2, <2>6, <4>1 DEF BroadcastSend, Live
    <3>2. FeedOwed' = [FeedOwed EXCEPT ![b] = @ \ {c}]
      <4>1. FeedOwed'[b] = FeedOwed[b] \ {c}
        BY <2>1, <2>2, <2>3, <2>4, <3>1 DEF FeedOwed
      <4>2. \A a \in Broadcasts : a # b => FeedOwed'[a] = FeedOwed[a]
        BY <2>2, <2>3, <2>4, <3>1 DEF FeedOwed
      <4> QED
        BY <4>1, <4>2 DEF FeedOwed
    <3>3. c \in FeedOwed[b]
      BY <2>1 DEF FeedOwed
    <3> QED
      BY <2>5, <3>1, <3>2, <3>3 DEF Feed!Deliver
  <2>7. CASE ~(Buffered(c) < SendCap)
    <3>1. log' = log /\ slow' = [slow EXCEPT ![b] = @ \cup {c}]
      <4>1. Buffered(c) >= SendCap
        BY <2>7, AppendFacts DEF TypeOK, Buffered, HubAssumption
      <4> QED
        BY <1>8, <2>1, <2>7, <4>1 DEF BroadcastSend
    <3>2. \A a \in Broadcasts : todo'[a] \cup slow'[a] = todo[a] \cup slow[a]
      BY <2>1, <2>2, <2>3, <3>1
    <3>3. UNCHANGED FeedOwed
      BY <2>4, <3>2 DEF FeedOwed
    <3> QED
      BY <2>5, <3>1, <3>3 DEF feedBar
  <2> QED
    BY <2>6, <2>7
<1>9. ASSUME NEW b \in Broadcasts, BroadcastUnlock(b) \/ BroadcastReturn(b)
      PROVE  Feed!Return(b) \/ UNCHANGED feedBar
  <2>1. /\ todo' = todo /\ slow' = slow /\ log' = log
        /\ DeviceClients' = DeviceClients /\ ws' = ws
        /\ bc \in [Broadcasts -> BroadcastPhase] /\ todo[b] = {}
    BY <1>9 DEF BroadcastUnlock, BroadcastReturn, regVars, clientVars, TypeOK, HubInv, CallInv
  <2>2. \A k : Registered(k)' <=> Registered(k)
    BY <2>1 DEF Registered, Lookup
  <2>3. UNCHANGED <<FeedMember, FeedOwed, log>>
    BY <2>1, <2>2 DEF FeedMember, FeedOwed
  <2>4. CASE BroadcastUnlock(b)
    BY <2>1, <2>3, <2>4 DEF BroadcastUnlock, FeedCall, feedBar
  <2>5. CASE BroadcastReturn(b)
    <3>1. bc[b] = "evict" /\ bc' = [bc EXCEPT ![b] = "done"] /\ slow[b] = {}
      BY <2>5 DEF BroadcastReturn
    <3>2. FeedCall' = [FeedCall EXCEPT ![b] = "returned"] /\ FeedCall[b] = "open"
      BY <2>1, <3>1 DEF FeedCall
    <3>3. FeedOwed[b] = {}
      BY <2>1, <3>1 DEF FeedOwed
    <3> QED
      BY <2>3, <3>2, <3>3 DEF Feed!Return
  <2> QED
    BY <1>9, <2>4, <2>5
<1>10. ASSUME NEW b \in Broadcasts, NEW c \in Clients, BroadcastEvict(b, c)
       PROVE  Feed!Leave(c) \/ UNCHANGED feedBar
  <2>1. /\ c \in slow[b] /\ RemoveWsClient(TopicOf[b], c)
        /\ slow' = [slow EXCEPT ![b] = @ \ {c}] /\ slow \in [Broadcasts -> SUBSET Clients]
        /\ UNCHANGED <<log, bc, todo>> /\ ws' = ws
    BY <1>10 DEF BroadcastEvict, clientVars, TypeOK
  <2>2. DeviceOf[c] = TopicOf[b] /\ ws[c] # "upgrade"
    BY <2>1 DEF HubInv, CallInv
  <2> QED
    BY <2>1, <2>2, RemoveView
<1>11. CASE UNCHANGED hubVars
  BY <1>11, SameView DEF hubVars, castVars, feedBar
<1> QED
  BY <1>1, <1>2, <1>3, <1>4, <1>5, <1>6, <1>7, <1>8, <1>9, <1>10, <1>11
     DEF Next, HandlerStep, BroadcastStep, Idle, Feed!Next

(* Nobody has joined and nothing is owed before the first step.            *)
LEMMA InitView == HubAssumption /\ Init => Feed!Init
<1> SUFFICES ASSUME Init PROVE Feed!Init
  OBVIOUS
<1>1. FeedMember = [c \in Clients |-> "new"] /\ FeedCall = [b \in Broadcasts |-> "idle"]
  BY DEF Init, FeedMember, FeedCall
<1>2. FeedOwed = [b \in Broadcasts |-> {}]
  BY DEF Init, FeedOwed
<1> QED
  BY <1>1, <1>2 DEF Init, Feed!Init

(* The hub implements the feed: a telemetry that is published reaches      *)
(* every member of its device or makes it leave.                           *)
THEOREM HubImplementsFeed == Spec => FeedSpec
<1> USE HubAssumption
<1>1. Init => Feed!Init
  BY InitView
<1>2. TypeOK /\ HubInv /\ [Next]_hubVars => [Feed!Next]_(Feed!feedVars)
  BY StepView DEF Feed!feedVars, feedBar
<1> QED
  BY <1>1, <1>2, TypeCorrect, HubCorrect, PTL DEF Spec, FeedSpec, Feed!Spec

=============================================================================
