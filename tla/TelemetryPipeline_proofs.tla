---------------------- MODULE TelemetryPipeline_proofs ----------------------
(***************************************************************************)
(* The pipeline uses the hub as WsHub allows, so what is proved of the hub *)
(* holds in it, and a client that connects misses nothing (NoGap), for all *)
(* values of the constants.                                                *)
(***************************************************************************)
EXTENDS WsHub_proofs, TelemetryPipeline

(* Writing one more telemetry keeps those that were written.               *)
LEMMA WrittenGrows ==
  ASSUME NEW s \in Seq(Broadcasts), NEW m \in Broadcasts
  PROVE  /\ Append(s, m) \in Seq(Broadcasts)
         /\ Range(Append(s, m)) = Range(s) \cup {m}
<1>1. /\ Append(s, m) \in Seq(Broadcasts) /\ Len(s) \in Nat
      /\ DOMAIN s = 1..Len(s) /\ DOMAIN Append(s, m) = 1..(Len(s) + 1)
      /\ \A i \in 1..Len(s) : Append(s, m)[i] = s[i]
      /\ Append(s, m)[Len(s) + 1] = m
  BY AppendFacts
<1>2. 1..(Len(s) + 1) = 1..Len(s) \cup {Len(s) + 1}
  BY <1>1
<1> QED
  BY <1>1, <1>2 DEF Range

(* What a step of the pipeline does to the hub, it does by an action of    *)
(* the hub.                                                                *)
LEMMA PipeStepIsHubStep ==
  ASSUME PipeAssumption, HubAssumption, PipeInv, [PipeNext]_pipelineVars
  PROVE  [Next]_hubVars
<1>1. CASE HubStep
  BY <1>1 DEF HubStep, Next, HandlerStep
<1>2. ASSUME NEW m \in Broadcasts, MessageStep(m) PROVE [Next]_hubVars
  <2>1. CASE BroadcastStored(m)
    BY <2>1 DEF BroadcastStored, Next
  <2>2. CASE UNCHANGED hubVars
    BY <2>2
  <2> QED
    BY <1>2, <2>1, <2>2 DEF MessageStep, MessageHandler, MessageDropped,
         UpdateDocument, MatchNothing, InsertDocument, UpsertFails
<1>3. ASSUME NEW c \in Clients, FindTelemetry(c) PROVE [Next]_hubVars
  <2>1. PICK t \in docs[DeviceOf[c]] \cup {None} : LoadTelemetry(c, t)
    BY <1>3 DEF FindTelemetry
  <2>2. t \in Snapshots \cup {None}
    BY <2>1 DEF PipeInv, PipeAssumption, HubAssumption
  <2> QED
    BY <2>1, <2>2 DEF Next, HandlerStep
<1>4. ASSUME NEW d \in Devices, DeleteTelemetry(d) PROVE [Next]_hubVars
  BY <1>4 DEF DeleteTelemetry
<1>5. CASE Quiet \/ UNCHANGED pipelineVars
  BY <1>5 DEF Quiet, pipelineVars
<1> QED
  BY <1>1, <1>2, <1>3, <1>4, <1>5 DEF PipeNext

(* A step that starts no broadcast and sends no client past its read of    *)
(* the collection keeps PipeInv.                                           *)
LEMMA QuietStep ==
  ASSUME PipeInv, UNCHANGED pipeVars, audience' = audience,
         \A m \in Broadcasts : bc'[m] # "idle" => bc[m] # "idle",
         \A c \in Clients : ws'[c] \in {"offer", "start", "read"} =>
                              /\ ws[c] \in {"offer", "start", "read"}
                              /\ Registered(c)' => Registered(c)
  PROVE  PipeInv'
  BY DEF PipeInv, pipeVars

(* The steps of the hub that do not touch the collection.                  *)
LEMMA HubStepKeeps ==
  ASSUME HubAssumption, TypeOK, HubInv, PipeInv, HubStep, UNCHANGED pipeVars
  PROVE  PipeInv'
<1>0. /\ ws \in [Clients -> HandlerPhase] /\ bc \in [Broadcasts -> BroadcastPhase]
      /\ RegistryTidy /\ RemovedExactlyOnce
  BY DEF TypeOK, HubInv
<1>1. ASSUME NEW c \in Clients, RegisterClient(c) PROVE PipeInv'
  <2>1. /\ ws' = [ws EXCEPT ![c] = "load"] /\ audience' = audience /\ bc' = bc
    BY <1>1 DEF RegisterClient, castVars
  <2>2. \A k \in Clients : Registered(k)' => Registered(k) \/ k = c
    BY <1>1 DEF RegisterClient, Registered, Lookup
  <2> QED
    BY <1>0, <2>1, <2>2, QuietStep
<1>2. ASSUME NEW c \in Clients,
             OfferTelemetry(c) \/ StartPump(c) \/ ReadFails(c) \/ PeerLeaves(c)
               \/ PumpStep(c) \/ PumpPingFails(c)
      PROVE  PipeInv'
  <2>1. DeviceClients' = DeviceClients /\ audience' = audience /\ bc' = bc
    BY <1>2 DEF OfferTelemetry, StartPump, ReadFails, PeerLeaves, PumpStep, PumpTake,
         PumpWrite, PumpDrained, PumpPingFails, regVars, castVars
  <2>2. \A k \in Clients : Registered(k)' <=> Registered(k)
    BY <2>1 DEF Registered, Lookup
  <2>3. \A k \in Clients : ws'[k] \in {"offer", "start", "read"} =>
                             ws[k] \in {"offer", "start", "read"}
    BY <1>0, <1>2 DEF OfferTelemetry, StartPump, ReadFails, PeerLeaves, PumpStep,
         PumpTake, PumpWrite, PumpDrained, PumpPingFails
  <2> QED
    BY <2>1, <2>2, <2>3, QuietStep
<1>3. ASSUME NEW c \in Clients, LeaveClient(c) PROVE PipeInv'
  <2>1. /\ ws[c] \in {"leave", "unwind"} /\ RemoveWsClient(DeviceOf[c], c)
        /\ \/ ws' = [ws EXCEPT ![c] = "done"]
           \/ ws' = [ws EXCEPT ![c] = "panicked"]
        /\ audience' = audience /\ bc' = bc
    BY <1>0, <1>3 DEF LeaveClient, castVars
  <2>2. /\ \A k \in Clients : ws'[k] = "upgrade" <=> ws[k] = "upgrade"
        /\ \A k \in Clients : ws'[k] \in {"offer", "start", "read"} =>
                                ws[k] \in {"offer", "start", "read"}
    BY <1>0, <2>1
  <2>3. \A k \in Clients : Registered(k)' => Registered(k)
    BY <1>0, <2>1, <2>2, RemoveEffect
  <2> QED
    BY <2>1, <2>2, <2>3, QuietStep
<1>4. ASSUME NEW b \in Broadcasts, NEW c \in Clients, BroadcastEvict(b, c) PROVE PipeInv'
  <2>1. /\ c \in slow[b] /\ RemoveWsClient(TopicOf[b], c)
        /\ ws' = ws /\ audience' = audience /\ bc' = bc
    BY <1>4 DEF BroadcastEvict, clientVars
  <2>2. DeviceOf[c] = TopicOf[b] /\ ws[c] # "upgrade"
    BY <2>1 DEF HubInv, CallInv
  <2>3. RemoveWsClient(DeviceOf[c], c)
    BY <2>1, <2>2
  <2>4. \A k \in Clients : ws'[k] = "upgrade" <=> ws[k] = "upgrade"
    BY <2>1
  <2>5. \A k \in Clients : Registered(k)' => Registered(k)
    BY <1>0, <2>2, <2>3, <2>4, RemoveEffect
  <2> QED
    BY <2>1, <2>5, QuietStep
<1>5. ASSUME NEW b \in Broadcasts,
             (\E c \in Clients : BroadcastSend(b, c)) \/ BroadcastUnlock(b) \/ BroadcastReturn(b)
      PROVE  PipeInv'
  <2>1. /\ DeviceClients' = DeviceClients /\ audience' = audience /\ ws' = ws
        /\ \A m \in Broadcasts : bc'[m] # "idle" => bc[m] # "idle"
    BY <1>0, <1>5 DEF BroadcastSend, BroadcastUnlock, BroadcastReturn, regVars, clientVars
  <2>2. \A k \in Clients : Registered(k)' <=> Registered(k)
    BY <2>1 DEF Registered, Lookup
  <2> QED
    BY <2>1, <2>2, QuietStep
<1> QED
  BY <1>1, <1>2, <1>3, <1>4, <1>5 DEF HubStep, BroadcastStep

(* A step of a message that leaves the hub alone.                          *)
LEMMA MessageKeeps ==
  ASSUME PipeInv, NEW m \in Broadcasts, MessageStep(m), ~BroadcastStored(m), HubAssumption
  PROVE  PipeInv'
<1>1. UNCHANGED hubVars /\ known' = known
  BY DEF MessageStep, MessageHandler, MessageDropped, UpdateDocument, MatchNothing,
         InsertDocument, UpsertFails
<1>2. \A c \in Clients : Registered(c)' <=> Registered(c)
  BY <1>1 DEF hubVars, Registered, Lookup
<1>3. up \in [Broadcasts -> UpPhase] /\ docs \in [Devices -> SUBSET Broadcasts]
  BY DEF PipeInv
<1>4. /\ docs' \in [Devices -> SUBSET Broadcasts]
      /\ up' \in [Broadcasts -> UpPhase]
  BY <1>3 DEF MessageStep, MessageHandler, MessageDropped, UpdateDocument, MatchNothing,
         InsertDocument, UpsertFails, UpPhase
<1>5. up[m] # "stored" /\ \A n \in Broadcasts \ {m} : up'[n] = up[n]
  BY <1>3 DEF MessageStep, MessageHandler, MessageDropped, UpdateDocument, MatchNothing,
         InsertDocument, UpsertFails, UpPhase
<1>6. /\ written' \in Seq(Broadcasts) /\ Range(written) \subseteq Range(written')
      /\ up'[m] = "stored" => m \in Range(written')
  <2>1. CASE UpdateDocument(m) \/ InsertDocument(m)
    <3>1. written' = Append(written, m) /\ written \in Seq(Broadcasts)
      BY <2>1 DEF UpdateDocument, InsertDocument, PipeInv
    <3> QED
      BY <3>1, WrittenGrows
  <2>2. CASE ~(UpdateDocument(m) \/ InsertDocument(m))
    <3>1. written' = written /\ up'[m] # "stored"
      BY <1>3, <2>2 DEF MessageStep, MessageHandler, MessageDropped, MatchNothing, UpsertFails
    <3> QED
      BY <3>1 DEF PipeInv
  <2> QED
    BY <2>1, <2>2
<1>7. \A n \in Broadcasts : up'[n] = "stored" => n \in Range(written')
  BY <1>5, <1>6 DEF PipeInv
<1>8. \A n \in Broadcasts : bc'[n] # "idle" => up'[n] = "stored"
  BY <1>1, <1>5 DEF PipeInv, hubVars
<1> QED
  BY <1>1, <1>2, <1>4, <1>6, <1>7, <1>8 DEF PipeInv, hubVars

(* The start of a broadcast: whoever has read the collection and is        *)
(* registered is in the audience.                                          *)
LEMMA StartKeeps ==
  ASSUME PipeInv, TypeOK, NEW m \in Broadcasts, BroadcastStored(m)
  PROVE  PipeInv'
<1>1. /\ up[m] = "stored" /\ UNCHANGED pipeVars
      /\ audience' = [audience EXCEPT ![m] = Lookup(TopicOf[m])]
      /\ \A n \in Broadcasts \ {m} : bc'[n] = bc[n]
      /\ DeviceClients' = DeviceClients /\ ws' = ws
  BY DEF BroadcastStored, BroadcastStart, regVars, clientVars, TypeOK
<1>2. audience \in [Broadcasts -> SUBSET Clients]
  BY DEF TypeOK
<1>3. \A c \in Clients : Registered(c)' <=> Registered(c)
  BY <1>1 DEF Registered, Lookup
<1>4. \A c \in Clients : Registered(c) /\ TopicOf[m] = DeviceOf[c] => c \in audience'[m]
  BY <1>1, <1>2 DEF Registered
<1>5. \A n \in Broadcasts : bc'[n] # "idle" => up'[n] = "stored"
  BY <1>1 DEF PipeInv, pipeVars
<1>6. \A c \in Clients : \A n \in Broadcasts :
        Registered(c)' /\ ws'[c] \in {"offer", "start", "read"}
          /\ bc'[n] # "idle" /\ TopicOf[n] = DeviceOf[c]
        => n \in known'[c] \/ c \in audience'[n]
  <2> SUFFICES ASSUME NEW c \in Clients, NEW n \in Broadcasts,
                      Registered(c)', ws'[c] \in {"offer", "start", "read"},
                      bc'[n] # "idle", TopicOf[n] = DeviceOf[c]
               PROVE  n \in known'[c] \/ c \in audience'[n]
    OBVIOUS
  <2>1. CASE n = m
    BY <2>1, <1>3, <1>4
  <2>2. CASE n # m
    BY <2>2, <1>1, <1>2, <1>3 DEF PipeInv, pipeVars
  <2> QED
    BY <2>1, <2>2
<1> QED
  BY <1>1, <1>5, <1>6 DEF PipeInv, pipeVars

(* The read of the collection: whatever broadcast has begun was written.   *)
LEMMA FindKeeps ==
  ASSUME PipeInv, TypeOK, NEW c \in Clients, FindTelemetry(c)
  PROVE  PipeInv'
<1>1. /\ known' = [known EXCEPT ![c] = Range(written)]
      /\ UNCHANGED <<up, docs, written>>
      /\ ws' = [ws EXCEPT ![c] = "offer"]
      /\ DeviceClients' = DeviceClients /\ bc' = bc /\ audience' = audience
  BY DEF FindTelemetry, LoadTelemetry, regVars, castVars
<1>2. ws \in [Clients -> HandlerPhase] /\ known \in [Clients -> SUBSET Broadcasts]
      /\ written \in Seq(Broadcasts)
  BY DEF TypeOK, PipeInv
<1>3. Range(written) \subseteq Broadcasts
  BY <1>2 DEF Range
<1>4. known' \in [Clients -> SUBSET Broadcasts]
  BY <1>1, <1>2, <1>3
<1>5. \A k \in Clients : Registered(k)' <=> Registered(k)
  BY <1>1 DEF Registered, Lookup
<1>6. \A k \in Clients : \A n \in Broadcasts :
        Registered(k)' /\ ws'[k] \in {"offer", "start", "read"}
          /\ bc'[n] # "idle" /\ TopicOf[n] = DeviceOf[k]
        => n \in known'[k] \/ k \in audience'[n]
  <2> SUFFICES ASSUME NEW k \in Clients, NEW n \in Broadcasts,
                      Registered(k)', ws'[k] \in {"offer", "start", "read"},
                      bc'[n] # "idle", TopicOf[n] = DeviceOf[k]
               PROVE  n \in known'[k] \/ k \in audience'[n]
    OBVIOUS
  <2>1. CASE k = c
    <3>1. n \in Range(written)
      BY <1>1 DEF PipeInv
    <3> QED
      BY <2>1, <3>1, <1>1, <1>2
  <2>2. CASE k # c
    BY <2>2, <1>1, <1>2, <1>5 DEF PipeInv
  <2> QED
    BY <2>1, <2>2
<1> QED
  BY <1>1, <1>4, <1>6 DEF PipeInv

(* PipeInv is inductive, given the invariants of the hub.                  *)
LEMMA PipeNextInv ==
  ASSUME HubAssumption, TypeOK, HubInv, PipeInv, [PipeNext]_pipelineVars
  PROVE  PipeInv'
<1>1. CASE HubStep /\ UNCHANGED pipeVars
  BY <1>1, HubStepKeeps
<1>2. ASSUME NEW m \in Broadcasts, MessageStep(m) PROVE PipeInv'
  BY <1>2, MessageKeeps, StartKeeps
<1>3. ASSUME NEW c \in Clients, FindTelemetry(c) PROVE PipeInv'
  BY <1>3, FindKeeps
<1>4. ASSUME NEW d \in Devices, DeleteTelemetry(d) PROVE PipeInv'
  <2>1. /\ UNCHANGED <<up, written, known, hubVars>>
        /\ docs' \in [Devices -> SUBSET Broadcasts]
    BY <1>4 DEF DeleteTelemetry, PipeInv
  <2>2. \A c \in Clients : Registered(c)' <=> Registered(c)
    BY <2>1 DEF hubVars, Registered, Lookup
  <2> QED
    BY <2>1, <2>2 DEF PipeInv, hubVars
<1>5. CASE Quiet \/ UNCHANGED pipelineVars
  <2>1. UNCHANGED hubVars /\ UNCHANGED pipeVars
    BY <1>5 DEF Quiet, pipelineVars
  <2>2. \A c \in Clients : Registered(c)' <=> Registered(c)
    BY <2>1 DEF hubVars, Registered, Lookup
  <2> QED
    BY <2>1, <2>2, QuietStep DEF hubVars
<1> QED
  BY <1>1, <1>2, <1>3, <1>4, <1>5 DEF PipeNext

LEMMA PipeInitInv == PipeInit => PipeInv
<1> SUFFICES ASSUME PipeInit PROVE PipeInv
  OBVIOUS
<1>1. \A m \in Broadcasts : bc[m] = "idle"
  BY DEF PipeInit, Init
<1>2. /\ docs \in [Devices -> SUBSET Broadcasts]
      /\ up \in [Broadcasts -> UpPhase]
      /\ written \in Seq(Broadcasts)
      /\ known \in [Clients -> SUBSET Broadcasts]
      /\ \A m \in Broadcasts : up[m] # "stored"
  BY DEF PipeInit, UpPhase
<1> QED
  BY <1>1, <1>2 DEF PipeInv

(* All three invariants together are inductive in the pipeline.            *)
LEMMA PipeCorrect == PipeSpec => [](TypeOK /\ HubInv /\ PipeInv)
<1> USE HubAssumption, PipeAssumption
<1>1. PipeInit => TypeOK /\ HubInv /\ PipeInv
  BY InitType, InitInv, PipeInitInv DEF PipeInit
<1>2. TypeOK /\ HubInv /\ PipeInv /\ [PipeNext]_pipelineVars
      => TypeOK' /\ HubInv' /\ PipeInv'
  BY PipeStepIsHubStep, NextType, NextInv, PipeNextInv
<1> QED
  BY <1>1, <1>2, PTL DEF PipeSpec

(* The pipeline implements the hub: MessageHandler, UpsetTelemetry and     *)
(* GetTelemetry use it in no way that WsHub does not allow, so that every  *)
(* theorem of the hub is one of the pipeline.                              *)
THEOREM PipelineImplementsHub == PipeSpec => Spec
<1> USE HubAssumption, PipeAssumption
<1>1. PipeInit => Init
  BY DEF PipeInit
<1>2. PipeInv /\ [PipeNext]_pipelineVars => [Next]_hubVars
  BY PipeStepIsHubStep
<1> QED
  BY <1>1, <1>2, PipeCorrect, PTL DEF PipeSpec, Spec

(* A client that connects misses nothing: every telemetry of its device    *)
(* whose broadcast is over was in the collection when it was read for the  *)
(* client, or has reached the client live.                                 *)
THEOREM NothingMissed == PipeSpec => []NoGap
<1>1. TypeOK /\ HubInv /\ PipeInv => NoGap
  <2> SUFFICES ASSUME TypeOK, HubInv, PipeInv,
                      NEW c \in Clients, NEW m \in Broadcasts,
                      Registered(c), ws[c] \in {"offer", "start", "read"},
                      bc[m] = "done", TopicOf[m] = DeviceOf[c]
               PROVE  m \in known[c] \/ GotLive(c, m)
    BY DEF NoGap
  <2>1. CASE m \in known[c]
    BY <2>1
  <2>2. CASE c \in audience[m]
    <3>1. OnceIn(Live(m), log[c])
      BY <2>2 DEF TypeOK, HubInv, CallInv
    <3> QED
      BY <3>1 DEF OnceIn, GotLive
  <2> QED
    BY <2>1, <2>2 DEF PipeInv
<1> QED
  BY <1>1, PipeCorrect, PTL

-----------------------------------------------------------------------------
(* What ShownIsWritten rests on: the collection holds, and GetTelemetry    *)
(* has given a handler, only what was written for the device.              *)
WrittenFor(t, d) == t \in Range(written) /\ TopicOf[t] = d

ShownInv ==
  /\ \A d \in Devices : \A t \in docs[d] : WrittenFor(t, d)
  /\ \A c \in Clients : latest[c] # None => WrittenFor(latest[c], DeviceOf[c])
  /\ \A c \in Clients : \A i \in DOMAIN log[c] : WrittenFor(log[c][i][2], DeviceOf[c])

(* A step that only takes from the collection and offers nothing new.      *)
LEMMA NothingShown ==
  ASSUME ShownInv, written' = written, latest' = latest, log' = log,
         \A d \in Devices : docs'[d] \subseteq docs[d]
  PROVE  ShownInv'
  BY DEF ShownInv, WrittenFor

(* A telemetry that was written is put into a channel of its device.       *)
LEMMA OneMoreShown ==
  ASSUME TypeOK, ShownInv, NEW c \in Clients, NEW e \in Message,
         WrittenFor(e[2], DeviceOf[c]),
         log' = [log EXCEPT ![c] = Append(@, e)],
         \A k \in Clients : latest'[k] \in {latest[k], None},
         written' = written, docs' = docs
  PROVE  ShownInv'
<1>1. log \in [Clients -> Seq(Message)]
  BY DEF TypeOK
<1>2. /\ Len(log[c]) \in Nat
      /\ DOMAIN log[c] = 1..Len(log[c])
      /\ DOMAIN Append(log[c], e) = 1..(Len(log[c]) + 1)
      /\ \A i \in 1..Len(log[c]) : Append(log[c], e)[i] = log[c][i]
      /\ Append(log[c], e)[Len(log[c]) + 1] = e
  BY <1>1, AppendFacts
<1>3. \A i \in 1..(Len(log[c]) + 1) : i \in 1..Len(log[c]) \/ i = Len(log[c]) + 1
  BY <1>2
<1>4. \A i \in DOMAIN Append(log[c], e) : WrittenFor(Append(log[c], e)[i][2], DeviceOf[c])
  BY <1>2, <1>3 DEF ShownInv
<1>5. \A k \in Clients : \A i \in DOMAIN log'[k] : WrittenFor(log'[k][i][2], DeviceOf[k])
  BY <1>1, <1>4 DEF ShownInv
<1> QED
  BY <1>5 DEF ShownInv, WrittenFor

(* The hub offers what GetTelemetry gave it and broadcasts what is stored. *)
LEMMA HubShows ==
  ASSUME HubAssumption, PipeAssumption, TypeOK, HubInv, PipeInv, ShownInv,
         HubStep, UNCHANGED pipeVars
  PROVE  ShownInv'
<1>0. written' = written /\ docs' = docs
  BY DEF pipeVars
<1>1. ASSUME NEW c \in Clients, OfferTelemetry(c) PROVE ShownInv'
  <2>1. /\ latest \in [Clients -> Snapshots \cup {None}]
        /\ latest' = [latest EXCEPT ![c] = None]
    BY <1>1 DEF TypeOK, OfferTelemetry
  <2>2. CASE latest[c] # None /\ ~Closed(c) /\ Buffered(c) < SendCap
    <3>1. log' = [log EXCEPT ![c] = Append(@, Stored(latest[c]))]
      BY <1>1, <2>2 DEF OfferTelemetry
    <3>2. Stored(latest[c]) \in Message /\ Stored(latest[c])[2] = latest[c]
      BY <2>1, <2>2 DEF Stored, Message
    <3>3. WrittenFor(Stored(latest[c])[2], DeviceOf[c])
      BY <2>2, <3>2 DEF ShownInv
    <3>4. \A k \in Clients : latest'[k] \in {latest[k], None}
      BY <2>1
    <3> QED
      BY <1>0, <3>1, <3>2, <3>3, <3>4, OneMoreShown
  <2>3. CASE ~(latest[c] # None /\ ~Closed(c) /\ Buffered(c) < SendCap)
    <3>1. log' = log
      BY <1>1, <2>3 DEF OfferTelemetry
    <3> QED
      BY <1>0, <2>1, <3>1 DEF ShownInv, WrittenFor
  <2> QED
    BY <2>2, <2>3
<1>2. ASSUME NEW b \in Broadcasts, NEW c \in Clients, BroadcastSend(b, c) PROVE ShownInv'
  <2>1. latest' = latest
    BY <1>2 DEF BroadcastSend, clientVars
  <2>2. CASE ~Closed(c) /\ Buffered(c) < SendCap
    <3>1. log' = [log EXCEPT ![c] = Append(@, Live(b))]
      BY <1>2, <2>2 DEF BroadcastSend
    <3>2. Live(b) \in Message /\ Live(b)[2] = b
      BY DEF Live, Message
    <3>3. bc[b] # "idle" /\ c \in audience[b]
      BY <1>2 DEF BroadcastSend, HubInv, CallInv
    <3>4. TopicOf[b] = DeviceOf[c]
      BY <3>3 DEF HubInv, CallInv
    <3>5. WrittenFor(Live(b)[2], DeviceOf[c])
      BY <3>2, <3>3, <3>4 DEF PipeInv, WrittenFor
    <3> QED
      BY <1>0, <2>1, <3>1, <3>2, <3>5, OneMoreShown
  <2>3. CASE ~(~Closed(c) /\ Buffered(c) < SendCap)
    <3>1. log' = log
      BY <1>2, <2>3 DEF BroadcastSend
    <3> QED
      BY <1>0, <2>1, <3>1, NothingShown
  <2> QED
    BY <2>2, <2>3
<1>3. CASE latest' = latest /\ log' = log
  BY <1>0, <1>3, NothingShown
<1>4. ASSUME NEW c \in Clients,
             RegisterClient(c) \/ StartPump(c) \/ ReadFails(c) \/ LeaveClient(c)
               \/ PeerLeaves(c) \/ PumpStep(c) \/ PumpPingFails(c)
      PROVE  latest' = latest /\ log' = log
  BY <1>4 DEF RegisterClient, StartPump, ReadFails, LeaveClient, PeerLeaves, PumpStep,
       PumpTake, PumpWrite, PumpDrained, PumpPingFails
<1>5. ASSUME NEW b \in Broadcasts,
             (\E c \in Clients : BroadcastEvict(b, c)) \/ BroadcastUnlock(b) \/ BroadcastReturn(b)
      PROVE  latest' = latest /\ log' = log
  BY <1>5 DEF BroadcastEvict, BroadcastUnlock, BroadcastReturn, clientVars
<1> QED
  BY <1>1, <1>2, <1>3, <1>4, <1>5 DEF HubStep, BroadcastStep

(* A message is written before, or as, it comes into the collection.       *)
LEMMA MessageShows ==
  ASSUME HubAssumption, PipeInv, ShownInv, NEW m \in Broadcasts, MessageStep(m)
  PROVE  ShownInv'
<1>1. CASE UpdateDocument(m) \/ InsertDocument(m)
  <2>1. written' = Append(written, m) /\ latest' = latest /\ log' = log
    BY <1>1 DEF UpdateDocument, InsertDocument, hubVars
  <2>2. Range(written') = Range(written) \cup {m}
    BY <2>1, WrittenGrows DEF PipeInv
  <2>3. \A d \in Devices : docs'[d] \subseteq IF d = TopicOf[m] THEN docs[d] \cup {m} ELSE docs[d]
    BY <1>1 DEF UpdateDocument, InsertDocument, PipeInv
  <2>4. \A t, d : WrittenFor(t, d) => WrittenFor(t, d)'
    BY <2>2 DEF WrittenFor
  <2>5. WrittenFor(m, TopicOf[m])'
    BY <2>2 DEF WrittenFor
  <2>6. \A d \in Devices : \A t \in docs'[d] : WrittenFor(t, d)'
    BY <2>3, <2>4, <2>5 DEF ShownInv
  <2> QED
    BY <2>1, <2>4, <2>6 DEF ShownInv
<1>2. CASE ~(UpdateDocument(m) \/ InsertDocument(m))
  <2>1. written' = written /\ latest' = latest /\ log' = log /\ docs' = docs
    BY <1>2 DEF MessageStep, MessageHandler, MessageDropped, MatchNothing, UpsertFails,
         BroadcastStored, BroadcastStart, hubVars, pipeVars, clientVars
  <2> QED
    BY <2>1, NothingShown
<1> QED
  BY <1>1, <1>2

(* ShownInv is inductive, given the other invariants.                      *)
LEMMA ShownNextInv ==
  ASSUME HubAssumption, PipeAssumption, TypeOK, HubInv, PipeInv, ShownInv,
         [PipeNext]_pipelineVars
  PROVE  ShownInv'
<1>1. CASE HubStep /\ UNCHANGED pipeVars
  BY <1>1, HubShows
<1>2. ASSUME NEW m \in Broadcasts, MessageStep(m) PROVE ShownInv'
  BY <1>2, MessageShows
<1>3. ASSUME NEW c \in Clients, FindTelemetry(c) PROVE ShownInv'
  <2>1. PICK t \in docs[DeviceOf[c]] \cup {None} : LoadTelemetry(c, t)
    BY <1>3 DEF FindTelemetry
  <2>2. /\ latest' = [latest EXCEPT ![c] = t] /\ log' = log
        /\ written' = written /\ docs' = docs
    BY <1>3, <2>1 DEF FindTelemetry, LoadTelemetry
  <2>3. t # None => WrittenFor(t, DeviceOf[c])
    BY DEF ShownInv, HubAssumption
  <2>4. latest \in [Clients -> Snapshots \cup {None}]
    BY DEF TypeOK
  <2> QED
    BY <2>2, <2>3, <2>4 DEF ShownInv, WrittenFor
<1>4. ASSUME NEW d \in Devices, DeleteTelemetry(d) PROVE ShownInv'
  BY <1>4, NothingShown DEF DeleteTelemetry, hubVars, PipeInv
<1>5. CASE Quiet \/ UNCHANGED pipelineVars
  BY <1>5, NothingShown DEF Quiet, pipelineVars, hubVars, pipeVars
<1> QED
  BY <1>1, <1>2, <1>3, <1>4, <1>5 DEF PipeNext

LEMMA ShownCorrect == PipeSpec => [](TypeOK /\ PipeInv /\ ShownInv)
<1> USE HubAssumption, PipeAssumption
<1>1. PipeInit => ShownInv
  BY DEF PipeInit, Init, ShownInv
<1>2. TypeOK /\ HubInv /\ PipeInv /\ ShownInv /\ [PipeNext]_pipelineVars => ShownInv'
  BY ShownNextInv
<1> QED
  BY <1>1, <1>2, PipeCorrect, PTL DEF PipeSpec

(* The variables of the pipeline hold values of their types, and what is   *)
(* stored for a device is a telemetry of that device.                      *)
THEOREM PipeTypeCorrect == PipeSpec => []PipeTypeOK
<1>1. TypeOK /\ PipeInv /\ ShownInv => PipeTypeOK
  BY DEF PipeInv, ShownInv, WrittenFor, PipeTypeOK
<1> QED
  BY <1>1, ShownCorrect, PTL

(* Nobody is shown what UpsetTelemetry has not written before, or what is  *)
(* of another device, neither live nor stored.                             *)
THEOREM NothingUnwrittenShown == PipeSpec => []ShownIsWritten
<1>1. ShownInv => ShownIsWritten
  BY DEF ShownInv, WrittenFor, ShownIsWritten
<1> QED
  BY <1>1, ShownCorrect, PTL
=============================================================================
