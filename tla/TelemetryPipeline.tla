------------------------- MODULE TelemetryPipeline -------------------------
(***************************************************************************)
(* The way of a telemetry through the backend: mqtt.MessageHandler, the    *)
(* goroutine UpsetTelemetry it starts for every message, the collection    *)
(* telemetry of MongoDB, and the hub of WsHub with GetTelemetry reading    *)
(* the collection for a client that connects.                              *)
(*                                                                         *)
(* A message is named by its telemetry, so Broadcasts are the messages the *)
(* devices publish and TopicOf[m] is the deviceId in the payload of m.     *)
(* The client library runs handlers without order (opts.Order = false) and *)
(* the goroutines are not ordered either.  UpdateOne with upsert is atomic *)
(* on a document it matches; when it matches none it inserts one in a      *)
(* second step, and no unique index on deviceId makes two such calls meet. *)
(***************************************************************************)
EXTENDS WsHub, FiniteSets, SequencesExt

(* What is stored may be found.                                            *)
ASSUME PipeAssumption == Broadcasts \subseteq Snapshots

VARIABLES
  up,        \* up[m]: how far the message m has got
  docs,      \* docs[d]: the telemetries in the documents of device d
  written,   \* written: the telemetries in the order they were written
  known      \* known[c]: those written when GetTelemetry ran for client c

pipeVars  == <<up, docs, written, known>>
pipelineVars == <<hubVars, pipeVars>>

UpPhase == {"published", "dropped", "upsert", "insert", "failed", "stored"}

PipeInit ==
  /\ Init
  /\ up = [m \in Broadcasts |-> "published"]
  /\ docs = [d \in Devices |-> {}]
  /\ written = <<>>
  /\ known = [c \in Clients |-> {}]

-----------------------------------------------------------------------------
(* MessageHandler: a payload that does not parse or names no device is     *)
(* dropped, any other starts a goroutine.                                  *)
MessageHandler(m) ==
  /\ up[m] = "published"
  /\ up' = [up EXCEPT ![m] = "upsert"]
  /\ UNCHANGED <<docs, written, known, hubVars>>

MessageDropped(m) ==
  /\ up[m] = "published"
  /\ up' = [up EXCEPT ![m] = "dropped"]
  /\ UNCHANGED <<docs, written, known, hubVars>>

(* UpdateOne finds a document of the device and overwrites all its fields. *)
(* A write may take effect and yet be answered with an error, or not at    *)
(* all: for UpsetTelemetry it has failed.                                  *)
UpdateDocument(m) ==
  /\ up[m] = "upsert"
  /\ \E t \in docs[TopicOf[m]] :
       docs' = [docs EXCEPT ![TopicOf[m]] = (@ \ {t}) \cup {m}]
  /\ \E end \in {"stored", "failed"} : up' = [up EXCEPT ![m] = end]
  /\ written' = Append(written, m)
  /\ UNCHANGED <<known, hubVars>>

(* UpdateOne finds none and goes on to insert one ...                      *)
MatchNothing(m) ==
  /\ up[m] = "upsert"
  /\ docs[TopicOf[m]] = {}
  /\ up' = [up EXCEPT ![m] = "insert"]
  /\ UNCHANGED <<docs, written, known, hubVars>>

(* ... whether or not another call has inserted one meanwhile.             *)
InsertDocument(m) ==
  /\ up[m] = "insert"
  /\ docs' = [docs EXCEPT ![TopicOf[m]] = @ \cup {m}]
  /\ \E end \in {"stored", "failed"} : up' = [up EXCEPT ![m] = end]
  /\ written' = Append(written, m)
  /\ UNCHANGED <<known, hubVars>>

(* UpdateOne returns an error: nothing is broadcast, and the caller, a go  *)
(* statement, never learns.                                                *)
UpsertFails(m) ==
  /\ up[m] \in {"upsert", "insert"}
  /\ up' = [up EXCEPT ![m] = "failed"]
  /\ UNCHANGED <<docs, written, known, hubVars>>

BroadcastUnwritten(m) ==   \* slip: broadcast first, write later
  /\ up[m] \in {"upsert", "stored"}
  /\ BroadcastStart(m)
  /\ UNCHANGED pipeVars

BroadcastFailed(m) ==   \* slip: the error of UpdateOne is not looked at
  /\ up[m] \in {"stored", "failed"}
  /\ BroadcastStart(m)
  /\ UNCHANGED pipeVars

(* UpsetTelemetry calls BroadcastTelemetry after the write.                *)
BroadcastStored(m) ==
  /\ up[m] = "stored"
  /\ BroadcastStart(m)
  /\ UNCHANGED pipeVars

(* GetDeviceStatus: DeleteTelemetry removes one document of the device.    *)
DeleteTelemetry(d) ==
  /\ \E t \in docs[d] : docs' = [docs EXCEPT ![d] = @ \ {t}]
  /\ UNCHANGED <<up, written, known, hubVars>>

(* GetTelemetry for the handler of c: FindOne returns one of the device's  *)
(* documents, or an error when there is none or the database fails.        *)
FindTelemetry(c) ==
  /\ \E t \in docs[DeviceOf[c]] \cup {None} : LoadTelemetry(c, t)
  /\ known' = [known EXCEPT ![c] = Range(written)]
  /\ UNCHANGED <<up, docs, written>>

-----------------------------------------------------------------------------
(* The steps of the hub that do not touch the collection.                  *)
HubStep ==
  \/ \E c \in Clients :
       \/ RegisterClient(c) \/ OfferTelemetry(c) \/ StartPump(c) \/ ReadFails(c)
       \/ LeaveClient(c) \/ PeerLeaves(c) \/ PumpStep(c) \/ PumpPingFails(c)
  \/ \E b \in Broadcasts : BroadcastStep(b)

MessageStep(m) ==
  \/ MessageHandler(m) \/ MessageDropped(m) \/ UpdateDocument(m) \/ MatchNothing(m)
  \/ InsertDocument(m) \/ UpsertFails(m) \/ BroadcastStored(m)

(* Every message is dealt with and every client gone.                      *)
Quiet ==
  /\ \A c \in Clients : HandlerEnded(c)
  /\ \A m \in Broadcasts : up[m] \in {"dropped", "failed"} \/ CallEnded(m)
  /\ \A d \in Devices : docs[d] = {}
  /\ UNCHANGED pipelineVars

PipeNext ==
  \/ HubStep /\ UNCHANGED pipeVars
  \/ \E m \in Broadcasts : MessageStep(m)
  \/ \E c \in Clients : FindTelemetry(c)
  \/ \E d \in Devices : DeleteTelemetry(d)
  \/ Quiet

PipeSpec == PipeInit /\ [][PipeNext]_pipelineVars

(* What NoGap rests on: only what is written is broadcast, and a client    *)
(* that has read the collection has seen there, or is in the audience of,  *)
(* every broadcast of its device that has begun.                           *)
PipeInv ==
  /\ docs \in [Devices -> SUBSET Broadcasts]
  /\ up \in [Broadcasts -> UpPhase]
  /\ written \in Seq(Broadcasts)
  /\ known \in [Clients -> SUBSET Broadcasts]
  /\ \A m \in Broadcasts : up[m] = "stored" => m \in Range(written)
  /\ \A m \in Broadcasts : bc[m] # "idle" => up[m] = "stored"
  /\ \A c \in Clients : \A m \in Broadcasts :
       Registered(c) /\ ws[c] \in {"offer", "start", "read"}
         /\ bc[m] # "idle" /\ TopicOf[m] = DeviceOf[c]
       => m \in known[c] \/ c \in audience[m]

-----------------------------------------------------------------------------
(* Properties.                                                             *)

(* The variables of the pipeline hold values of their types, and what is   *)
(* stored for a device is a telemetry of that device.                      *)
PipeTypeOK ==
  /\ TypeOK
  /\ up \in [Broadcasts -> UpPhase]
  /\ docs \in [Devices -> SUBSET Broadcasts]
  /\ \A d \in Devices : \A t \in docs[d] : TopicOf[t] = d
  /\ written \in Seq(Broadcasts)
  /\ known \in [Clients -> SUBSET Broadcasts]

(* The histories of c contain the telemetry m, sent live.                  *)
GotLive(c, m) == \E i \in DOMAIN log[c] : log[c][i] = Live(m)

(* A client that connects misses nothing: because DeviceStatusWS registers *)
(* it before it reads the collection, every telemetry of its device whose  *)
(* broadcast is over was in the collection before the read or has reached  *)
(* the client live, as long as the client is registered.                   *)
NoGap ==
  \A c \in Clients : \A m \in Broadcasts :
    Registered(c) /\ ws[c] \in {"offer", "start", "read"}
      /\ bc[m] = "done" /\ TopicOf[m] = DeviceOf[c]
    => m \in known[c] \/ GotLive(c, m)

(* Nobody is shown what the database does not know: a telemetry reaches a  *)
(* client, stored or live, only after UpsetTelemetry has written it, and   *)
(* only if it is of the client's device.                                   *)
ShownIsWritten ==
  \A c \in Clients : \A i \in DOMAIN log[c] :
    /\ log[c][i][2] \in Range(written)
    /\ TopicOf[log[c][i][2]] = DeviceOf[c]

(* DeviceStatusWS, "send latest telemetry immediately": the stored         *)
(* telemetry that a client is sent was not written before one that the     *)
(* client has already been sent live.                                      *)
SnapshotIsLatest ==
  \A c \in Clients : \A i, j \in DOMAIN log[c] :
    i < j /\ log[c][i][1] = "live" /\ log[c][j][1] = "stored"
    => \A p, q \in DOMAIN written :
         written[p] = log[c][i][2] /\ written[q] = log[c][j][2] => p <= q

=============================================================================
