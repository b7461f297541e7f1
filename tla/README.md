# Verification of the sericulture backend

The backend receives telemetry of rearing-house controllers over MQTT, keeps the
last one of each device in MongoDB, shows it to browsers over WebSockets, sends
commands back and administers users. It is a Go program (Fiber, paho, the MongoDB
driver); this directory holds TLA+ models of it, what TLC checks of them
and what TLAPS proves. Paths below are relative to `src/`.

## 1. Inventory

| Component | State | Operations | Talks to |
|---|---|---|---|
| WebSocket hub (`service/telemetry.go`, `controller/telemetry.go`) | `DeviceClients` under `Mutex`; per client a channel of 100, a connection, a handler and a writer goroutine | `DeviceStatusWS`, `writePump`, `BroadcastTelemetry`, `RemoveWsClient` | called by the pipeline; reads the collection `telemetry` |
| Telemetry pipeline (`mqtt/mqtt.go`, `service/telemetry.go`) | collection `telemetry`, a goroutine per message | `MessageHandler`, `UpsetTelemetry`, `GetTelemetry`, `DeleteTelemetry`, `GetAllTelemetry` | broker → codec → collection → hub |
| Telemetry codec (`model/telemetry.go`) | none | `UnmarshalJSON` of `Telemetry` and `StageSettings`, `Normalize*` | used by the pipeline at both ends |
| Authentication (`utils/auth.go`) | `authUserCache` under its mutex, entries of an hour | `JWTMiddleware`, `Get`, `Set`, `ClearUserCache`, `GenerateJWT`, `ValidateJWT` | in front of nearly all routes; reads `users` |
| User administration (`service/user.go`, `controller/user.go`) | collection `users` | `Login`, `LogOut`, `CreateUser`, `UpdateUser`, `DeleteUser`, queries | clears the cache |
| MQTT session (`mqtt/mqtt.go`) | the client, its connections, the broker's subscriptions | `ConnectMQTT`, `OnConnect`, `Subscribe*` | broker |
| Device commands (`controller/telemetry.go`, `controller/ota.go`, `mqtt/mqtt.go`) | none of their own | `SendCommand` and the routes that call it | MQTT session |
| Listings (`controller/`, `service/`) | none | `GetAllUsers`, `GetAllNotification`, `GetAllTelemetry` | collections `users`, `notification`, `telemetry` |
| Notifications (`mqtt/mqtt.go`, `service/notification.go`) | collection `notification` | `NotificationHandler`, `sendNotification`, `saveNotification` | `users`, Firebase |
| Firmware (`controller/ota.go`) | files by name | `UploadFile`, `GetFile`, `UpdateFirmware` | commands; the framework's cache of open files |
| Router, start-up, logging | configuration | initialisation, routes | all |

**What is hard.** *Concurrency*: goroutines per request, per client and per message;
only `Mutex` and the cache's mutex order them, and channels are sent on while
others close them. *Order*: MQTT handlers run unordered, writes and broadcasts of
one device are unordered, the stored telemetry is read at one moment and queued
at a later one. *Failure*: connections that die at any moment, database calls that
fail, or take effect and report an error. *Staleness*: users are judged by a copy
of up to an hour; a notification goes to a token read some time before; a page of
a listing and its total are read apart. *Delivery*: everything on MQTT is sent at
QoS 0, connections are lost and made anew, a publication or a subscription may
time out, and each of these is logged and nothing else. *Files*: an upload empties
and rewrites the file that others are reading. *Data*: some sixty fields with up to
three keys each. Nothing but the database and the firmware directory survives a
restart, and each document is written by single calls, so there is no recovery to
model; what a restart ends half-way (a request, a notification, a subscription) is.

**What makes each part correct.**
- Hub: a channel is closed exactly once and never sent on afterwards; a client is
  sent every telemetry or is cut off; the registry holds exactly the clients that
  are alive; a lost client is cleaned up; broadcasts return.
- Pipeline: a client that connects misses nothing; nothing is shown that was not
  stored.
- Codec: old and compact keys mean the same; what is stored reads back as it was
  shown, but for its ID and the time; null means absent.
- Authentication: a request is judged by the user as it is, or a stale verdict
  has a known cause and ends.
- Session: once the connection stands, each subscription does, whatever the
  broker remembers, unless the broker refuses it over that very connection.
- Commands: none is sent twice, those sent over a connection that stands arrive in
  order, two requests for one device do not leave it with the mode of one and the
  stage of the other, and a route is always answered.
- Notifications: sent to nobody who has given the device or the token up before;
  recorded even when the look-up or Firebase never answers, if the insertion ends.
- Firmware: the hash that is answered is that of the upload, and a device that is
  told it downloads what has it, unless uploads of one name overlap.
- Listings: a reader that walks through the pages misses nobody.

`PROJECT.json` lists the hazards, each with its line and the properties about it.

## 2. Modules

```
DeviceFeed            what the hub promises (abstract specification)
  ^ implemented by
WsHub                 the hub
  ^ extended by
TelemetryPipeline     messages, goroutines, collection, on top of the hub
TelemetryCodec        JSON -> Telemetry -> document -> Telemetry
UserCache             JWTMiddleware, cache, collection users
MqttSession           connection, subscriptions, commands
  ^ extended by
Notifications         notifications and the users they go to
FirmwareStore         what the firmware directory promises (abstract specification)
  ^ implemented by
Firmware              the firmware directory, its uploads and downloads
Listings              page after page of a collection that changes
MC*                   instances for TLC (MCBackend: MqttSession to Listings together)
*_proofs              theorems, one module for each of the modules above
```

**DeviceFeed.** Members join and leave a device's feed, a publication is owed to the
members it found and is given to each of them once, or the member leaves. No
channels, no locks, no goroutines.

**WsHub.** One variable per piece of state: `DeviceClients`; for a client `ws` (where
`DeviceStatusWS` stands), `latest` (its local variable `telemetry`), `pump` (where
`writePump` stands), `link` (the connection), and the channel as `log` (everything
ever put in), `taken` (how much of it was received) and `closes` (how often it was
closed); for a call of `BroadcastTelemetry` `bc`, the clients it found
(`audience`), has yet to visit (`todo`) and found slow (`slow`). A section under
`Mutex.Lock` blocks on nothing and is one action; the section under `RLock` is
one action per client, as `writePump`, which takes no lock, and the unlocked send
of `DeviceStatusWS` interleave with it. `LockFree` is what the lock means to
writers: no broadcast is between `RLock` and `RUnlock`.

| Code | Action |
|---|---|
| `DeviceStatusWS`: create, register | `RegisterClient` |
| `GetTelemetry` / `select` with default | `LoadTelemetry` / `OfferTelemetry` |
| `go writePump` / read loop / deferred removal | `StartPump` / `ReadFails` / `LeaveClient` |
| `writePump`: receive, write, ping, closed channel | `PumpTake`, `PumpWrite`, `PumpPingFails`, `PumpDrained`, each exit by `HangUp` |
| `BroadcastTelemetry`: lookup, loop, unlock, evictions, return | `BroadcastStart`, `BroadcastSend`, `BroadcastUnlock`, `BroadcastEvict`, `BroadcastReturn` |
| connection lost, pong missing | `PeerLeaves` |

**TelemetryPipeline** extends WsHub; a broadcast is a message. `MessageHandler`
starts the goroutine of a message or drops it (`MessageDropped`); the upsert is one
atomic step on a document it matches (`UpdateDocument`) and two when it matches
none (`MatchNothing`, `InsertDocument`), as MongoDB has no unique index here to
refuse the second of two inserts; a write may fail (`UpsertFails`) or take effect
and yet return an error; `BroadcastStored` is the start of the hub's
broadcast. `FindTelemetry` gives `LoadTelemetry` of the hub what the collection
holds. `written` and `known` are histories for the properties.

**TelemetryCodec** is three tables, each read off its own place in the code, and the
operators that interpret them: the struct's fields with their bson keys (`Tags`), the keys
and types `UnmarshalJSON` takes them from (`TelemetryFields`, `StageFields`), and the `$set`
list of `UpsetTelemetry` (`SetFields`). A behaviour takes one payload through decode, `$set`
with upsert into whatever the collection held of the device before (`Earlier`: nothing, or a
document, with or without all keys), and `GetTelemetry`. A JSON value is its kind and its
text. `UnmarshalJSON` leaves `ID` nil, so a live telemetry has the nil ObjectID, while
`GetTelemetry` fills it from `_id`: a client can tell the two apart by it.

**UserCache** is one user: document, cache entry, and any number of requests,
logins and updates. A token is the user it was made from: `ValidateJWT` compares
the username and, through the signature, the password, and nothing else of a
user with one ID can differ. `span` and the entry's `late` are histories for the
properties.

**MqttSession** is the one paho client and the requests that publish through it.
`client` is what the library knows of the connection: `IsConnected` is also true while
it connects or reconnects, when a publication is dropped and a subscription fails at once. Each
connection starts an `OnConnect` (`hook[k]`), which may still run when the next one
stands. `wire` is what has been written and not read, lost with the connection; `subs`
is the broker's session, which outlives it as CleanSession is off, unless the broker
forgets it. Over a connection that is up the broker may also refuse a subscription, or take it
and never answer (`BrokerRefuses`), with or without forgetting an earlier one to the topic:
`OnConnect` logs the error, or the timeout, goes on, and tries nothing again. `refused` is a
history of this for the properties. A request walks through the commands of its route
(`CommandsOf`), with a `WaitTimeout` after each; `taken` and `settings` are what the broker
took and what the device was last told.

| Code | Action |
|---|---|
| `ConnectMQTT`, reconnection / connection lost / process ends | `Connect` / `ConnectionLost` / `Restart` |
| `OnConnect`: `SubscribeTelemetry`, `SubscribeNotification` | the same, for the k-th connection |
| a route: parse the body, commands, answer | `StartRequest`, `CommandsOf`, `Answer` |
| `SendCommand`: `IsConnected`, `Publish`, `WaitTimeout` | `CommandDropped`, `SendCommand`, `WaitOver` |
| the broker | `BrokerSubscribes`, `BrokerRefuses`, `BrokerForwards` |

**Notifications** extends it: `NotificationHandler` needs a connection and the
subscription, and starts the goroutines `sendNotification` (`note`: look-up, push) and
`saveNotification` (`row`: started, in `InsertOne`, over). Of a user it keeps the device and
the token; `CreateUser`, `UpdateUser`, `DeleteUser` and `LogOut` change them, and several
users may have one device. `note[n].held` is a history: the tokens the device's users have
had since the notification arrived.

**Firmware** takes `UploadFile` block by block, as `SaveFile` creates the file in place and
copies, and `getSHA256` then reads it; a hash is named by the content. `GetFile` sends
what the framework's open file gives it, up to the length the file had when it was opened.
`begun` and `settled` are histories.

**FirmwareStore** is what they amount to, without blocks, offsets or lengths: a *safe
register* for each name. An upload that no other of its name meets releases its image and
is answered for it; a download of a released name gives the release; a download that meets
an upload, or uses a view of the file from before the release, may give anything, and so
may the answer of an upload that meets another.

**Listings** is a reader that asks for page after page until it has come to
`total_count`, over rows that are inserted and deleted between, and within, its requests.
The reader (`NextPage`) is not in the repository; it goes by the numbers the answer has.

**Slips.** A definition marked *slip* is a likely mistake in the one that
follows it (a forgotten lock, a skipped client, a missing key). Specifications
do not use them; replacing the right definition by its slip must violate the
property that `PROJECT.json` names, which shows that the property depends on
that part of the code.

## 3. Runs

| Run | Configuration | Instance | Shows |
|---|---|---|---|
| `hub_safety` | `MCWsHub.cfg` | 2 clients, 2 broadcasts, 1 device, capacity 1 | types, tidy registry, one close per removal, no panic of a broadcast, no silent loss, no client left behind, the inductive invariant, and WsHub implements DeviceFeed |
| `hub_live` | `MCWsHubLive.cfg` | 1 client, 3 broadcasts | lost and evicted clients are cleaned up, queued messages are taken, broadcasts return |
| `pipeline_safety` | `MCTelemetryPipeline.cfg` | 1 client, 3 messages, 2 devices, capacity 2 | no gap for a client that connects, nothing shown that is not stored |
| `codec` | `MCTelemetryCodec.cfg` | each field with all subsets of its keys and every kind of value; the relay and status fields together; stages | old and compact agree (but for `po`), null says nothing, the `$set` list is complete, stored reads back as shown but for ID and time, over a new document or an earlier one |
| `user_cache` | `MCUserCache.cfg` | 1 request slot used again and again, 1 login slot, 3 updates | the causes of a stale password, verdicts settle |
| `backend` | `MCBackend.cfg` | the five parts below | commands arrive once and in order over a connection that stands, two switches at once have an order, routes are answered, subscriptions come back unless refused; a notification goes to a token its device's users had, and is recorded if the insertion ends; answered hashes are true, downloads match them, and Firmware implements FirmwareStore; a walk over the pages is exact and misses nobody |
| `hub_snapshot_panic` | `MCWsHubPanic.cfg` | 1 client, 2 broadcasts | **violated**: the unlocked send of the stored telemetry panics |
| `pipeline_latest` | `MCTelemetryPipelineLatest.cfg` | 1 client, 2 messages | **violated**: an older stored telemetry comes after a newer live one |
| `codec_po` | `MCTelemetryCodecPo.cfg` | as `codec` | **violated**: `po` is not `powerOn` to the relay counts |
| `codec_power_on` | `MCTelemetryCodecPowerOn.cfg` | as `codec` | **violated**: the expectation of `telemetry_test.go:69` |
| `user_cache_refused` | `MCUserCacheRefused.cfg` | 2 requests, 1 update | **violated**: a late `Set` brings the old password back |
| `user_cache_valid` | `MCUserCacheValid.cfg` | 1 request, 1 update | **violated**: a changed username is refused for an hour |

The violated ones are explained under "findings" in `PROJECT.json`: each states
what a comment or a test of the repository says, and TLC finds how the code
departs from it.

**Bounds.** The channel holds 1 or 2 messages instead of 100: what matters is
empty, filling and full, and that a full one can be found by two broadcasts, by the
stored telemetry, and during a loop. Two clients of one device suffice for one to be
visited, found slow or removed while the loop still has the other to visit, two
broadcasts to evict the same client. Two devices, whose clients and messages must not
mix, are in `pipeline_safety`, and any number in the proofs. Three broadcasts fill a
channel, take from it and overflow it. A request slot of UserCache returns to idle, so
one slot stands for a sequence of requests of any length; two are used where two must
overlap. A user has two names and two passwords, as a third would be one more value that
differs. In the codec, the instances take together the fields that share keys; that no
others do, and that nothing is left out, is proved (`KeysApart`,
`OldAndCompactInAgreement`).

MCBackend follows, in a behaviour, one of five parts, because these have little or
nothing in common and their product would only multiply states:
- *link*: one request of each kind over up to three connections (`MaxConnections`: one
  to lose, one during which the `OnConnect` of the first may still run, one more);
  restarts at any moment, and either subscription refused over any of the connections.
  After the second connection only the route with two commands is followed, after the
  third none, nor after a refusal, which the commands do not depend on.
- *switches*: two requests with two commands each, or one, for one device over one
  connection, where subscriptions succeed. `SwitchesSerialise` is about devices with at most
  two requests, and is false of three: a request B sets mode and stage, and its mode is
  taken; a request A with the other mode is taken and answered; then a request C sets the
  stage, after A; then the stage of B is taken. The device has the mode of A and the stage
  of B, which needs the order B, A for the mode and C, B for the stage, while C came after
  A.
- *notes*: a notification of either device or of none, two users, two tokens, one
  connection that can be lost, restarts. A subscription that is refused would only be one
  over which nothing arrives, as before it is made. One notification is enough, as notifications
  share only the users, which change without them.
- *firmware*: two uploads of one name, of two blocks and of one, so that the file
  shrinks or grows and a hole can come about; two downloads, of which the first only
  opens the file and so fills the framework's cache. Any number and length is proved.
- *pages*: three records, limits 0 to 2 (`MaxLimit`), three pages (`MaxPage`): a page
  that is full, one that is not, and one beyond; telemetry with up to two users of a
  device. The rows before the walk are taken up to a renaming of records.

The deadlock check is on except for `backend` (`CHECK_DEADLOCK FALSE` in
`MCBackend.cfg`), where requests, notifications and uploads are each made once and
the system may stop when all are over. In the other modules the state in which all has
ended has a step of its own (`Idle`, `Quiet`, `Finished`). Symmetry is used in the safety
runs alone.

**Fairness.** `WsHub!FairSpec` is weakly fair to the steps of each handler, writer
and broadcast that runs: goroutines are scheduled, `GetTelemetry` has a deadline of
5 s, a write one of 10 s, a silent peer is cut off by the read deadline of 60 s,
and `RWMutex` lets no reader pass a waiting writer. Nothing makes clients come,
peers leave, pings fail or messages arrive. `UserCache!FairSpec` is weakly fair to
requests and updates that have begun, since each has a context of 10 s,
and to the expiry of an entry, since time passes; not to `DeleteUser`, logins, or
new requests. `SessionFairness` is weakly fair to each `OnConnect` and each request,
since they are goroutines whose only waits are `WaitTimeout`s of ten seconds, and to the
broker, which reads what has been written to a connection that stands; that a
connection is ever made, or kept, or a subscription granted, is not assumed.
`NoteFairness` adds that the goroutine `saveNotification`, once started, gets to its call of
`InsertOne`. Nothing is assumed of the calls themselves, the look-up, the sending and the
insertion, which have `context.Background()` and may leave their goroutine waiting for ever;
`RecordedDespitePush` therefore says of each notification that it is recorded, or its failure
logged, in the behaviours in which its insertion ends.

**What is assumed of code outside `src/`** (external in the map): paho reports
`IsConnected` while it connects (`ConnectRetry`) and reconnects, drops a QoS 0
publication then and never completes its token before the first connection, fails a
subscription, and starts `OnConnect` in a goroutine; a broker keeps the session's
subscriptions or loses them, grants one, refuses it or does not answer, and takes packets in
the order of one connection;
Firebase answers either way or not at all; an upload that fits in memory is saved by
`os.Create` and a copy; the framework keeps a file it serves open for some seconds and
announces the length it had then; MongoDB's `createdAt` times differ, and the
unsorted telemetry comes in the same order as long as nothing changes.

## 4. Proofs

Every invariant of a passing run is a theorem, and so are both refinements; for arbitrary
constants: any number of clients, devices, broadcasts, messages, requests, connections,
updates, records and uploads, any capacity, payloads and images of any length. The theorems
rest on the assumptions the modules name, each checked by the runs:
- `HubAssumption`, `PipeAssumption`, `CacheAssumption`, `FirmwareAssumption`,
  `SessionAssumption` and `NoteAssumption` give the constants their types and tell `None`,
  `Gone`, `Unborn`, `Hole` and `Absent` from other values.
- `ListingAssumption`: pages are counted from one, so there is one.
- `CodecAssumption`: `strings.ToUpper` of `strings.TrimSpace`, here `Fold`, leaves alone the
  six words the normalisers write. Of other texts nothing is assumed.
- `EarlierAssumption`: no document of the collection has the nil ObjectID.

**The hub** (`WsHub_proofs`): `TypeCorrect`, `HubCorrect`, and from them `RemovedOnce`,
`NeverPanics`, `NothingLost`, `NobodyLeftBehind`, `RegistryStaysTidy`. The
first four are not inductive. That a broadcast does not panic needs that every client it
has still to visit is registered, which needs the lock; that a removed client is closed
once needs that a client before its registration is in no entry; that nothing is lost
needs to know, of each client a call has found, whether it is still to visit, slow, or
served. `HubInv` puts this together (`CallInv` is the part for one call), and the
proof has one step for each action. `hub_safety` checks the same formula.

`HubImplementsFeed`: a client is a member while it is registered; a call owes its telemetry
to those still to visit and those found slow, as long as they are registered.
`RegisterClient` is `Join`, a removal is `Leave`, a send is `Deliver`, the stored telemetry
is `GiveSnapshot`, `BroadcastReturn` is `Return`; the others stutter. The proof uses
`HubInv`.

**The pipeline** (`TelemetryPipeline_proofs`): `PipelineImplementsHub`, each step of the
pipeline is one of WsHub or leaves its variables alone, so the theorems about
the hub hold of the pipeline; `NothingMissed`, from `PipeInv` together with
`HubInv`: a client that has read the collection found there, or is in the audience
of, every broadcast that has begun. It depends on two orders in the code:
register before read, write before broadcast. `PipeTypeCorrect` and
`NothingUnwrittenShown` need `ShownInv`: whatever the collection, `latest` or a channel
holds was written before, for its device; a deletion takes from the collection, not from
what was written.

**The codec** (`TelemetryCodec_proofs`). `CodecTypeCorrect`: the `$set` list has a key for every
field of the struct but `ID`, which the upsert provides (`EachFieldIsSet`, from the two tables
and nothing else), so a document that is written has them all, whatever it had before.
`SnapshotIsLive`: for the same reason nothing of an earlier message is left over, and each key is
set to the field that is read from it; what is live has been normalised, and normalising
twice is normalising once (`NormalizeTwice`), so the second time in `GetTelemetry` does
nothing. `NullIsPassedOver`: `preferredField` finds the same value with and without the keys
that hold null. `RelaysInAgreement`: `relaysActive` ends in the keys of `relaysOn`.
`OldAndCompactInAgreement` is the one about the table: no key belongs to two fields, but for
the relay counts and the two stage counters (`KeysApart`, from the keys of each group of
fields), so that a full key stands for just the fields its compact key had
(`FullKeyStands`), and a field reads the same from either payload (`WidenedField`). `po`,
which the relay counts do not read, is the exception the run `codec_po` shows. The theorem
is for every payload, where the run takes the fields a few at a time.

**The user cache** (`UserCache_proofs`): `CacheTypeCorrect` and `StalePasswordExplained`. The
latter is inductive given the types: `UpdateDocument` makes the entry stale but is
itself one of the causes until `ClearUserCache` removes the entry.

**The session and its commands** (`MqttSession_proofs`). `SessionInv`
(`SessionIsInductive`): of each request the commands that the broker has taken, followed by
those on the wire, are in the order of the route, none twice, and none beyond where the
request stands; an `OnConnect` runs only for a connection that was made; a wire with
something on it belongs to a connection that stands. From it:
- `SteadyDelivery`, with `SteadyInv`: over one connection nothing that was sent is anywhere
  but on the wire or taken.
- `MixedRequestsSerialise`, with two more invariants. `FifoInv`: of a request that was
  answered before another began, every packet is on the wire before the other's, and none
  is left once one of the other's is taken. `SettingsInv`: a device has, for each method,
  the value of a request that took it and that no other request with the method came
  after (`LastWriter`). With two requests, then, each method has one of the two as its last
  writer; if one of them came after the other it wrote all they share; and if neither did,
  either order will do as long as it is one order: of the methods two routes share, at most
  one has different values (`OneDiffers`), so that the last writer of that one gives the
  order, and for the rest there is no telling.

`SessionSteps` is the specification without fairness, which the theorems do not need, and
`SessionUnderNotes` shows that the steps of Notifications, where a restart also ends
goroutines, are among them; `CommandsUnderNotes` therefore states the three for the
specification that the run `backend` takes its parts from.

**Notifications** (`Notifications_proofs`): `NoteTypeCorrect` and `PushedToHolders`. The latter
is made inductive by `HeldIsKept`: as long as a notification is under way, every token that a
look-up could find now is among those noted for it. Each step that changes a
user notes the new ones; the look-up takes one of them; the session's steps touch
none of this.

**Firmware** (`Firmware_proofs`): `FirmwareTypeCorrect`, `AnswersAreTrue`, `DownloadsMatch`. An
upload that was alone at its beginning, and after which none has begun, is still alone
(`SoleInv`), so the file is as much of its image as it has written, and the hash as much
as it has read. What it answers is the content of the file, and stays so while nobody
writes, which is until the next upload begins and changes `begun` (`SureInv`); a reader
whose file was opened under the same number has read so much of that content.

`FirmwareImplementsStore`: the release is what was settled; creating the file is `Begin`, the
answer is `Release` or `AnswerOverlapped`, opening the file is `Fetch`, the end of the download
is `Give`; the copy loop, `getSHA256` and the reads cannot be seen. A view is sound if it was
opened after the release and no upload has begun since. On top of `FirmwareInv` it needs that a
sound view is of the release there is now (`Agreed`): another one would need an upload under
way, and under a sound view there is none.

**Listings** (`Listings_proofs`): `ListingTypeCorrect`, `NothingIsSkipped`,
`PagesMakeUpListing`, from `ListingInv`. For the sorted listings (`SeenOrToCome`): as long as
nothing is deleted, a row that was there at the beginning has been seen or stands behind the
rows the pages so far cover, since an insertion goes to the front and only moves rows back;
when the walk ends, the total it ends by is not above what the pages have covered. For listings
that do not change (`SeenSoFar`): what has been seen is the listing up to the end of the page,
and the last page does not end before `total_count`, which is at most the number of rows
(`TotalIsRows`): equal to it where each record has one row, and less by the second users of
devices in the telemetry, whose rows the end of the walk may leave out.
The pages are counted with limits as variables, so the proof has the one nonlinear lemma
(`Offsets`).

**What the proofs changed.** `CommandsOf` chose among the commands of a route by a `CASE` with
guards that overlapped, which leaves open which of them is meant, where the code is a chain of
`if`s; the proof of `CommandsCounted` failed for it, and it is a chain of `IF`s now.
`SwitchesSerialise` had no bound on the requests of a device; the attempt to prove it gave the
counterexample of section 3.

**Model-checked only.** What must happen in the end: `LostClientIsForgotten`,
`EvictedClientIsHungUpOn`, `QueuedIsTaken`, `BroadcastReturns`, `VerdictsSettle`,
`RequestsAnswered`, `SubscribedAgain`, `RecordedDespitePush`. Liveness under fairness, with
ENABLED, is beyond the prover. The properties the code violates are shown by a counterexample
each.

## 5. Not modelled, and why

- The inside of libraries: paho, the websocket connection, Fiber, the MongoDB driver, JWT
  signatures. They are modelled by what the code relies on. In particular whether a connection
  is reused while `writePump` still holds it, or a route parameter changes under
  `DeviceStatusWS`, is decided there.
- `GetUserByID`, which reads one document, and `UpdateUserAndDeviceId`, a copy of `UpdateUser`
  that nothing calls.
- JSON and BSON syntax, numbers beyond their kind, log records, HTTP responses.
- Start-up: reading the configuration, opening the database and Firebase is sequential. Where
  Firebase could not be opened, the notification goroutine calls a nil client, and what that
  does is decided in its library. A shut-down is the restart of MqttSession and Notifications.
- The router: a table, whose entries are the requests of the models; public assets, CORS and
  `recover` are the framework's.
- What a device does with a command. The model keeps the last value of each method.
- Search filters of the listings, which only narrow what is listed.

## 6. Plan

Written in this order, the most important behaviour first:

1. *Done*: DeviceFeed, WsHub and the refinement; TelemetryPipeline on
   top of it; TelemetryCodec; UserCache; MqttSession and Notifications on top of it;
   FirmwareStore and Firmware; Listings; all their safety proved.
2. An abstract specification of the user cache (a request is judged by a user that was
   the document at some time since the entry was filled) that UserCache implements.
3. The lemmas on sequences that MqttSession_proofs, Listings_proofs and Firmware_proofs
   each have (what appending, taking the head and taking a prefix do) are
   of one kind and could be one module.
