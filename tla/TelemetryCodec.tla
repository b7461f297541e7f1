-------------------------- MODULE TelemetryCodec --------------------------
(***************************************************************************)
(* What a device's JSON becomes: Telemetry.UnmarshalJSON and               *)
(* StageSettings.UnmarshalJSON (model/telemetry.go), the document          *)
(* UpsetTelemetry writes and what GetTelemetry makes of it                 *)
(* (service/telemetry.go).                                                 *)
(*                                                                         *)
(* A JSON value is a pair <<kind, text>>, an object a function from the    *)
(* keys it has to values; the text of an array is its sequence of objects. *)
(* A decoded telemetry is a function from the names of the struct's fields *)
(* to texts, for Stages to a sequence of decoded stages; a document is one *)
(* from the keys it has in the collection.                                 *)
(***************************************************************************)
EXTENDS Naturals, Sequences, SequencesExt

CONSTANTS
  Payloads,       \* JSON objects a device may send
  Earlier,        \* what the collection may hold of the device before: a document, or
                  \* <<>>, which is none
  Fold(_)         \* strings.ToUpper(strings.TrimSpace(_))

(* A word in capitals is upper case and trimmed already.                   *)
ASSUME CodecAssumption ==
  \A w \in {"AUTO", "MANUAL", "CONNECTED", "DISCONNECTED", "ENABLED", "DISABLED"} : Fold(w) = w

(* The database gives each document an ID, and never that of all zeros.    *)
NilObjectID == "000000000000000000000000"
NewObjectID == "an ID"

ASSUME EarlierAssumption ==
  \A doc \in Earlier : "_id" \in DOMAIN doc => doc["_id"] # NilObjectID

VARIABLES
  received,   \* the object on its way
  phase,      \* "received", "decoded", "rejected", "stored" or "read"
  live,       \* the telemetry UnmarshalJSON made: the one that is broadcast
  document,   \* the document of the collection
  snapshot    \* what GetTelemetry returns

codecVars == <<received, phase, live, document, snapshot>>

(* The struct Telemetry: its fields, with the keys of the document they    *)
(* are read from.                                                          *)
Tags ==
  [ ID |-> "_id", Temperature |-> "temperature", Humidity |-> "humidity", Motor |-> "motor",
    Fan |-> "fan", Heater |-> "heater", Spare |-> "spare", GprsStatus |-> "gprsStatus",
    DeviceID |-> "deviceId", Uptime |-> "uptime", PowerOn |-> "powerOn",
    SensorFailure |-> "sensorFailure", Timer |-> "timer", DehumidifierHum |-> "dehumidifierHum",
    DehumidifierActive |-> "dehumidifierActive", RelaysOn |-> "relaysOn",
    RelaysActive |-> "relaysActive", SystemStatus |-> "systemStatus", CO2 |-> "co2",
    CO2Raw |-> "co2Raw", CO2Pct |-> "co2Pct", CO2Status |-> "co2Status", CO2Warn |-> "co2Warn",
    NH3 |-> "nh3", NH3Raw |-> "nh3Raw", NH3Pct |-> "nh3Pct", NH3Rs |-> "nh3Rs",
    NH3Ratio |-> "nh3Ratio", NH3Warn |-> "nh3Warn", TempOffset |-> "tempOffset",
    HumOffset |-> "humOffset", CO2Offset |-> "co2Offset", NH3Offset |-> "nh3Offset",
    CO2WarnPPM |-> "co2WarnPPM", NH3WarnPPM |-> "nh3WarnPPM", CO2MinPct |-> "co2MinPct",
    CO2MaxPct |-> "co2MaxPct", NH3MinPct |-> "nh3MinPct", NH3MaxPct |-> "nh3MaxPct",
    CO2FanOverride |-> "co2FanOverride", NH3FanOverride |-> "nh3FanOverride",
    AirOverride |-> "airOverride", Mode |-> "mode", FanTempMin |-> "fanTempMin",
    FanTempMax |-> "fanTempMax", MotorHumMin |-> "motorHumMin", MotorHumMax |-> "motorHumMax",
    HeaterTempMin |-> "heaterTempMin", HeaterTempMax |-> "heaterTempMax",
    FanOnDuration |-> "fanOnDuration", FanOffDuration |-> "fanOffDuration",
    ActiveStage |-> "activeStage", StageNumber |-> "stageNumber",
    StageDurationHours |-> "stageDurationHours", StageElapsedHours |-> "stageElapsedHours",
    StageRemainingHours |-> "stageRemainingHours", Stages |-> "stages",
    LastTelemetryTimestamp |-> "lastTelemetryTimestamp",
    ProductionCompleted |-> "productionCompleted", FirmwareVersion |-> "firmwareVersion",
    SystemEnabled |-> "systemEnabled", UpdatedAt |-> "updatedAt" ]

Aliases(type, keys) == [type |-> type, keys |-> keys]

(* Which keys a field of Telemetry is taken from, in order of preference,  *)
(* and how: decode into a Go type, decodeStringOrNumber or decodeBool.     *)
(* ID is taken from none: the key "id" is the device's.                    *)
DeviceFields ==
  [ Temperature  |-> Aliases("float", <<"t", "temperature">>),
    Humidity     |-> Aliases("float", <<"h", "humidity">>),
    Motor        |-> Aliases("int", <<"m", "motor">>),
    Fan          |-> Aliases("int", <<"f", "fan">>),
    Heater       |-> Aliases("int", <<"ht", "heater">>),
    Spare        |-> Aliases("int", <<"sp", "spare">>),
    GprsStatus   |-> Aliases("text", <<"gprs", "gprsStatus">>),
    DeviceID     |-> Aliases("string", <<"id", "deviceId">>),
    Uptime       |-> Aliases("int", <<"up", "uptime">>),
    SensorFailure |-> Aliases("bool", <<"senFail", "sensorFailure">>),
    Timer        |-> Aliases("int", <<"tim", "timer">>),
    Mode         |-> Aliases("string", <<"mode">>),
    FirmwareVersion |-> Aliases("string", <<"ver", "firmwareVersion">>),
    SystemEnabled |-> Aliases("bool", <<"en", "systemEnabled">>),
    SystemStatus |-> Aliases("string", <<"systemStatus">>),
    DehumidifierActive |-> Aliases("bool", <<"dehAct", "dehumidifierActive">>),
    UpdatedAt    |-> Aliases("time", <<"updatedAt">>) ]

RelayFieldsApart ==   \* slip: relaysOn does not back relaysActive up
  [ PowerOn      |-> Aliases("int", <<"po", "powerOn">>),
    RelaysOn     |-> Aliases("int", <<"relaysOn", "powerOn">>),
    RelaysActive |-> Aliases("int", <<"relaysActive", "powerOn">>) ]
RelayFields ==
  [ PowerOn      |-> Aliases("int", <<"po", "powerOn">>),
    RelaysOn     |-> Aliases("int", <<"relaysOn", "powerOn">>),
    RelaysActive |-> Aliases("int", <<"relaysActive", "relaysOn", "powerOn">>) ]

ProgressFields ==
  [ ActiveStage  |-> Aliases("int", <<"stg", "activeStage", "stageNumber">>),
    StageNumber  |-> Aliases("int", <<"stg", "stageNumber", "activeStage">>),
    StageDurationHours  |-> Aliases("int", <<"dur", "stageDurationHours">>),
    StageElapsedHours   |-> Aliases("float", <<"elap", "stageElapsedHours">>),
    StageRemainingHours |-> Aliases("float", <<"rem", "stageRemainingHours">>),
    Stages       |-> Aliases("array", <<"s", "stages">>),
    LastTelemetryTimestamp |-> Aliases("int", <<"lastTelemetryTimestamp">>),
    ProductionCompleted |-> Aliases("bool", <<"prodDone", "productionCompleted">>) ]

ThresholdFields ==
  [ FanTempMin   |-> Aliases("float", <<"ftMin", "fanTempMin">>),
    FanTempMax   |-> Aliases("float", <<"ftMax", "fanTempMax">>),
    MotorHumMin  |-> Aliases("float", <<"mhMin", "motorHumMin">>),
    MotorHumMax  |-> Aliases("float", <<"mhMax", "motorHumMax">>),
    HeaterTempMin |-> Aliases("float", <<"htMin", "heaterTempMin">>),
    HeaterTempMax |-> Aliases("float", <<"htMax", "heaterTempMax">>),
    FanOnDuration  |-> Aliases("float", <<"fon", "fanOnDuration">>),
    FanOffDuration |-> Aliases("float", <<"foff", "fanOffDuration">>),
    DehumidifierHum |-> Aliases("float", <<"dehum", "dehumidifierHum">>) ]

AirFields ==
  [ CO2       |-> Aliases("float", <<"co2">>),
    CO2Raw    |-> Aliases("float", <<"co2Raw">>),
    CO2Pct    |-> Aliases("float", <<"co2Pct">>),
    CO2Status |-> Aliases("text", <<"co2st", "co2Status">>),
    CO2Warn   |-> Aliases("bool", <<"co2Warn">>),
    NH3       |-> Aliases("float", <<"nh3">>),
    NH3Raw    |-> Aliases("float", <<"nh3Raw">>),
    NH3Pct    |-> Aliases("float", <<"nh3Pct">>),
    NH3Rs     |-> Aliases("float", <<"nh3Rs">>),
    NH3Ratio  |-> Aliases("float", <<"nh3Ratio">>),
    NH3Warn   |-> Aliases("bool", <<"nh3Warn">>),
    TempOffset |-> Aliases("float", <<"tOff", "tempOffset">>),
    HumOffset  |-> Aliases("float", <<"hOff", "humOffset">>),
    CO2Offset  |-> Aliases("float", <<"co2Off", "co2Offset">>),
    NH3Offset  |-> Aliases("float", <<"nh3Off", "nh3Offset">>),
    CO2WarnPPM |-> Aliases("float", <<"co2Set", "co2WarnPPM">>),
    NH3WarnPPM |-> Aliases("float", <<"nh3Set", "nh3WarnPPM">>),
    CO2MinPct  |-> Aliases("float", <<"co2Min", "co2MinPct">>),
    CO2MaxPct  |-> Aliases("float", <<"co2Max", "co2MaxPct">>),
    NH3MinPct  |-> Aliases("float", <<"nh3Min", "nh3MinPct">>),
    NH3MaxPct  |-> Aliases("float", <<"nh3Max", "nh3MaxPct">>),
    CO2FanOverride |-> Aliases("bool", <<"co2Ovr", "co2FanOverride">>),
    NH3FanOverride |-> Aliases("bool", <<"nh3Ovr", "nh3FanOverride">>),
    AirOverride    |-> Aliases("bool", <<"airOvr", "airOverride">>) ]

FieldGroups == {DeviceFields, RelayFields, ProgressFields, ThresholdFields, AirFields}
TelemetryFields ==
  [n \in UNION {DOMAIN g : g \in FieldGroups} |-> (CHOOSE g \in FieldGroups : n \in DOMAIN g)[n]]

(* The same for StageSettings.                                             *)
StageFields ==
  [ FanTempMin    |-> Aliases("float", <<"fm", "ftMin", "fanTempMin">>),
    FanTempMax    |-> Aliases("float", <<"fx", "ftMax", "fanTempMax">>),
    MotorHumMin   |-> Aliases("float", <<"mm", "mhMin", "motorHumMin">>),
    MotorHumMax   |-> Aliases("float", <<"mx", "mhMax", "motorHumMax">>),
    HeaterTempMin |-> Aliases("float", <<"hm", "htMin", "heaterTempMin">>),
    HeaterTempMax |-> Aliases("float", <<"hx", "htMax", "heaterTempMax">>),
    CO2WarnPPM    |-> Aliases("float", <<"cw", "co2WarnPPM">>),
    NH3WarnPPM    |-> Aliases("float", <<"nw", "nh3WarnPPM">>),
    CO2MinPct     |-> Aliases("float", <<"c2min", "co2MinPct">>),
    CO2MaxPct     |-> Aliases("float", <<"c2max", "co2MaxPct">>),
    NH3MinPct     |-> Aliases("float", <<"n3min", "nh3MinPct">>),
    NH3MaxPct     |-> Aliases("float", <<"n3max", "nh3MaxPct">>),
    DurationHours |-> Aliases("int", <<"du", "dur", "durationHours">>),
    FanOnDuration  |-> Aliases("float", <<"on", "fon", "fanOnDuration">>),
    FanOffDuration |-> Aliases("float", <<"of", "foff", "fanOffDuration">>),
    DehumidifierHum |-> Aliases("float", <<"dh", "dehum", "dehumidifierHum">>) ]

-----------------------------------------------------------------------------
(* Decoding.                                                               *)

Null     == <<"null", "null">>
Kind(v)  == v[1]

(* preferredField: which of the keys hold something other than null ...    *)
PresentCompactOnly(fields, keys) ==   \* slip: only the first key is tried
  {i \in {1} : keys[i] \in DOMAIN fields /\ Kind(fields[keys[i]]) # "null"}
PresentCountingNull(fields, keys) ==   \* slip: null is taken for a value
  {i \in DOMAIN keys : keys[i] \in DOMAIN fields}
Present(fields, keys) ==
  {i \in DOMAIN keys : keys[i] \in DOMAIN fields /\ Kind(fields[keys[i]]) # "null"}

(* ... and the value of the first of them.                                 *)
PreferredField(fields, keys) ==
  LET found == Present(fields, keys)
  IN  fields[keys[CHOOSE i \in found : \A j \in found : i <= j]]

(* preferredKey: one of the keys is there, be it with null.                *)
PreferredKey(fields, keys) == ToSet(keys) \cap DOMAIN fields # {}

(* Which JSON kinds a Go type is decoded from without an error.            *)
Accepts ==
  [ float |-> {"int", "float"}, int |-> {"int"}, string |-> {"string"},
    array |-> {"array"}, text |-> {"string", "int", "float"}, bool |-> {"bool", "int"},
    time  |-> {"time"} ]

Zero == [ float |-> "0", int |-> "0", string |-> "", array |-> <<>>, text |-> "",
          bool |-> "false", time |-> "" ]

(* decode, decodeStringOrNumber, decodeBool: a field fails when its        *)
(* preferred value is of a wrong kind ...                                  *)
PlainFails(fields, f) ==
  /\ Present(fields, f.keys) # {}
  /\ Kind(PreferredField(fields, f.keys)) \notin Accepts[f.type]

(* ... keeps its zero value when there is none, and is read otherwise.     *)
PlainValue(fields, f) ==
  LET text == PreferredField(fields, f.keys)[2]
  IN  IF Present(fields, f.keys) = {} THEN Zero[f.type]
      ELSE IF f.type # "bool" THEN text
      ELSE IF text \in {"0", "false"} THEN "false" ELSE "true"

(* StageSettings.UnmarshalJSON.                                            *)
StageFails(fields)  == \E n \in DOMAIN StageFields : PlainFails(fields, StageFields[n])
StageDecode(fields) == [n \in DOMAIN StageFields |-> PlainValue(fields, StageFields[n])]

(* The elements of the array that "stages" holds.                          *)
StageObjects(fields) ==
  LET keys == TelemetryFields.Stages.keys
  IN  IF Present(fields, keys) = {} THEN <<>> ELSE PreferredField(fields, keys)[2]

Fails(fields) ==
  \/ \E n \in DOMAIN TelemetryFields : PlainFails(fields, TelemetryFields[n])
  \/ \E i \in DOMAIN StageObjects(fields) : StageFails(StageObjects(fields)[i])

Decode(fields) ==
  LET objects == StageObjects(fields)
      Value(n) == IF n = "Stages" THEN [i \in DOMAIN objects |-> StageDecode(objects[i])]
                                  ELSE PlainValue(fields, TelemetryFields[n])
  IN  [n \in DOMAIN Tags |-> IF n = "ID" THEN NilObjectID ELSE Value(n)]

(* A switch over the spellings of two values; any other text stays.        *)
Normalize(s, yes, no, yesWords, noWords) ==
  IF Fold(s) \in yesWords THEN yes ELSE IF Fold(s) \in noWords THEN no ELSE s

NormalizeMode(s) == Normalize(s, "AUTO", "MANUAL", {"A", "AUTO"}, {"M", "MANUAL"})

NormalizeGprsStatus(s) ==
  Normalize(s, "CONNECTED", "DISCONNECTED",
            {"1", "TRUE", "CONNECTED", "ONLINE"}, {"0", "FALSE", "DISCONNECTED", "OFFLINE"})

NormalizeSystemStatus(s) ==
  Normalize(s, "ENABLED", "DISABLED",
            {"1", "TRUE", "ENABLED", "ON"}, {"0", "FALSE", "DISABLED", "OFF"})

StatusOf(enabled) == IF enabled = "true" THEN "ENABLED" ELSE "DISABLED"

(* The three texts that are normalised; status stands in for an empty      *)
(* SystemStatus.                                                           *)
Normalized(t, status) ==
  LET s == NormalizeSystemStatus(t.SystemStatus)
  IN  [t EXCEPT !.Mode = NormalizeMode(@), !.GprsStatus = NormalizeGprsStatus(@),
                !.SystemStatus = IF s = "" THEN status ELSE s]

(* Telemetry.UnmarshalJSON of an object that decodes.                      *)
UnmarshalJSONRaw(fields) == Decode(fields)   \* slip: normalising is left to the reader
UnmarshalJSON(fields) ==
  LET t == Decode(fields)
  IN  Normalized(t, IF PreferredKey(fields, <<"en", "systemEnabled">>)
                    THEN StatusOf(t.SystemEnabled) ELSE "")

-----------------------------------------------------------------------------
(* The document.                                                           *)

(* The keys UpsetTelemetry sets, each with the field it sets it to.        *)
SetFields ==
  [ temperature |-> "Temperature", humidity |-> "Humidity", motor |-> "Motor", fan |-> "Fan",
    heater |-> "Heater", spare |-> "Spare", gprsStatus |-> "GprsStatus",
    deviceId |-> "DeviceID", uptime |-> "Uptime", powerOn |-> "PowerOn",
    sensorFailure |-> "SensorFailure", timer |-> "Timer", dehumidifierHum |-> "DehumidifierHum",
    dehumidifierActive |-> "DehumidifierActive", relaysOn |-> "RelaysOn",
    relaysActive |-> "RelaysActive", systemStatus |-> "SystemStatus", co2 |-> "CO2",
    co2Raw |-> "CO2Raw", co2Pct |-> "CO2Pct", co2Status |-> "CO2Status", co2Warn |-> "CO2Warn",
    nh3 |-> "NH3", nh3Raw |-> "NH3Raw", nh3Pct |-> "NH3Pct", nh3Rs |-> "NH3Rs",
    nh3Ratio |-> "NH3Ratio", nh3Warn |-> "NH3Warn", tempOffset |-> "TempOffset",
    humOffset |-> "HumOffset", co2Offset |-> "CO2Offset", nh3Offset |-> "NH3Offset",
    co2WarnPPM |-> "CO2WarnPPM", nh3WarnPPM |-> "NH3WarnPPM", co2MinPct |-> "CO2MinPct",
    co2MaxPct |-> "CO2MaxPct", nh3MinPct |-> "NH3MinPct", nh3MaxPct |-> "NH3MaxPct",
    co2FanOverride |-> "CO2FanOverride", nh3FanOverride |-> "NH3FanOverride",
    airOverride |-> "AirOverride", mode |-> "Mode", fanTempMin |-> "FanTempMin",
    fanTempMax |-> "FanTempMax", motorHumMin |-> "MotorHumMin", motorHumMax |-> "MotorHumMax",
    heaterTempMin |-> "HeaterTempMin", heaterTempMax |-> "HeaterTempMax",
    fanOnDuration |-> "FanOnDuration", fanOffDuration |-> "FanOffDuration",
    activeStage |-> "ActiveStage", stageNumber |-> "StageNumber",
    stageDurationHours |-> "StageDurationHours", stageElapsedHours |-> "StageElapsedHours",
    stageRemainingHours |-> "StageRemainingHours", stages |-> "Stages",
    lastTelemetryTimestamp |-> "LastTelemetryTimestamp",
    productionCompleted |-> "ProductionCompleted", systemEnabled |-> "SystemEnabled",
    firmwareVersion |-> "FirmwareVersion" ]

(* The update: these, and updatedAt, which is set to the time it is made.  *)
UpdateFieldsButOverride(t) ==   \* slip: a field of the struct is not in the list
  [k \in (DOMAIN SetFields \ {"airOverride"}) \cup {"updatedAt"} |->
     IF k = "updatedAt" THEN "now" ELSE t[SetFields[k]]]
UpdateFields(t) ==
  [k \in DOMAIN SetFields \cup {"updatedAt"} |->
     IF k = "updatedAt" THEN "now" ELSE t[SetFields[k]]]

(* UpdateOne with $set and upsert: what is not set stays, and a document   *)
(* that is inserted is given an ID.                                        *)
Upsert(doc, fields) ==
  [k \in DOMAIN fields \cup DOMAIN doc \cup {"_id"} |->
     IF k \in DOMAIN fields THEN fields[k] ELSE IF k \in DOMAIN doc THEN doc[k] ELSE NewObjectID]

(* GetTelemetry: the document is decoded, normalised once more and given a *)
(* status if it has none.                                                  *)
ZeroOf(n) == IF n = "ID" THEN NilObjectID ELSE Zero[TelemetryFields[n].type]

GetTelemetry(doc) ==
  LET t == [n \in DOMAIN Tags |-> IF Tags[n] \in DOMAIN doc THEN doc[Tags[n]] ELSE ZeroOf(n)]
  IN  Normalized(t, StatusOf(t.SystemEnabled))

-----------------------------------------------------------------------------
Init ==
  /\ received \in Payloads
  /\ phase = "received"
  /\ document \in Earlier
  /\ live = <<>> /\ snapshot = <<>>

(* json.Unmarshal in MessageHandler fails, or the device ID is empty.      *)
Reject ==
  /\ phase = "received"
  /\ ~Fails(received) => UnmarshalJSON(received).DeviceID = ""
  /\ phase' = "rejected"
  /\ UNCHANGED <<received, live, document, snapshot>>

Accept ==
  /\ phase = "received"
  /\ ~Fails(received)
  /\ UnmarshalJSON(received).DeviceID # ""
  /\ live' = UnmarshalJSON(received)
  /\ phase' = "decoded"
  /\ UNCHANGED <<received, document, snapshot>>

(* UpsetTelemetry.                                                         *)
Store ==
  /\ phase = "decoded"
  /\ document' = Upsert(document, UpdateFields(live))
  /\ phase' = "stored"
  /\ UNCHANGED <<received, live, snapshot>>

Read ==
  /\ phase = "stored"
  /\ snapshot' = GetTelemetry(document)
  /\ phase' = "read"
  /\ UNCHANGED <<received, live, document>>

Finished == phase \in {"rejected", "read"} /\ UNCHANGED codecVars

Next == Reject \/ Accept \/ Store \/ Read \/ Finished

Spec == Init /\ [][Next]_codecVars

-----------------------------------------------------------------------------
(* Properties.                                                             *)

(* What is live or read has the fields of a Telemetry, and what is stored  *)
(* the keys of all of them, when its phase says that it is there: $set     *)
(* lists every field by hand, so that a document which was not there       *)
(* before has no key but those (UpsetTelemetry).                           *)
TypeOK ==
  /\ phase \in {"received", "rejected", "decoded", "stored", "read"}
  /\ phase \in {"decoded", "stored", "read"} => DOMAIN live = DOMAIN Tags
  /\ phase \in {"stored", "read"} => Range(Tags) \subseteq DOMAIN document
  /\ phase = "read" => DOMAIN snapshot = DOMAIN Tags

(* The full-size keys are the struct's JSON tags, all others are compact;  *)
(* FullKey is one that stands for the key k, for a key of no field itself. *)
FullKeys == {Last(TelemetryFields[n].keys) : n \in DOMAIN TelemetryFields}
              \cup {"relaysOn", "relaysActive"}
FullKey(k) ==
  IF k \in FullKeys \/ \A f \in Range(TelemetryFields) : k \notin ToSet(f.keys) THEN k
  ELSE Last((CHOOSE f \in Range(TelemetryFields) : k \in ToSet(f.keys)).keys)

(* Two payloads are decoded to the same telemetry, or both refused.        *)
SameTelemetry(p, q) ==
  /\ Fails(p) <=> Fails(q)
  /\ ~Fails(p) => UnmarshalJSON(p) = UnmarshalJSON(q)

(* received with full keys for compact ones, where it gives no field by a  *)
(* compact key and by another one as well.                                 *)
Widens ==
  \A f \in Range(TelemetryFields) :
    LET given == ToSet(f.keys) \cap DOMAIN received
    IN  given \subseteq FullKeys \/ \E k \in given : given = {k}
Widened ==
  [f \in {FullKey(k) : k \in DOMAIN received} |->
     received[CHOOSE k \in DOMAIN received : FullKey(k) = f]]

(* "UnmarshalJSON accepts both full-size firmware keys and compact         *)
(* firmware keys": an old and a compact payload that say the same are the  *)
(* same telemetry.                                                         *)
OldAndCompactAgree ==
  phase = "received" /\ Widens => SameTelemetry(received, Widened)

(* The same of every payload without the compact key "po".                 *)
OldAndCompactAgreeButPo ==
  phase = "received" /\ Widens /\ "po" \notin DOMAIN received
  => SameTelemetry(received, Widened)

(* A client that connects is shown by GetTelemetry what the clients before *)
(* it were shown live, provided that has a status: none of the device's    *)
(* values is lost on the way through the collection or left over from an   *)
(* earlier message, and normalising once more changes nothing.  updatedAt  *)
(* is the time of the write.  ID is that of the document, where live it is *)
(* nil: it tells what was read from what is live.                          *)
SnapshotShowsLive ==
  phase = "read" /\ live.SystemStatus # ""
  => /\ snapshot = [live EXCEPT !.UpdatedAt = "now", !.ID = document["_id"]]
     /\ live.ID = NilObjectID /\ snapshot.ID # NilObjectID

(* A key that holds null says nothing: preferredField passes over it, so   *)
(* that the telemetry is the one without the key.  SystemStatus alone goes *)
(* by preferredKey, which counts the null.                                 *)
NullSaysNothing ==
  LET said == [k \in {j \in DOMAIN received : Kind(received[j]) # "null"} |-> received[k]]
  IN  phase = "received" =>
        /\ Fails(received) <=> Fails(said)
        /\ ~Fails(said) =>
             \A n \in DOMAIN TelemetryFields \ {"SystemStatus"} :
               UnmarshalJSON(received)[n] = UnmarshalJSON(said)[n]

(* The relay counts back one another up: whichever of relaysActive,        *)
(* relaysOn and powerOn the firmware sends, RelaysActive is known, and it  *)
(* is RelaysOn unless the firmware counts active relays apart.             *)
RelaysAgree ==
  phase = "decoded" /\ Present(received, <<"relaysActive">>) = {}
  => live.RelaysActive = live.RelaysOn

(* telemetry_test.go, TestTelemetryUnmarshalPrefersCompactKeys...: of      *)
(* "powerOn" and "relaysOn" the latter, compact, wins PowerOn.             *)
RelaysOnWinsPowerOn ==
  phase = "decoded" /\ DOMAIN received = {"id", "powerOn", "relaysOn"}
    /\ received["relaysOn"] = <<"int", "0">>
  => live.PowerOn = "0"

=============================================================================
